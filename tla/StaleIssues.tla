------------------------------ MODULE StaleIssues ------------------------------
(***************************************************************************)
(* Package stale, which the command mark-and-sweep-stale-issues runs on a  *)
(* repository, and the handlers of the server that take its labels off     *)
(* again: issuecomment.StaleUnlabeler, issuecomment.                       *)
(* PendingFeedbackUnlabeler and labeler.IssueHasPullRequestLabeler.        *)
(*                                                                         *)
(* A sweep lists the open issues page by page and then works through the   *)
(* list, so that it acts on what an issue was when its page was read.  The *)
(* handlers act when the webhook of a comment arrives, or not at all when  *)
(* it is lost.  GitHub keeps the issues; a comment or a change of labels   *)
(* updates an issue.                                                       *)
(*                                                                         *)
(* Times are ages, which stop growing when they exceed DormantDuration.    *)
(* Time passes only while no sweep and no handler runs: they take minutes, *)
(* a unit of the model is a month.                                         *)
(***************************************************************************)
EXTENDS Naturals, Sequences, SequencesExt

CONSTANTS
  Issues,
  Pulls,            \* the issues that are pull requests
  Sweeps,           \* processes that run the command
  None,
  PerPage,          \* issues on a page of the list
  DormantDuration,
  MaxActs,          \* bound on what people do
  MaxErrors,        \* bound on calls that fail, webhooks lost and sweeps killed
  MaxOverlaps       \* bound on sweeps that start while another one runs

StaleLabels  == {"stale", "pending-feedback"}
ExemptLabels == {"has-pull-request"}
Labels       == StaleLabels \cup ExemptLabels
Ages         == 0..(DormantDuration + 1)

ASSUME ConstantsAssumption ==
  /\ IsFiniteSet(Issues) /\ Pulls \subseteq Issues
  /\ PerPage \in Nat \ {0} /\ DormantDuration \in Nat
  /\ MaxActs \in Nat /\ MaxErrors \in Nat /\ MaxOverlaps \in Nat

\* Of an issue, the command reads open, labels and age, which is the time since the
\* last update.  The others are history: the time since somebody commented on or
\* (re)opened the issue and since it got a stale label, and the notifications it
\* got since it was last labelled stale.
IssueType == [open : BOOLEAN, labels : SUBSET Labels, age : Ages,
              quiet : Ages, marked : Ages, notices : 0..2]
EntryType == [num : Issues, at : IssueType]
TaskType  == [issue : Issues, label : Labels, byBot : BOOLEAN,
              step : {"sender", "lookup", "remove", "add"}]

ASSUME NoneAssumption == None \notin IssueType

VARIABLES
  issue,      \* GitHub: the issues
  byUpdate,   \* GitHub: the open issues, the one updated longest ago first
  pc,         \* pc[s]: where sweep s is
  page,       \* page[s]: the page it reads next
  allIssues,  \* allIssues[s]: what it has listed and not yet worked through
  tasks,      \* invocations of handlers that have yet to return
  authed,     \* does the server know its own login?
  closed,     \* history: the entry on which a sweep last closed the issue
  acts, errors, overlaps  \* counters of what the bounds limit

vars == <<issue, byUpdate, pc, page, allIssues, tasks, authed, closed, acts, errors, overlaps>>

TypeOK ==
  /\ issue \in [Issues -> IssueType]
  /\ byUpdate \in Seq(Issues)
  /\ pc \in [Sweeps -> {"idle", "list", "act", "notify"}]
  /\ page \in [Sweeps -> Nat \ {0}]
  /\ allIssues \in [Sweeps -> Seq(EntryType)]
  /\ tasks \subseteq TaskType
  /\ authed \in BOOLEAN
  /\ closed \in [Issues -> IssueType \cup {None}]
  /\ acts \in 0..MaxActs /\ errors \in 0..MaxErrors /\ overlaps \in 0..MaxOverlaps

\* An issue that was just opened, and perhaps sent back to its author.
NewIssue == { [open |-> TRUE, labels |-> labels, age |-> 0, quiet |-> 0, marked |-> 0,
               notices |-> 0] : labels \in {{}, {"pending-feedback"}} }

Init ==
  /\ issue \in [Issues -> NewIssue]
  /\ byUpdate \in SetToSeqs(Issues)
  /\ pc = [s \in Sweeps |-> "idle"]
  /\ page = [s \in Sweeps |-> 1]
  /\ allIssues = [s \in Sweeps |-> <<>>]
  /\ tasks = {} /\ authed = FALSE
  /\ closed = [i \in Issues |-> None]
  /\ acts = 0 /\ errors = 0 /\ overlaps = 0

-----------------------------------------------------------------------------
\* GitHub: the issue i becomes new and is the last that was updated.
Update(i, new) ==
  LET AtEnd == IF new.open THEN <<i>> ELSE <<>>
  IN  /\ issue' = [issue EXCEPT ![i] = [new EXCEPT !.age = 0]]
      /\ \/ ~issue[i].open /\ byUpdate' = byUpdate \o AtEnd
         \/ \E k \in DOMAIN byUpdate :
              byUpdate[k] = i /\ byUpdate' = RemoveAt(byUpdate, k) \o AtEnd

AddLabel(i, label) ==
  LET old == issue[i]
  IN  IF label \in old.labels THEN UNCHANGED <<issue, byUpdate>>
      ELSE Update(i, [old EXCEPT
             !.labels  = @ \cup {label},
             !.marked  = IF label \in StaleLabels /\ old.labels \cap StaleLabels = {}
                           THEN 0 ELSE @,
             !.notices = IF label = "stale" THEN 0 ELSE @])

RemoveLabel(i, label) ==
  IF label \in issue[i].labels THEN Update(i, [issue[i] EXCEPT !.labels = @ \ {label}])
                               ELSE UNCHANGED <<issue, byUpdate>>

Fail == errors < MaxErrors /\ errors' = errors + 1

\* The webhook of an event starts its handlers, or is lost.
Deliver(handlers) == \/ tasks' = tasks \cup handlers /\ UNCHANGED errors
                     \/ Fail /\ UNCHANGED tasks

\* What the two handlers of comments make of a comment on issue i; of the event they
\* read only what it brought with it.
PendingFeedbackUnlabeler(i, byAuthor) ==
  IF byAuthor /\ "pending-feedback" \in issue[i].labels
    THEN {[issue |-> i, label |-> "pending-feedback", byBot |-> FALSE, step |-> "lookup"]}
    ELSE {}

Comment(i, byAuthor, byBot) ==
  Deliver({[issue |-> i, label |-> "stale", byBot |-> byBot, step |-> "sender"]}
            \cup PendingFeedbackUnlabeler(i, byAuthor))

\* What people do: comment, change labels, close, reopen, open a pull request that
\* fixes the issue.
Act(i) ==
  /\ acts < MaxActs /\ acts' = acts + 1
  /\ \/ /\ \E byAuthor \in BOOLEAN : Comment(i, byAuthor, FALSE)
        /\ Update(i, [issue[i] EXCEPT !.quiet = 0])
     \/ /\ \E label \in Labels : AddLabel(i, label) \/ RemoveLabel(i, label)
        /\ UNCHANGED <<tasks, errors>>
     \/ /\ Update(i, [issue[i] EXCEPT !.open = ~@, !.quiet = 0])
        /\ UNCHANGED <<tasks, errors>>
     \/ /\ Deliver({[issue |-> i, label |-> "has-pull-request", byBot |-> FALSE,
                     step |-> "add"]})
        /\ UNCHANGED <<issue, byUpdate>>
  /\ UNCHANGED <<pc, page, allIssues, authed, closed, overlaps>>

-----------------------------------------------------------------------------
\* The handlers.
Done(t)       == tasks' = tasks \ {t}
Goto(t, step) == tasks' = (tasks \ {t}) \cup {[t EXCEPT !.step = step]}

\* Mutant of StaleUnlabeler: without the comparison of the sender with the bot.
StaleUnlabeler_AnySender(t) ==
  /\ t.step = "sender"
  /\ \/ Goto(t, "lookup") /\ authed' = TRUE /\ UNCHANGED errors
     \/ ~authed /\ Fail /\ Goto(t, "lookup") /\ UNCHANGED authed
  /\ UNCHANGED <<issue, byUpdate, pc, page, allIssues, closed, acts, overlaps>>

\* A comment of the bot itself counts for nothing, if the server can tell.
StaleUnlabeler(t) ==
  /\ t.step = "sender"
  /\ \/ /\ IF t.byBot THEN Done(t) ELSE Goto(t, "lookup")
        /\ authed' = TRUE /\ UNCHANGED errors
     \/ ~authed /\ Fail /\ Goto(t, "lookup") /\ UNCHANGED authed
  /\ UNCHANGED <<issue, byUpdate, pc, page, allIssues, closed, acts, overlaps>>

IssueHasLabel(t) ==
  /\ t.step = "lookup"
  /\ \/ /\ IF t.label \in issue[t.issue].labels THEN Goto(t, "remove") ELSE Done(t)
        /\ UNCHANGED errors
     \/ Fail /\ Done(t)
  /\ UNCHANGED <<issue, byUpdate, pc, page, allIssues, authed, closed, acts, overlaps>>

RemoveLabelIfExists(t) ==
  /\ t.step = "remove" /\ Done(t)
  /\ \/ RemoveLabel(t.issue, t.label) /\ UNCHANGED errors
     \/ Fail /\ UNCHANGED <<issue, byUpdate>>
  /\ UNCHANGED <<pc, page, allIssues, authed, closed, acts, overlaps>>

IssueHasPullRequestLabeler(t) ==
  /\ t.step = "add" /\ Done(t)
  /\ \/ AddLabel(t.issue, t.label) /\ UNCHANGED errors
     \/ Fail /\ UNCHANGED <<issue, byUpdate>>
  /\ UNCHANGED <<pc, page, allIssues, authed, closed, acts, overlaps>>

Handler == \E t \in tasks : \/ StaleUnlabeler(t) \/ IssueHasLabel(t)
                            \/ RemoveLabelIfExists(t) \/ IssueHasPullRequestLabeler(t)

-----------------------------------------------------------------------------
\* The command.
StartSweep(s) ==
  /\ pc[s] = "idle" /\ pc' = [pc EXCEPT ![s] = "list"]
  /\ IF \A r \in Sweeps : pc[r] = "idle" THEN UNCHANGED overlaps
     ELSE overlaps < MaxOverlaps /\ overlaps' = overlaps + 1
  /\ UNCHANGED <<issue, byUpdate, page, allIssues, tasks, authed, closed, acts, errors>>

\* One call of ListByRepo.
ListPage(s) ==
  LET first == (page[s] - 1) * PerPage + 1
      last  == IF page[s] * PerPage < Len(byUpdate) THEN page[s] * PerPage ELSE Len(byUpdate)
      nums  == SubSeq(byUpdate, first, last)
  IN  /\ pc[s] = "list"
      /\ allIssues' = [allIssues EXCEPT ![s] =
           @ \o [k \in DOMAIN nums |-> [num |-> nums[k], at |-> issue[nums[k]]]]]
      /\ IF last < Len(byUpdate)
           THEN page' = [page EXCEPT ![s] = @ + 1] /\ UNCHANGED pc
           ELSE pc' = [pc EXCEPT ![s] = "act"] /\ page' = [page EXCEPT ![s] = 1]
      /\ UNCHANGED <<issue, byUpdate, tasks, authed, closed, acts, errors, overlaps>>

isUpdatedWithinDuration(entry) == entry.at.age <= DormantDuration

\* Mutant of IsStale: an update exactly DormantDuration ago no longer counts.
IsStale_AtOnce(entry) ==
  /\ entry.num \notin Pulls
  /\ entry.at.age >= DormantDuration
  /\ entry.at.labels \cap ExemptLabels = {}

IsStale(entry) ==
  /\ entry.num \notin Pulls
  /\ ~isUpdatedWithinDuration(entry)
  /\ entry.at.labels \cap ExemptLabels = {}

\* Mutant of hasStaleLabel: only the configured labels.
hasStaleLabel_Configured(entry) == "pending-feedback" \in entry.at.labels

hasStaleLabel(entry) == entry.at.labels \cap StaleLabels # {}

Entry(s)     == Head(allIssues[s])
NextIssue(s) == allIssues' = [allIssues EXCEPT ![s] = Tail(@)]

\* The list is done; an issue that is not stale is passed over.
PassOver(s) ==
  /\ pc[s] = "act"
  /\ \/ allIssues[s] = <<>> /\ pc' = [pc EXCEPT ![s] = "idle"] /\ UNCHANGED allIssues
     \/ /\ allIssues[s] # <<>> /\ ~IsStale(Entry(s))
        /\ NextIssue(s) /\ UNCHANGED pc
  /\ UNCHANGED <<issue, byUpdate, page, tasks, authed, closed, acts, errors, overlaps>>

ToDo(s) == pc[s] = "act" /\ allIssues[s] # <<>> /\ IsStale(Entry(s))

\* A failure is counted, and the sweep goes on with the next issue.
closeIssue(s) ==
  /\ ToDo(s) /\ hasStaleLabel(Entry(s)) /\ NextIssue(s)
  /\ LET i == Entry(s).num
     IN  \/ /\ closed' = [closed EXCEPT ![i] = Entry(s).at]
            /\ IF issue[i].open THEN Update(i, [issue[i] EXCEPT !.open = FALSE])
               ELSE UNCHANGED <<issue, byUpdate>>
            /\ UNCHANGED errors
         \/ Fail /\ UNCHANGED <<issue, byUpdate, closed>>
  /\ UNCHANGED <<pc, page, tasks, authed, acts, overlaps>>

\* markIssue puts the label on first; without it there is no comment.
markIssue(s) ==
  /\ ToDo(s) /\ ~hasStaleLabel(Entry(s))
  /\ \/ /\ AddLabel(Entry(s).num, "stale")
        /\ pc' = [pc EXCEPT ![s] = "notify"]
        /\ UNCHANGED <<errors, allIssues>>
     \/ Fail /\ NextIssue(s) /\ UNCHANGED <<issue, byUpdate, pc>>
  /\ UNCHANGED <<page, tasks, authed, closed, acts, overlaps>>

CreateComment(s) ==
  /\ pc[s] = "notify" /\ pc' = [pc EXCEPT ![s] = "act"] /\ NextIssue(s)
  /\ LET i == Entry(s).num
     IN  \/ /\ Update(i, [issue[i] EXCEPT !.notices = IF @ = 0 THEN 1 ELSE 2])
            /\ Comment(i, FALSE, TRUE)
         \/ Fail /\ UNCHANGED <<issue, byUpdate, tasks>>
  /\ UNCHANGED <<page, authed, closed, acts, overlaps>>

\* A page cannot be listed, or the process is killed.
Abort(s) ==
  /\ pc[s] # "idle" /\ Fail
  /\ pc' = [pc EXCEPT ![s] = "idle"]
  /\ page' = [page EXCEPT ![s] = 1]
  /\ allIssues' = [allIssues EXCEPT ![s] = <<>>]
  /\ UNCHANGED <<issue, byUpdate, tasks, authed, closed, acts, overlaps>>

Sweep(s) == ListPage(s) \/ PassOver(s) \/ closeIssue(s) \/ markIssue(s) \/ CreateComment(s)

\* A month passes.
Tick ==
  LET Older(a) == IF a > DormantDuration THEN a ELSE a + 1
  IN  /\ tasks = {} /\ \A s \in Sweeps : pc[s] = "idle"
      /\ issue' = [i \in Issues |->
           [issue[i] EXCEPT !.age = Older(@), !.quiet = Older(@), !.marked = Older(@)]]
      /\ UNCHANGED <<byUpdate, pc, page, allIssues, tasks, authed, closed, acts, errors,
                     overlaps>>

Next == \/ \E i \in Issues : Act(i)
        \/ \E s \in Sweeps : StartSweep(s) \/ Sweep(s) \/ Abort(s)
        \/ Handler \/ Tick

Spec == Init /\ [][Next]_vars

\* The goroutines of the server and a running sweep go on, time passes, and somebody
\* runs the command again and again.
Fairness ==
  /\ WF_vars(Handler) /\ SF_vars(Tick)
  /\ \A s \in Sweeps : WF_vars(Sweep(s)) /\ WF_vars(StartSweep(s))

FairSpec == Spec /\ Fairness

-----------------------------------------------------------------------------
\* "if no further activity occurs" (mark_and_sweep_stale_issues.go:76): an issue that
\* a sweep closes was, when the sweep listed it, no pull request and not exempt, and
\* had carried a stale label for longer than DormantDuration without a comment; which
\* needs that the labels and comments of the bot itself update the issue, and that the
\* age is compared strictly (stale.go:102-118, 157-182).
GraceKept ==
  \A i \in Issues : closed[i] # None =>
    /\ i \notin Pulls /\ closed[i].labels \cap ExemptLabels = {}
    /\ closed[i].labels \cap StaleLabels # {}
    /\ closed[i].marked > DormantDuration /\ closed[i].quiet > DormantDuration

\* However often the command runs and whatever fails in it, an issue that stays
\* labelled is notified of it once, as long as sweeps do not overlap: the label comes
\* before the comment (stale.go:137-155).
NotifiedOnce == overlaps = 0 => \A i \in Issues : issue[i].notices <= 1

\* "Comment to leave on a stale issue if being marked" (stale.go:32): an issue that is
\* closed for being labelled stale has been notified.
ClosedAfterNotice ==
  \A i \in Issues :
    closed[i] # None /\ "stale" \in closed[i].labels => closed[i].notices > 0

\* In the end every issue nobody cares for is closed, although an update between two
\* pages hides an issue from a sweep, and although the notification is a comment that
\* calls the handler which takes the label off again (stale_unlabeler.go:19-21).
AbandonedAreClosed ==
  <>[](\A i \in Issues \ Pulls :
         issue[i].open => issue[i].labels \cap ExemptLabels # {})

\* The inductive invariant behind GraceKept: a comment and a stale label update the
\* issue, so that its age is the least of the three; and so it is in what was listed.
Bumped(at) == /\ at.age <= at.quiet
              /\ at.labels \cap StaleLabels # {} => at.age <= at.marked

IssuesBumped == \A i \in Issues : Bumped(issue[i])
ListedBumped == \A s \in Sweeps : \A k \in DOMAIN allIssues[s] : Bumped(allIssues[s][k].at)
Notifying    == \A s \in Sweeps : pc[s] = "notify" => allIssues[s] # <<>>

IInv == TypeOK /\ IssuesBumped /\ ListedBumped /\ Notifying /\ GraceKept

-----------------------------------------------------------------------------
(***************************************************************************)
(* The inductive invariant behind NotifiedOnce.  A sweep lists an issue    *)
(* that it will mark at most once, because what it has listed lies before  *)
(* the next page or has been updated since; and whoever labels that issue  *)
(* in the meantime starts its notices anew.                                *)
(***************************************************************************)
ToMark(entry) == IsStale(entry) /\ ~hasStaleLabel(entry)

IdleIsEmpty == \A s \in Sweeps : pc[s] = "idle" => allIssues[s] = <<>>
OpenOnce    == \A k \in DOMAIN byUpdate :
                 /\ issue[byUpdate[k]].open
                 /\ \A j \in DOMAIN byUpdate : byUpdate[j] = byUpdate[k] => j = k

OneByOne == \A r, s \in Sweeps : pc[r] # "idle" /\ pc[s] # "idle" => r = s

PassedBy(s, i) ==
  \/ issue[i].age <= DormantDuration
  \/ \A j \in DOMAIN byUpdate : byUpdate[j] = i => j <= (page[s] - 1) * PerPage

Listing == \A s \in Sweeps : pc[s] = "list" =>
             \A k \in DOMAIN allIssues[s] :
               ToMark(allIssues[s][k]) => PassedBy(s, allIssues[s][k].num)

MarkedOnce == \A s \in Sweeps : \A j, k \in DOMAIN allIssues[s] :
                /\ ToMark(allIssues[s][j]) /\ ToMark(allIssues[s][k])
                /\ allIssues[s][j].num = allIssues[s][k].num
                => j = k

LabelledAnew == \A s \in Sweeps : \A k \in DOMAIN allIssues[s] :
                  LET now == issue[allIssues[s][k].num]
                  IN  ToMark(allIssues[s][k]) /\ "stale" \in now.labels => now.notices = 0

Unnotified == \A s \in Sweeps : pc[s] = "notify" =>
                ToMark(Entry(s)) /\ issue[Entry(s).num].notices = 0

OnceInv ==
  /\ IdleIsEmpty /\ OpenOnce
  /\ overlaps = 0 => OneByOne /\ Listing /\ MarkedOnce /\ LabelledAnew /\ Unnotified /\ NotifiedOnce

SweepInv == IInv /\ OnceInv
=============================================================================
