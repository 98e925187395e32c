-------------------------------- MODULE Freeze --------------------------------
(***************************************************************************)
(* cmd/freeze-ancient-issues with freeze/: list the closed issues of a     *)
(* repository that nobody has touched for a year and that do not have the  *)
(* label frozen-due-to-age, page by page, then lock each and put the label *)
(* on.  The first error ends a run.  Issues are numbers, in the order in   *)
(* which they were created, which is the order of the search's answer.     *)
(***************************************************************************)
EXTENDS Calls, Sequences, FiniteSets

CONSTANTS
  NumOld,     \* issues are 1..NumOld
  Freezers,   \* runs of the command that may go on at the same time
  FreezePage, \* issues on a page of the search
  MaxActs     \* bound: acts of people

VARIABLES
  closed, locked, frozen, \* issues that are closed, locked, labelled
  ancient,    \* issues that have not been updated for a year
  matching,   \* issues that the search returns: its index lags
  acts,
  wasAncient, \* history: issues that were closed and ancient at some time
  freed,      \* history: issues that people unlocked
  freezePc,
  freezePage, \* freezePage[f]: the page f asks for
  tooOld      \* tooOld[f]: the issues f has listed and not dealt with

freezeIssues == <<closed, locked, frozen, ancient, matching, acts, wasAncient, freed>>
freezeRuns == <<freezePc, freezePage, tooOld>>
freezeVars == <<freezeIssues, freezeRuns>>

ASSUME FreezeAssumption == NumOld \in Nat /\ FreezePage \in Nat \ {0}

OldIssues == 1..NumOld

FreezeInit ==
  /\ closed = {} /\ locked = {} /\ frozen = {}
  /\ ancient = {} /\ matching = {} /\ wasAncient = {} /\ freed = {}
  /\ acts = 0
  /\ freezePc = [f \in Freezers |-> "idle"]
  /\ freezePage = [f \in Freezers |-> 1]
  /\ tooOld = [f \in Freezers |-> <<>>]

NoneFreezing == \A f \in Freezers : freezePc[f] = "idle"

(***************************************************************************)
(* Time, people and the search index                                       *)
(***************************************************************************)
\* TooOld is fixed when a run starts; a run is short against a year.
Year ==
  /\ NoneFreezing
  /\ ancient # OldIssues
  /\ ancient' = OldIssues
  /\ wasAncient' = wasAncient \cup closed
  /\ UNCHANGED <<closed, locked, frozen, matching, acts, freed, freezeRuns, errors>>

Act(i) ==
  /\ acts < MaxActs
  /\ acts' = acts + 1
  /\ ancient' = ancient \ {i}
  /\ \/ closed' = closed \cup {i} /\ UNCHANGED <<locked, freed>>
     \/ closed' = closed \ {i} /\ UNCHANGED <<locked, freed>>
     \/ /\ i \in locked /\ locked' = locked \ {i} /\ freed' = freed \cup {i}
        /\ UNCHANGED closed
  /\ UNCHANGED <<frozen, matching, wasAncient, freezeRuns, errors>>

\* Mutant of Matches: issues that are locked are left out.
Matches_Unlocked(i) == i \in (closed \cap ancient) \ (frozen \cup locked)

\* "is:closed -label:frozen-due-to-age updated:<=TooOld"
Matches(i) == i \in (closed \cap ancient) \ frozen

Reindex(i) ==
  /\ (i \in matching) # Matches(i)
  /\ matching' = IF Matches(i) THEN matching \cup {i} ELSE matching \ {i}
  /\ UNCHANGED <<closed, locked, frozen, ancient, acts, wasAncient, freed, freezeRuns, errors>>

(***************************************************************************)
(* The command                                                             *)
(***************************************************************************)
GotoFreeze(f, from, to) == freezePc[f] = from /\ freezePc' = [freezePc EXCEPT ![f] = to]

StartFreeze(f) ==
  /\ GotoFreeze(f, "idle", "list")
  /\ freezePage' = [freezePage EXCEPT ![f] = 1]
  /\ tooOld' = [tooOld EXCEPT ![f] = <<>>]
  /\ UNCHANGED <<freezeIssues, errors>>

\* The issues on page p of the answer; the pages behind the last one are empty.
OnPage(p) ==
  LET before(i) == Cardinality({j \in matching : j < i})
  IN {i \in matching : before(i) \in (p - 1) * FreezePage..p * FreezePage - 1}

\* They come in their order.
Ascending(issues) ==
  {s \in [1..Cardinality(issues) -> issues] : \A a, b \in DOMAIN s : a < b => s[a] < s[b]}

AllTooOldIssues(f) ==
  /\ \/ /\ IF Cardinality(matching) > freezePage[f] * FreezePage
             THEN /\ GotoFreeze(f, "list", "list")
                  /\ freezePage' = [freezePage EXCEPT ![f] = @ + 1]
             ELSE GotoFreeze(f, "list", "lock") /\ UNCHANGED freezePage
        /\ \E page \in Ascending(OnPage(freezePage[f])) :
             tooOld' = [tooOld EXCEPT ![f] = @ \o page]
        /\ UNCHANGED errors
     \/ GotoFreeze(f, "list", "idle") /\ Fail /\ UNCHANGED <<freezePage, tooOld>>
  /\ UNCHANGED freezeIssues

\* A call of the bot may count as an update of the issue.
Touch(i) == ancient' \in {ancient, ancient \ {i}}

\* Mutant of LockIssue: the error of Lock is not looked at.
LockIssue_ErrorIgnored(f) ==
  /\ GotoFreeze(f, "lock", "label")
  /\ tooOld[f] # <<>>
  /\ \/ locked' = locked \cup {Head(tooOld[f])} /\ Touch(Head(tooOld[f])) /\ Applied
     \/ Fail /\ UNCHANGED <<locked, ancient>>
  /\ UNCHANGED <<closed, frozen, matching, acts, wasAncient, freed, freezePage, tooOld>>

\* The issue is not read again: it may have been reopened since the listing.
LockIssue(f) ==
  /\ tooOld[f] # <<>>
  /\ \/ /\ locked' = locked \cup {Head(tooOld[f])}
        /\ Touch(Head(tooOld[f]))
        /\ \/ GotoFreeze(f, "lock", "label") /\ UNCHANGED errors
           \/ GotoFreeze(f, "lock", "idle") /\ Fail
     \/ GotoFreeze(f, "lock", "idle") /\ Fail /\ UNCHANGED <<locked, ancient>>
  /\ UNCHANGED <<closed, frozen, matching, acts, wasAncient, freed, freezePage, tooOld>>

LabelIssue(f) ==
  /\ freezePc[f] = "label"
  /\ \/ /\ frozen' = frozen \cup {Head(tooOld[f])}
        /\ Touch(Head(tooOld[f]))
        /\ \/ GotoFreeze(f, "label", "lock") /\ UNCHANGED errors
           \/ GotoFreeze(f, "label", "idle") /\ Fail
     \/ GotoFreeze(f, "label", "idle") /\ Fail /\ UNCHANGED <<frozen, ancient>>
  /\ tooOld' = [tooOld EXCEPT ![f] = Tail(@)]
  /\ UNCHANGED <<closed, locked, matching, acts, wasAncient, freed, freezePage>>

AllFrozen(f) ==
  /\ GotoFreeze(f, "lock", "idle")
  /\ tooOld[f] = <<>>
  /\ UNCHANGED <<freezeIssues, freezePage, tooOld, errors>>

FreezeRun(f) ==
  \/ StartFreeze(f) \/ AllTooOldIssues(f) \/ LockIssue(f) \/ LabelIssue(f) \/ AllFrozen(f)

FreezeIndex == \E i \in OldIssues : Reindex(i)

FreezeNext ==
  \/ \E f \in Freezers : FreezeRun(f)
  \/ FreezeIndex
  \/ Year
  \/ \E i \in OldIssues : Act(i)

FreezeSpec == FreezeInit /\ [][FreezeNext]_freezeVars

(***************************************************************************)
(* The inductive invariant: the index and the lists hold issues that were  *)
(* closed and ancient, and an issue is labelled after it was locked.       *)
(***************************************************************************)
FreezeTypeOK ==
  /\ closed \in SUBSET OldIssues /\ locked \in SUBSET OldIssues /\ frozen \in SUBSET OldIssues
  /\ ancient \in SUBSET OldIssues /\ matching \in SUBSET OldIssues
  /\ wasAncient \in SUBSET OldIssues /\ freed \in SUBSET OldIssues
  /\ freezePc \in [Freezers -> {"idle", "list", "lock", "label"}]
  /\ freezePage \in [Freezers -> Nat]
  /\ tooOld \in [Freezers -> Seq(OldIssues)]

FoundWereAncient ==
  /\ closed \cap ancient \subseteq wasAncient
  /\ matching \subseteq wasAncient
  /\ \A f \in Freezers : \A k \in DOMAIN tooOld[f] : tooOld[f][k] \in wasAncient

LabelledAfterLock ==
  \A f \in Freezers :
    freezePc[f] = "label" => tooOld[f] # <<>> /\ Head(tooOld[f]) \in locked \cup freed

\* The bot locks an issue only when it was closed and untouched for a year at some
\* time, and labels it only when it locked it: an issue with the label is locked
\* unless somebody unlocked it (freeze.go:18, 50-57).
FrozenWereAncient ==
  /\ locked \subseteq wasAncient
  /\ frozen \subseteq locked \cup freed

FreezeInv == FreezeTypeOK /\ FoundWereAncient /\ LabelledAfterLock /\ FrozenWereAncient

\* An issue that stays closed gets locked and labelled, whatever failed before: a
\* run that stops between Lock and the label leaves the issue to be found again
\* (freeze.go:18, 50-57).  Runs do not overlap without end.
AncientAreFrozen ==
  []<>NoneFreezing => \A i \in OldIssues : <>[](i \in closed) => []<>(i \in frozen)
=============================================================================
