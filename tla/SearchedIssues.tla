---------------------------- MODULE SearchedIssues ----------------------------
(***************************************************************************)
(* Issues that the bot files after a search (search/github.go): the nudge  *)
(* to release, the outdated dependency and the failing fmt build.  Each of *)
(* them asks GitHub's search for an open issue on its subject and creates  *)
(* one when none is found.  Two things stand between "none is found" and   *)
(* "there is none": the search index follows the issues with a delay, and  *)
(* another job may be between its search and its create.                   *)
(*                                                                         *)
(* FailingFmtBuild, Nudge and OutdatedDependencies extend this module.     *)
(***************************************************************************)
EXTENDS Calls

CONSTANTS
  Subjects, \* what issues are about: a tuple of a kind, a name and a version
  MaxCloses, \* bound: issues that people close
  MaxOpened \* bound: as many open issues on a subject, or more, are not told apart

VARIABLES
  opened,   \* opened[s]: open issues on subject s
  indexed,  \* indexed[s]: open issues on s in the search index
  closes,   \* issues closed by people
  unseen    \* history: subjects with an open issue that a search did not return,
            \* as the index was late or the search failed, or that two jobs dealt
            \* with at the same time

issueVars == <<opened, indexed, closes, unseen>>

IssuesInit ==
  /\ opened = [s \in Subjects |-> 0]
  /\ indexed = [s \in Subjects |-> 0]
  /\ closes = 0
  /\ unseen = {}

IssuesTypeOK ==
  /\ opened \in [Subjects -> Nat]
  /\ indexed \in [Subjects -> Nat]
  /\ closes \in Nat
  /\ unseen \subseteq Subjects

\* What GitHubIssues returns on s, when all its pages arrive.
SearchFinds(s) == indexed[s] > 0

\* A job goes on to create an issue on s.  That is not to be blamed on the job when
\* its search did not return an issue that is open, nor when there are others, the
\* jobs that are in between too.
GoesOn(s, returned, others) ==
  unseen' = IF (opened[s] > 0 /\ ~returned) \/ others # {} THEN unseen \cup {s} ELSE unseen

CreateIssue(s) ==
  opened' = [opened EXCEPT ![s] = IF @ < MaxOpened THEN @ + 1 ELSE @]

\* The index catches up.
IndexIssues(s) ==
  /\ indexed[s] # opened[s]
  /\ indexed' = [indexed EXCEPT ![s] = opened[s]]
  /\ UNCHANGED <<opened, closes, unseen, errors>>

CloseIssue(s) ==
  /\ opened[s] > 0
  /\ closes < MaxCloses
  /\ closes' = closes + 1
  /\ \/ opened' = [opened EXCEPT ![s] = @ - 1]
     \/ opened[s] = MaxOpened /\ UNCHANGED opened
  /\ UNCHANGED <<indexed, unseen, errors>>

Issues == \E s \in Subjects : IndexIssues(s) \/ CloseIssue(s)

\* There is at most one open issue of the bot on a subject, whatever was closed,
\* redelivered or answered late, unless a search did not return an issue that was
\* there (a late index; for two of the jobs, a search that failed), or two jobs
\* overlapped on the subject: what the search returns decides
\* (failing_fmt_build.go:89-107, nudge main.go:153-178, check main.go:39-48).
OneOpenIssue == \A s \in Subjects \ unseen : opened[s] <= 1
=============================================================================
