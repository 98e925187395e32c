------------------------------- MODULE Deprecate -------------------------------
(***************************************************************************)
(* deprecate.DeprecateOldRepos: an issue that is opened in a repository    *)
(* that is no longer maintained gets a comment and is closed.  The event   *)
(* of an issue may be delivered again, while people reopen what the bot    *)
(* has closed.                                                             *)
(***************************************************************************)
EXTENDS Calls, FiniteSets

CONSTANTS
  NewIssues,       \* issues that people open
  DeprecatedRepos,
  RepoOf,          \* RepoOf[i]: the repository of issue i
  MaxReopened,     \* bound: issues that people reopen
  MaxDelivered     \* bound: deliveries of an issues event with the action opened

VARIABLES
  isOpen,      \* isOpen[i]
  told,        \* told[i]: comments of the bot on i
  reopened,
  delivered,   \* delivered[i]: deliveries of i's event so far
  deprecatePc, \* deprecatePc[i][n]: where the handler of the n-th one is
  closedBy     \* history: closedBy[i]: deliveries whose handler closed i

deprecateVars == <<isOpen, told, reopened, delivered, deprecatePc, closedBy>>

ASSUME DeprecateAssumption == MaxDelivered \in Nat

DeprecateInit ==
  /\ isOpen = [i \in NewIssues |-> FALSE]
  /\ told = [i \in NewIssues |-> 0]
  /\ reopened = 0
  /\ delivered = [i \in NewIssues |-> 0]
  /\ deprecatePc = [i \in NewIssues |-> [n \in 1..MaxDelivered |-> "none"]]
  /\ closedBy = [i \in NewIssues |-> {}]

\* The issue is opened, or its event is delivered again.
DeliverOpened(i) ==
  /\ delivered[i] < MaxDelivered
  /\ isOpen' = IF delivered[i] = 0 THEN [isOpen EXCEPT ![i] = TRUE] ELSE isOpen
  /\ delivered' = [delivered EXCEPT ![i] = @ + 1]
  /\ deprecatePc' = [deprecatePc EXCEPT ![i][delivered[i] + 1] = "opened"]
  /\ UNCHANGED <<told, reopened, closedBy, errors>>

Reopen(i) ==
  /\ delivered[i] > 0 /\ ~isOpen[i]
  /\ reopened < MaxReopened
  /\ reopened' = reopened + 1
  /\ isOpen' = [isOpen EXCEPT ![i] = TRUE]
  /\ UNCHANGED <<told, delivered, deprecatePc, closedBy, errors>>

GotoDeprecate(i, n, from, to) ==
  /\ deprecatePc[i][n] = from
  /\ deprecatePc' = [deprecatePc EXCEPT ![i][n] = to]

DeprecateOldRepos(i, n) ==
  /\ GotoDeprecate(i, n, "opened", IF RepoOf[i] \in DeprecatedRepos THEN "comment" ELSE "done")
  /\ UNCHANGED <<isOpen, told, reopened, delivered, closedBy, errors>>

\* Mutant of CommentOnIssue: an error of the comment is not returned.
CommentOnIssue_ErrorIgnored(i, n) ==
  /\ GotoDeprecate(i, n, "comment", "close")
  /\ \/ told' = [told EXCEPT ![i] = @ + 1] /\ UNCHANGED errors
     \/ Fail /\ UNCHANGED told
  /\ UNCHANGED <<isOpen, reopened, delivered, closedBy>>

\* Without an answer to the comment, the issue stays open.
CommentOnIssue(i, n) ==
  /\ \/ /\ told' = [told EXCEPT ![i] = @ + 1]
        /\ \/ GotoDeprecate(i, n, "comment", "close") /\ UNCHANGED errors
           \/ GotoDeprecate(i, n, "comment", "done") /\ Fail
     \/ GotoDeprecate(i, n, "comment", "done") /\ Fail /\ UNCHANGED told
  /\ UNCHANGED <<isOpen, reopened, delivered, closedBy>>

CloseDeprecated(i, n) ==
  /\ GotoDeprecate(i, n, "close", "done")
  /\ \/ /\ isOpen' = [isOpen EXCEPT ![i] = FALSE]
        /\ closedBy' = [closedBy EXCEPT ![i] = @ \cup {n}]
        /\ Applied
     \/ Fail /\ UNCHANGED <<isOpen, closedBy>>
  /\ UNCHANGED <<told, reopened, delivered>>

DeprecateNext ==
  \E i \in NewIssues :
    \/ DeliverOpened(i) \/ Reopen(i)
    \/ \E n \in 1..MaxDelivered :
         DeprecateOldRepos(i, n) \/ CommentOnIssue(i, n) \/ CloseDeprecated(i, n)

DeprecateSpec == DeprecateInit /\ [][DeprecateNext]_deprecateVars

(***************************************************************************)
(* The inductive invariant: a handler that is about to close the issue has *)
(* commented too.                                                          *)
(***************************************************************************)
DeprecateTypeOK ==
  /\ isOpen \in [NewIssues -> BOOLEAN]
  /\ told \in [NewIssues -> Nat]
  /\ delivered \in [NewIssues -> 0..MaxDelivered]
  /\ deprecatePc \in [NewIssues -> [1..MaxDelivered -> {"none", "opened", "comment", "close", "done"}]]
  /\ closedBy \in [NewIssues -> SUBSET (1..MaxDelivered)]

\* The deliveries whose handler has closed the issue or is about to.
Closing(i) == closedBy[i] \cup {n \in 1..MaxDelivered : deprecatePc[i][n] = "close"}

ClosingAreTold ==
  \A i \in NewIssues :
    /\ told[i] >= Cardinality(Closing(i))
    /\ \A n \in 1..MaxDelivered :
         n \in closedBy[i] \/ deprecatePc[i][n] \in {"comment", "close"} => RepoOf[i] \in DeprecatedRepos

\* Each time the bot closes an issue it has told why, with a comment of its own for
\* that delivery, and only in a deprecated repository (deprecate.go:27-57).
ClosedWereTold ==
  \A i \in NewIssues :
    closedBy[i] # {} => RepoOf[i] \in DeprecatedRepos /\ told[i] >= Cardinality(closedBy[i])

DeprecateInv == DeprecateTypeOK /\ ClosingAreTold /\ ClosedWereTold
=============================================================================
