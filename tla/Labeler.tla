-------------------------------- MODULE Labeler --------------------------------
(***************************************************************************)
(* labeler/pending_rebase.go: when the head of a pull request is pushed    *)
(* to, it loses the labels pending-rebase and needs-work if GitHub calls   *)
(* it mergeable.  GitHub finds out in a job of its own, which a push to    *)
(* the head or to the base starts again; the handler waits two seconds and *)
(* asks once.  (The labeler of has-pull-request is in StaleIssues.)        *)
(***************************************************************************)
EXTENDS Calls

CONSTANTS
  MaxPushes,     \* bound: pushes to the head
  MaxBasePushes, \* bound: pushes to the base
  MaxLabelled    \* bound: labels put on by maintainers

VARIABLES
  pushes, basePushes,
  clean,      \* whether head and base merge without conflict
  mergeable,  \* PullRequest.Mergeable: "nil", "true" or "false"
  prLabels,   \* of the pull request
  labelled,   \* labels put on by maintainers so far
  wasClean,   \* history: pushes after which the head merged cleanly at some time
  removedBy,  \* history: pushes whose handler removed a label
  rebasePc    \* rebasePc[e]: the handler of the synchronize event of push e

labelerEnv == <<pushes, basePushes, clean, mergeable, labelled, wasClean>>
labelerVars == <<labelerEnv, prLabels, removedBy, rebasePc>>

RebaseLabels == {"pending-rebase", "needs-work"}

ASSUME LabelerAssumption == MaxPushes \in Nat

Pushes == 1..MaxPushes

LabelerInit ==
  /\ pushes = 0 /\ basePushes = 0 /\ labelled = 0
  /\ clean \in BOOLEAN
  /\ mergeable = "nil"
  /\ prLabels = {} /\ removedBy = {}
  /\ wasClean = IF clean THEN {0} ELSE {}
  /\ rebasePc = [e \in Pushes |-> "none"]

(***************************************************************************)
(* The pull request on GitHub                                              *)
(***************************************************************************)
\* A push to either branch decides anew whether they merge.
Settle(push) ==
  /\ clean' \in BOOLEAN
  /\ wasClean' = IF clean' THEN wasClean \cup {push} ELSE wasClean

PushHead ==
  /\ pushes < MaxPushes
  /\ pushes' = pushes + 1
  /\ Settle(pushes + 1)
  /\ mergeable' = "nil"
  /\ rebasePc' = [rebasePc EXCEPT ![pushes + 1] = "sleep"]
  /\ UNCHANGED <<basePushes, labelled, prLabels>>

\* GitHub may go on to give the answer about the old base.
PushBase ==
  /\ basePushes < MaxBasePushes
  /\ basePushes' = basePushes + 1
  /\ Settle(pushes)
  /\ mergeable' \in {"nil", mergeable}
  /\ UNCHANGED <<pushes, labelled, prLabels, rebasePc>>

ComputeMergeable ==
  /\ mergeable' = IF clean THEN "true" ELSE "false"
  /\ mergeable' # mergeable
  /\ UNCHANGED <<pushes, basePushes, clean, wasClean, labelled, prLabels, rebasePc>>

PutLabel ==
  /\ labelled < MaxLabelled
  /\ labelled' = labelled + 1
  /\ \E label \in RebaseLabels : prLabels' = prLabels \cup {label}
  /\ UNCHANGED <<pushes, basePushes, clean, mergeable, wasClean, rebasePc>>

PullRequest ==
  /\ PushHead \/ PushBase \/ ComputeMergeable \/ PutLabel
  /\ UNCHANGED <<removedBy, errors>>

(***************************************************************************)
(* PendingRebaseNeedsWorkPRUnlabeler                                       *)
(***************************************************************************)
GotoRebase(e, from, to) == rebasePc[e] = from /\ rebasePc' = [rebasePc EXCEPT ![e] = to]

\* Mutant of IsMergeable: an answer that is not there yet counts as yes.
IsMergeable_Unknown == mergeable # "false"

IsMergeable == mergeable = "true"

GetMergeable(e) ==
  /\ \/ GotoRebase(e, "sleep", IF IsMergeable THEN "pending-rebase" ELSE "done") /\ UNCHANGED errors
     \/ GotoRebase(e, "sleep", "done") /\ Fail
  /\ UNCHANGED <<labelerEnv, prLabels, removedBy>>

Removal(label) == IF label = "pending-rebase" THEN "remove-pending" ELSE "remove-needs"
AfterLabel(label) == IF label = "pending-rebase" THEN "needs-work" ELSE "done"

\* RemoveLabelIfExists: the labels are listed, and a list that fails has none.
FindLabel(e, label) ==
  /\ \/ GotoRebase(e, label, IF label \in prLabels THEN Removal(label) ELSE AfterLabel(label))
        /\ UNCHANGED errors
     \/ GotoRebase(e, label, AfterLabel(label)) /\ Fail
  /\ UNCHANGED <<labelerEnv, prLabels, removedBy>>

RemoveLabel(e, label) ==
  /\ GotoRebase(e, Removal(label), AfterLabel(label))
  /\ \/ /\ prLabels' = prLabels \ {label}
        /\ removedBy' = removedBy \cup {e}
        /\ Applied
     \/ Fail /\ UNCHANGED <<prLabels, removedBy>>
  /\ UNCHANGED labelerEnv

PendingRebaseUnlabeler(e) ==
  \/ GetMergeable(e)
  \/ \E label \in RebaseLabels : FindLabel(e, label) \/ RemoveLabel(e, label)

LabelerNext ==
  \/ PullRequest
  \/ \E e \in Pushes : PendingRebaseUnlabeler(e)

LabelerSpec == LabelerInit /\ [][LabelerNext]_labelerVars

(***************************************************************************)
(* The inductive invariant: what GitHub answers is about the last push, or *)
(* about an earlier base of it.                                            *)
(***************************************************************************)
LabelerTypeOK ==
  /\ pushes \in 0..MaxPushes
  /\ clean \in BOOLEAN
  /\ mergeable \in {"nil", "true", "false"}
  /\ prLabels \subseteq RebaseLabels
  /\ wasClean \subseteq 0..MaxPushes
  /\ removedBy \subseteq Pushes
  /\ rebasePc \in [Pushes -> {"none", "sleep", "done", "remove-pending", "remove-needs"} \cup RebaseLabels]

AnswerIsAboutHead == clean \/ mergeable = "true" => pushes \in wasClean

MergedSince(e) == \E push \in wasClean : push >= e

WorkIsJustified ==
  \A e \in Pushes :
    /\ rebasePc[e] # "none" => e <= pushes
    /\ rebasePc[e] \notin {"none", "sleep", "done"} => MergedSince(e)

\* The handler of a push removes a label only when the head, that of the push or
\* of a later one, merged cleanly at some time since: never on an answer that is
\* missing or that is about an earlier push (pending_rebase.go:27-36, 64-70).
UnlabelledMerged ==
  \A e \in removedBy : \E push \in wasClean : push >= e

LabelerInv == LabelerTypeOK /\ AnswerIsAboutHead /\ WorkIsJustified /\ UnlabelledMerged
=============================================================================
