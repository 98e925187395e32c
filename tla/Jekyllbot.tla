------------------------------- MODULE Jekyllbot -------------------------------
(***************************************************************************)
(* The parts of the bot that share nothing but GitHub: the commands that   *)
(* cron starts and the handlers that keep no state of their own.  The      *)
(* active parts of a behaviour run together, step by step in any order,    *)
(* and the others rest in their initial states: the theorems are for any   *)
(* choice of them, all parts at once included, and an instance for TLC     *)
(* says which (Exercised).                                                 *)
(***************************************************************************)
EXTENDS FailingFmtBuild, Nudge, OutdatedDependencies, Freeze, UnifyLabels,
        Releases, Labeler, Dispatch, Deprecate, AutoPull

CONSTANT Exercised \* the sets of parts of which a behaviour exercises one

Parts == {"fmt", "nudge", "dependencies", "freeze", "unify", "releases",
          "labeler", "dispatch", "deprecate", "autopull"}

ASSUME JekyllbotAssumption == Exercised \subseteq SUBSET Parts

VARIABLE active \* the parts that this behaviour exercises

jekyllbotVars ==
  <<active, errors, issueVars, fmtVars, nudgeVars, depVars, freezeVars, unifyVars,
    releaseVars, labelerVars, dispatchVars, deprecateVars, autoPullVars>>

\* Where an initial state leaves a choice, a part that rests has one of them.
Resting ==
  /\ IF "unify" \in active THEN TRUE ELSE labelsOf = [r \in 1..Len(UnifyRepos) |-> NoLabels]
  /\ IF "dispatch" \in active THEN TRUE
     ELSE EventOf = [d \in Deliveries |-> CHOOSE e \in Events : e.type \notin DOMAIN EventHandlers]
  /\ IF "labeler" \in active THEN TRUE ELSE clean = TRUE

JekyllbotInit ==
  /\ active \in Exercised
  /\ Resting
  /\ CallsInit /\ IssuesInit /\ FmtInit /\ NudgeInit /\ DepInit /\ FreezeInit /\ UnifyInit
  /\ ReleasesInit /\ LabelerInit /\ DispatchInit /\ DeprecateInit /\ AutoPullInit

(***************************************************************************)
(* A step of a part, while the others rest                                 *)
(***************************************************************************)
small == <<releaseVars, labelerVars, deprecateVars, autoPullVars>>
handlers == <<small, dispatchVars>>
commands == <<freezeVars, unifyVars>>

FmtPart(Step) ==
  "fmt" \in active /\ Step /\ UNCHANGED <<active, nudgeVars, depVars, commands, handlers>>
NudgePart(Step) ==
  "nudge" \in active /\ Step /\ UNCHANGED <<active, fmtVars, depVars, commands, handlers>>
DepPart(Step) ==
  "dependencies" \in active /\ Step /\ UNCHANGED <<active, fmtVars, nudgeVars, commands, handlers>>

jobs == <<issueVars, fmtVars, nudgeVars, depVars>>

FreezePart(Step) ==
  "freeze" \in active /\ Step /\ UNCHANGED <<active, jobs, unifyVars, handlers>>
UnifyPart(Step) ==
  "unify" \in active /\ Step /\ UNCHANGED <<active, jobs, freezeVars, handlers>>
DispatchPart(Step) ==
  "dispatch" \in active /\ Step /\ UNCHANGED <<active, jobs, commands, small>>

\* The others have no fairness of their own.
SmallPart ==
  /\ UNCHANGED <<active, jobs, commands, dispatchVars>>
  /\ \/ /\ "releases" \in active /\ ReleasesNext
        /\ UNCHANGED <<labelerVars, deprecateVars, autoPullVars>>
     \/ /\ "labeler" \in active /\ LabelerNext
        /\ UNCHANGED <<releaseVars, deprecateVars, autoPullVars>>
     \/ /\ "deprecate" \in active /\ DeprecateNext
        /\ UNCHANGED <<releaseVars, labelerVars, autoPullVars>>
     \/ /\ "autopull" \in active /\ AutoPullNext
        /\ UNCHANGED <<releaseVars, labelerVars, deprecateVars>>

JekyllbotNext ==
  \/ FmtPart(FmtNext \/ (Issues /\ UNCHANGED fmtVars))
  \/ NudgePart(NudgeNext \/ (Issues /\ UNCHANGED nudgeVars))
  \/ DepPart(DepNext \/ (Issues /\ UNCHANGED depVars))
  \/ FreezePart(FreezeNext)
  \/ UnifyPart(UnifyStep)
  \/ DispatchPart(DispatchNext)
  \/ SmallPart

(***************************************************************************)
(* Cron starts the commands again and again, and their steps, those of the *)
(* handlers that the server has fired, and the search index go on.  Time   *)
(* goes on between the runs of the freezer, of which there is always one   *)
(* in progress only if they overlap (SF).                                  *)
(***************************************************************************)
IndexStep ==
  LET index == \E s \in Subjects : IndexIssues(s)
  IN NudgePart(index /\ UNCHANGED nudgeVars) \/ DepPart(index /\ UNCHANGED depVars)

JekyllbotFairness ==
  /\ WF_jekyllbotVars(NudgePart(NudgeStep))
  /\ \A c \in Checkers : WF_jekyllbotVars(DepPart(Check(c)))
  /\ WF_jekyllbotVars(IndexStep)
  /\ \A f \in Freezers : WF_jekyllbotVars(FreezePart(FreezeRun(f)))
  /\ WF_jekyllbotVars(FreezePart(FreezeIndex)) /\ SF_jekyllbotVars(FreezePart(Year))
  /\ WF_jekyllbotVars(UnifyPart(UnifyRun))
  /\ WF_jekyllbotVars(DispatchPart(DispatchStep))

\* The type invariants of the parts and their inductive invariants.
FilingInv == IssuesTypeOK /\ OneOpenIssue /\ FmtInv /\ NudgeReady /\ DepReady

JekyllbotInv ==
  /\ active \in Exercised /\ errors \in 0..MaxErrors
  /\ FilingInv /\ NudgeInv /\ DepInv /\ FreezeInv /\ UnifyInv
  /\ ReleasesInv /\ LabelerInv /\ DispatchInv /\ DeprecateInv /\ AutoPullInv

JekyllbotSpec == JekyllbotInit /\ [][JekyllbotNext]_jekyllbotVars /\ JekyllbotFairness
=============================================================================
