------------------------------ MODULE UnifyLabels ------------------------------
(***************************************************************************)
(* cmd/unify-labels: for one repository after the other, list the labels,  *)
(* and create, rename or recolour those that desiredLabels names.  The     *)
(* list is one page, and is not read again while the labels are changed.   *)
(* The first error ends the run, for the repositories that follow as well. *)
(***************************************************************************)
EXTENDS Calls, Sequences, FiniteSets

CONSTANTS
  UnifyRepos,  \* the repositories that are not archived, in order
  LabelNames,
  desiredLabels, \* in order
  allPossibleNames, \* allPossibleNames[d]: the names that d may have, in order
  LabelKey,    \* LabelKey[n]: names that differ in case only have one key
  LabelPage,   \* labels on a page
  StartLabels, \* StartLabels[r]: the labels that repository r may have at first
  MaxLabelEdits, \* bound: changes of labels by people
  NoLabel

VARIABLES
  labelsOf,  \* labelsOf[r][n]: "none" when r has no label n, or its colour
  labelEdits,
  unified,   \* history: repositories that a run went through, unchanged since
  unifyPc,
  unifyRepo, unifyNext, \* the repository and the desired label the run is at
  listed     \* the page of labels of that repository

unifyVars == <<labelsOf, labelEdits, unified, unifyPc, unifyRepo, unifyNext, listed>>

Colours == {"right", "wrong"}
NoLabels == [n \in LabelNames |-> "none"]
Names(labels) == {n \in LabelNames : labels[n] # "none"}

\* GitHub does not let two labels of a repository differ in case only.
Distinct(labels) ==
  \A m, n \in Names(labels) : LabelKey[m] = LabelKey[n] => m = n

PossibleNames(d) == {allPossibleNames[d][k] : k \in DOMAIN allPossibleNames[d]}

\* A desired name is one of its possible names, and no two desired labels
\* share one.
ASSUME UnifyAssumption ==
  /\ UnifyRepos # <<>> /\ Len(UnifyRepos) \in Nat
  /\ \A r \in 1..Len(UnifyRepos) : \A labels \in StartLabels[r] :
       labels \in [LabelNames -> Colours \cup {"none"}] /\ Distinct(labels)
  /\ desiredLabels \in Seq(LabelNames) /\ NoLabel \notin LabelNames
  /\ \A i \in DOMAIN desiredLabels :
       LET d == desiredLabels[i]
       IN /\ allPossibleNames[d] \in Seq(LabelNames) /\ d \in PossibleNames(d)
          /\ \A j \in DOMAIN desiredLabels \ {i} :
               PossibleNames(d) \cap PossibleNames(desiredLabels[j]) = {}

UnifyInit ==
  /\ labelsOf \in [1..Len(UnifyRepos) -> UNION {StartLabels[r] : r \in 1..Len(UnifyRepos)}]
  /\ \A r \in 1..Len(UnifyRepos) : labelsOf[r] \in StartLabels[r]
  /\ labelEdits = 0
  /\ unified = {}
  /\ unifyPc = "idle"
  /\ unifyRepo = 1 /\ unifyNext = 1
  /\ listed = NoLabels

\* People, and the bot's own AddLabelsToIssue, which creates what is missing.
EditLabels(r) ==
  /\ labelEdits < MaxLabelEdits
  /\ labelEdits' = labelEdits + 1
  /\ \E n \in LabelNames, c \in Colours \cup {"none"} :
       labelsOf' = [labelsOf EXCEPT ![r][n] = c]
  /\ Distinct(labelsOf'[r])
  /\ unified' = unified \ {r}
  /\ unifyPc' = IF unifyRepo = r /\ unifyPc = "labels" THEN "raced" ELSE unifyPc
  /\ UNCHANGED <<unifyRepo, unifyNext, listed, errors>>

\* "raced" is "labels" in a repository that others have changed since the listing.
InRepo == unifyPc \in {"labels", "raced"}

\* The repositories are listed; a list that fails ends the run.
StartUnify ==
  /\ unifyPc = "idle"
  /\ \/ unifyPc' = "list" /\ unifyRepo' = 1 /\ UNCHANGED errors
     \/ Fail /\ UNCHANGED <<unifyPc, unifyRepo>>
  /\ UNCHANGED <<labelsOf, labelEdits, unified, unifyNext, listed>>

EndUnify == unifyPc' = "idle"

\* One page: which labels it has, when there are more, is not said.
ListLabels ==
  LET labels == labelsOf[unifyRepo]
  IN /\ unifyPc = "list"
     /\ \/ /\ \E page \in SUBSET Names(labels) :
                /\ IF Cardinality(Names(labels)) <= LabelPage
                     THEN page = Names(labels)
                     ELSE Cardinality(page) = LabelPage
                /\ listed' = [n \in LabelNames |-> IF n \in page THEN labels[n] ELSE "none"]
           /\ unifyPc' = "labels"
           /\ unifyNext' = 1
           /\ UNCHANGED errors
        \/ EndUnify /\ Fail /\ UNCHANGED <<listed, unifyNext>>
     /\ UNCHANGED <<labelsOf, labelEdits, unified, unifyRepo>>

\* Mutant of findLabel: only the desired name is looked for.
findLabel_NameOnly(labels, d) == IF labels[d] # "none" THEN d ELSE NoLabel

\* The first of the possible names that there is a label for.
findLabel(labels, d) ==
  LET possible == allPossibleNames[d]
      there == {i \in DOMAIN possible : labels[possible[i]] # "none"}
  IN IF there = {} THEN NoLabel
     ELSE possible[CHOOSE i \in there : \A j \in there : i <= j]

\* Mutant of NeedsUpdate: a label of the right colour keeps its name.
NeedsUpdate_ColourOnly(labels, d) ==
  findLabel(labels, d) # NoLabel /\ labels[findLabel(labels, d)] # "right"

NeedsUpdate(labels, d) ==
  LET found == findLabel(labels, d)
  IN found # NoLabel /\ (found # d \/ labels[found] # "right")

\* What GitHub accepts: a new label whose name is not taken, and an edit of a label
\* that is there when its new name is not taken by another.
Accepts(r, found, d) ==
  LET others == Names(labelsOf[r]) \ {found}
  IN /\ found # NoLabel => found \in Names(labelsOf[r])
     /\ \A n \in others : LabelKey[n] # LabelKey[d]

\* CreateLabel or EditLabel.
SetLabel(r, found, d) ==
  labelsOf' = [labelsOf EXCEPT ![r] =
                 [n \in LabelNames |-> IF n = d THEN "right" ELSE IF n = found THEN "none" ELSE @[n]]]

NextLabel == unifyNext' = unifyNext + 1 /\ UNCHANGED unifyPc

\* One turn of the loop over desiredLabels.  A call that GitHub refuses, that
\* fails or whose answer is lost ends the run.
UnifyLabel ==
  /\ InRepo
  /\ unifyNext <= Len(desiredLabels)
  /\ LET d == desiredLabels[unifyNext]
         found == findLabel(listed, d)
         accepted == Accepts(unifyRepo, found, d)
     IN IF found = NoLabel \/ NeedsUpdate(listed, d)
          THEN \/ /\ accepted /\ SetLabel(unifyRepo, found, d)
                  /\ \/ NextLabel /\ UNCHANGED errors
                     \/ EndUnify /\ Fail /\ UNCHANGED unifyNext
               \/ ~accepted /\ EndUnify /\ UNCHANGED <<labelsOf, unifyNext, errors>>
               \/ EndUnify /\ Fail /\ UNCHANGED <<labelsOf, unifyNext>>
          ELSE NextLabel /\ UNCHANGED <<labelsOf, errors>>
  /\ UNCHANGED <<labelEdits, unified, unifyRepo, listed>>

RepoUnified ==
  /\ InRepo
  /\ unifyNext > Len(desiredLabels)
  /\ unified' = IF unifyPc = "labels" THEN unified \cup {unifyRepo} ELSE unified
  /\ IF unifyRepo = Len(UnifyRepos)
       THEN EndUnify /\ UNCHANGED unifyRepo
       ELSE unifyPc' = "list" /\ unifyRepo' = unifyRepo + 1
  /\ UNCHANGED <<labelsOf, labelEdits, unifyNext, listed, errors>>

UnifyRun == StartUnify \/ ListLabels \/ UnifyLabel \/ RepoUnified

UnifyStep == UnifyRun \/ \E r \in 1..Len(UnifyRepos) : EditLabels(r)

UnifySpec == UnifyInit /\ [][UnifyStep]_unifyVars

(***************************************************************************)
(* The inductive invariant: as long as nobody else changes the labels of   *)
(* the repository that the run is at, what the run has dealt with is as    *)
(* desired, and what it has yet to deal with is as listed.                 *)
(***************************************************************************)

UnifyTypeOK ==
  /\ labelsOf \in [1..Len(UnifyRepos) -> [LabelNames -> Colours \cup {"none"}]]
  /\ \A r \in 1..Len(UnifyRepos) : Distinct(labelsOf[r])
  /\ unified \subseteq 1..Len(UnifyRepos)
  /\ unifyPc \in {"idle", "list", "labels", "raced"}
  /\ unifyRepo \in 1..Len(UnifyRepos)
  /\ unifyNext \in 1..Len(desiredLabels) + 1
  /\ listed \in [LabelNames -> Colours \cup {"none"}]

AsDesired(r) ==
  \A i \in DOMAIN desiredLabels : labelsOf[r][desiredLabels[i]] = "right"

DealtWith ==
  unifyPc = "labels" =>
    \A i \in DOMAIN desiredLabels :
      IF i < unifyNext
        THEN labelsOf[unifyRepo][desiredLabels[i]] = "right"
        ELSE \A n \in PossibleNames(desiredLabels[i]) :
               listed[n] # "none" => labelsOf[unifyRepo][n] = listed[n]

\* When a run got through a repository without an error, and nobody else changed
\* its labels since they were listed, then every desired label is there with its
\* name and colour, although the run works from one page that it read before its
\* own changes (unify_labels.go:81-121).
UnifiedWhenDone == \A r \in unified : AsDesired(r)

UnifyInv == UnifyTypeOK /\ DealtWith /\ UnifiedWhenDone

\* A repository that the command can deal with: its labels fit on the page, and a
\* label that has a desired name in another case has one of the possible names,
\* and is the only one that does.
Tractable(r) ==
  LET names == Names(labelsOf[r])
  IN /\ Cardinality(names) <= LabelPage
     /\ \A i \in DOMAIN desiredLabels, n \in names :
          LET d == desiredLabels[i]
          IN LabelKey[n] = LabelKey[d] => n = d \/ PossibleNames(d) \cap names = {n}

\* Run again and again, the command unifies all repositories in the end, whatever
\* failed before: when it can deal with each of them, because the first it cannot
\* deal with ends every run (unify_labels.go:149-157).
LabelsGetUnified ==
  []<>(unifyPc = "list") /\ <>[](\A r \in 1..Len(UnifyRepos) : Tractable(r))
    => <>[](\A r \in 1..Len(UnifyRepos) : AsDesired(r))
=============================================================================
