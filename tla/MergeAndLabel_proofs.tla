------------------------- MODULE MergeAndLabel_proofs -------------------------
(***************************************************************************)
(* Proofs about MergeAndLabel: its inductive invariant, at most one line   *)
(* per pull request in History.markdown, that no committed line is lost,   *)
(* that the line and the labels agree, and which branches are deleted, for *)
(* any number of deliveries, pull requests, branches and restarts.         *)
(***************************************************************************)
EXTENDS MergeAndLabel, TLAPS

-----------------------------------------------------------------------------
\* The lookups of the category table answer with a section and with labels of
\* the table, whatever the word (merge_and_label.go:265-293).

LEMMA CategoriesDomain == DOMAIN categories = 1..8
BY DEF categories

\* A nonempty set of rows has a first one.
LEMMA FirstInHits ==
  ASSUME NEW hits \in SUBSET (1..8), hits # {}
  PROVE  First(hits) \in hits
<1>1. \E i \in hits : \A j \in hits : i <= j
  <2>1. CASE 1 \in hits
    BY <2>1
  <2>2. CASE hits \cap 1..1 = {} /\ 2 \in hits
    BY <2>2
  <2>3. CASE hits \cap 1..2 = {} /\ 3 \in hits
    BY <2>3
  <2>4. CASE hits \cap 1..3 = {} /\ 4 \in hits
    BY <2>4
  <2>5. CASE hits \cap 1..4 = {} /\ 5 \in hits
    BY <2>5
  <2>6. CASE hits \cap 1..5 = {} /\ 6 \in hits
    BY <2>6
  <2>7. CASE hits \cap 1..6 = {} /\ 7 \in hits
    BY <2>7
  <2>8. CASE hits \cap 1..7 = {} /\ 8 \in hits
    BY <2>8
  <2>9. PICK k \in hits : TRUE
    OBVIOUS
  <2>10. k \in {1, 2, 3, 4, 5, 6, 7, 8}
    BY <2>9
  <2>11. 1..1 = {1} /\ 1..2 = {1, 2} /\ 1..3 = {1, 2, 3} /\ 1..4 = {1, 2, 3, 4}
    OBVIOUS
  <2>12. 1..5 = {1, 2, 3, 4, 5} /\ 1..6 = {1, 2, 3, 4, 5, 6}
         /\ 1..7 = {1, 2, 3, 4, 5, 6, 7}
    OBVIOUS
  <2>13. QED
    BY <2>1, <2>2, <2>3, <2>4, <2>5, <2>6, <2>7, <2>8, <2>10, <2>11, <2>12
<1>2. QED BY <1>1 DEF First

\* A slug normalised from a word is one that can be looked up.
LEMMA NormalizeType ==
  ASSUME NEW word \in Words
  PROVE  normalizeLabel[word] \in Slugs
<1> DEFINE hits == { i \in DOMAIN categories :
                       <<word, categories[i].prefix>> \in StartsWith }
<1>1. hits # {} => First(hits) \in DOMAIN categories
  BY FirstInHits, CategoriesDomain
<1>2. QED BY <1>1 DEF normalizeLabel, Slugs

LEMMA SectionType ==
  ASSUME NEW slug \in Slugs
  PROVE  sectionForLabel[slug] \in Sections
<1> DEFINE hits == { i \in DOMAIN categories : slug = categories[i].slug }
<1>1. hits # {} => First(hits) \in DOMAIN categories
  BY FirstInHits, CategoriesDomain
<1>2. QED BY <1>1 DEF sectionForLabel, Sections

LEMMA LabelsType ==
  ASSUME NEW section \in Sections
  PROVE  labelsForSubsection[section] \in SUBSET CategoryLabels
<1> DEFINE hits == { i \in DOMAIN categories : section = categories[i].section }
<1>1. hits # {} => First(hits) \in DOMAIN categories
  BY FirstInHits, CategoriesDomain
<1>2. QED BY <1>1 DEF labelsForSubsection, CategoryLabels

\* Hence a merge request always gets labels of the table (or none).
LEMMA RequestLabelsType ==
  ASSUME NEW r \in Requests
  PROVE  labelsForSubsection[Section(r)] \in SUBSET CategoryLabels
<1>1. Event[r].word \in Words \cup {NoWord}
  BY ConstantsAssumption DEF EventType
<1>2. Section(r) \in Sections
  BY <1>1, NormalizeType, SectionType DEF Section, ChangeSection, Sections
<1>3. QED BY <1>2, LabelsType

-----------------------------------------------------------------------------
\* The invariant holds initially and every action preserves it.

LEMMA PullType == ASSUME NEW r \in Requests PROVE Pull(r) \in Pulls
BY ConstantsAssumption DEF Pull, EventType

LEMMA InitIInv == Init => IInv
<1> SUFFICES ASSUME Init PROVE IInv
  OBVIOUS
<1>1. TypeOK
  BY ConstantsAssumption DEF Init, TypeOK, Files, Lines
<1>2. MergerMerged /\ PastMerge /\ BlobEntries /\ BlobMatches
  BY DEF Init, MergerMerged, PastMerge, BlobEntries, BlobMatches, Contents
<1>3. FileEntries
  BY ConstantsAssumption DEF Init, FileEntries, Entries
<1>4. QED BY <1>1, <1>2, <1>3 DEF IInv

\* An action that touches none of the state the last four conjuncts speak of,
\* but for a pc that stays short of Merge or leaves the handler.
LEMMA QuietStep ==
  ASSUME IInv, TypeOK', UNCHANGED <<blob, pulls, history, mergedFor>>,
         \A r \in Requests : pc'[r] \in {"get", "tasks"} => pc[r] \in {"get", "tasks"}
  PROVE  IInv'
BY DEF IInv, MergerMerged, PastMerge, BlobEntries, FileEntries, BlobMatches,
       Merger, Entries, Pull

LEMMA ReceiveIInv ==
  ASSUME IInv, NEW r \in Requests, Receive(r) PROVE IInv'
<1>1. TypeOK'
  BY DEF IInv, TypeOK, Receive, Goto, github
<1>2. QED
  BY <1>1, QuietStep DEF IInv, TypeOK, Receive, Goto, github

LEMMA CheckAccessIInv ==
  ASSUME IInv, NEW r \in Requests, CheckAccess(r) PROVE IInv'
<1>1. TypeOK'
  BY DEF IInv, TypeOK, CheckAccess, Goto, github
<1>2. QED
  BY <1>1, QuietStep DEF IInv, TypeOK, CheckAccess, Goto, github

LEMMA GetPullIInv ==
  ASSUME IInv, NEW r \in Requests, GetPull(r) PROVE IInv'
<1>1. TypeOK'
  BY DEF IInv, TypeOK, GetPull, Goto, github, Steps
<1>2. QED
  BY <1>1, QuietStep DEF IInv, TypeOK, GetPull, Goto, github

LEMMA AddLabelsIInv ==
  ASSUME IInv, NEW r \in Requests, AddLabels(r) PROVE IInv'
<1>1. TypeOK'
  <2>1. labels' \in [Pulls -> SUBSET CategoryLabels]
    BY PullType, RequestLabelsType DEF IInv, TypeOK, AddLabels
  <2>2. QED BY <2>1 DEF IInv, TypeOK, AddLabels, Finish
<1>2. QED
  BY <1>1, QuietStep DEF IInv, TypeOK, AddLabels, Finish

LEMMA ReturnIInv ==
  ASSUME IInv, NEW r \in Requests, Return(r) PROVE IInv'
<1>1. TypeOK'
  BY DEF IInv, TypeOK, Return, Goto, github
<1>2. QED
  BY <1>1, QuietStep DEF IInv, TypeOK, Return, Goto, github

LEMMA CrashIInv ==
  ASSUME IInv, Crash PROVE IInv'
<1>1. TypeOK'
  BY DEF IInv, TypeOK, Crash, github
<1>2. QED
  BY <1>1, QuietStep DEF IInv, TypeOK, Crash, github

\* Merging: the pull request was open, so no delivery had merged it.
LEMMA MergeIInv ==
  ASSUME IInv, NEW r \in Requests, Merge(r) PROVE IInv'
<1>1. TypeOK'
  <2>1. pc' \in [Requests -> {"idle", "auth", "merge", "get", "tasks",
                              "returned", "failed", "lost"}]
    BY DEF IInv, TypeOK, Merge, Goto
  <2>2. pulls' \in [Pulls -> {"open", "merged", "closed"}]
    BY DEF IInv, TypeOK, Merge
  <2>3. mergedFor' \in [Pulls -> Requests \cup {NoOne}]
    BY DEF IInv, TypeOK, Merge
  <2>4. QED BY <2>1, <2>2, <2>3 DEF IInv, TypeOK, Merge
<1>2. \A s \in Requests : Merger(s) => Merger(s)'
  BY PullType, ConstantsAssumption
  DEF IInv, TypeOK, MergerMerged, Merge, Merger
<1>3. MergerMerged'
  BY PullType DEF IInv, TypeOK, MergerMerged, Merge, Pull
<1>4. PastMerge'
  <2> SUFFICES ASSUME NEW s \in Requests, pc'[s] \in {"get", "tasks"}
               PROVE  Merger(s)'
    BY DEF PastMerge
  <2>1. CASE pc[s] \in {"get", "tasks"}
    BY <2>1, <1>2 DEF IInv, PastMerge
  <2>2. CASE pc[s] \notin {"get", "tasks"}
    BY <2>2, PullType DEF IInv, TypeOK, Merge, Goto, Merger, Pull
  <2>3. QED BY <2>1, <2>2
<1>5. BlobEntries' /\ FileEntries' /\ BlobMatches'
  BY <1>2 DEF IInv, Merge, BlobEntries, FileEntries, BlobMatches, Entries
<1>6. QED BY <1>1, <1>3, <1>4, <1>5 DEF IInv

\* No step of GitHub or of a maintainer takes a merge back.
LEMMA DeleteBranchIInv ==
  ASSUME IInv, NEW r \in Requests, DeleteBranch(r) PROVE IInv'
<1>1. TypeOK'
  BY DEF IInv, TypeOK, DeleteBranch, Finish
<1>2. MergerMerged'
  BY DEF IInv, TypeOK, MergerMerged, DeleteBranch, Pull
<1>3. PastMerge' /\ BlobEntries' /\ FileEntries' /\ BlobMatches'
  BY DEF IInv, DeleteBranch, Finish, PastMerge, BlobEntries, FileEntries, BlobMatches,
         Merger, Entries, Pull
<1>4. QED BY <1>1, <1>2, <1>3 DEF IInv

LEMMA MergeByHandIInv ==
  ASSUME IInv, NEW p \in Pulls, MergeByHand(p) PROVE IInv'
<1>1. TypeOK'
  BY DEF IInv, TypeOK, MergeByHand
<1>2. MergerMerged'
  BY DEF IInv, TypeOK, MergerMerged, MergeByHand, Pull
<1>3. PastMerge' /\ BlobEntries' /\ FileEntries' /\ BlobMatches'
  BY DEF IInv, MergeByHand, PastMerge, BlobEntries, FileEntries, BlobMatches,
         Merger, Entries, Pull
<1>4. QED BY <1>1, <1>2, <1>3 DEF IInv

\* Reading takes over entries of the file, or lines of maintainers.
LEMMA ReadHistoryIInv ==
  ASSUME IInv, NEW r \in Requests, ReadHistory(r) PROVE IInv'
<1>1. PICK file \in {history, NoFile, StaleCopy} :
        blob' = [blob EXCEPT ![r] = [content |-> Contents(file), sha |-> file]]
  BY DEF ReadHistory
<1>2. file \in Files /\ Contents(file) \in SUBSET Lines
  BY <1>1, ConstantsAssumption DEF IInv, TypeOK, Files, Lines, Contents
<1>3. TypeOK'
  BY <1>1, <1>2 DEF IInv, TypeOK, ReadHistory, Steps, github
<1>4. \A s \in Contents(file) \cap Requests : Merger(s)
  BY <1>1, ConstantsAssumption
  DEF IInv, FileEntries, Entries, Contents
<1>5. BlobEntries' /\ BlobMatches'
  BY <1>1, <1>4
  DEF IInv, TypeOK, ReadHistory, github, BlobEntries, BlobMatches, Merger, Pull
<1>6. MergerMerged' /\ PastMerge' /\ FileEntries'
  BY DEF IInv, ReadHistory, github, MergerMerged, PastMerge, FileEntries,
         Merger, Entries, Pull
<1>7. QED BY <1>3, <1>5, <1>6 DEF IInv

\* Writing puts back what was read, with the writer's own line.
LEMMA CommitHistoryIInv ==
  ASSUME IInv, NEW r \in Requests, CommitHistory(r) PROVE IInv'
<1>1. Merger(r)
  BY DEF IInv, PastMerge, CommitHistory, Finish
<1>2. blob[r].content \in SUBSET Lines
  BY DEF IInv, TypeOK
<1>3. history' = history \/ history' = addMergeReference(blob[r].content, r)
  BY DEF CommitHistory
<1>4. TypeOK'
  <2>1. history' \in Files
    BY <1>2, <1>3 DEF IInv, TypeOK, addMergeReference, Files, Lines
  <2>2. QED BY <2>1 DEF IInv, TypeOK, CommitHistory, Finish
<1>5. FileEntries'
  <2>1. CASE history' = history
    BY <2>1 DEF IInv, CommitHistory, FileEntries, Entries, Merger, Pull
  <2>2. CASE history' = addMergeReference(blob[r].content, r)
    BY <2>2, <1>1
    DEF IInv, CommitHistory, BlobEntries, FileEntries, Entries,
        addMergeReference, Merger, Pull
  <2>3. QED BY <1>3, <2>1, <2>2
<1>6. MergerMerged' /\ PastMerge' /\ BlobEntries' /\ BlobMatches'
  BY DEF IInv, CommitHistory, MergerMerged, PastMerge, BlobEntries, BlobMatches,
         Merger, Pull
<1>7. QED BY <1>4, <1>5, <1>6 DEF IInv

\* A maintainer writes lines of his own.
LEMMA EditHistoryByHandIInv ==
  ASSUME IInv, NEW l \in HandLines, EditHistoryByHand(l) PROVE IInv'
<1>1. TypeOK'
  BY DEF IInv, TypeOK, EditHistoryByHand, Files, Lines
<1>2. FileEntries'
  BY ConstantsAssumption
  DEF IInv, TypeOK, EditHistoryByHand, FileEntries, Entries, Merger, Pull
<1>3. MergerMerged' /\ PastMerge' /\ BlobEntries' /\ BlobMatches'
  BY DEF IInv, EditHistoryByHand, MergerMerged, PastMerge, BlobEntries, BlobMatches,
         Merger, Pull
<1>4. QED BY <1>1, <1>2, <1>3 DEF IInv

LEMMA NextIInv == IInv /\ [Next]_vars => IInv'
<1> SUFFICES ASSUME IInv, [Next]_vars PROVE IInv'
  OBVIOUS
<1>1. ASSUME NEW r \in Requests, Receive(r) PROVE IInv'
  BY <1>1, ReceiveIInv
<1>2. ASSUME NEW r \in Requests, Handler(r) PROVE IInv'
  BY <1>2, CheckAccessIInv, MergeIInv, GetPullIInv, DeleteBranchIInv,
     AddLabelsIInv, ReadHistoryIInv, CommitHistoryIInv, ReturnIInv DEF Handler
<1>3. ASSUME NEW p \in Pulls, MergeByHand(p) PROVE IInv'
  BY <1>3, MergeByHandIInv
<1>4. ASSUME NEW l \in HandLines, EditHistoryByHand(l) PROVE IInv'
  BY <1>4, EditHistoryByHandIInv
<1>5. CASE Crash
  BY <1>5, CrashIInv
<1>6. CASE UNCHANGED vars
  BY <1>6 DEF vars, IInv, TypeOK, MergerMerged, PastMerge, BlobEntries,
              FileEntries, BlobMatches, Merger, Entries, Pull
<1>7. QED
  BY <1>1, <1>2, <1>3, <1>4, <1>5, <1>6 DEF Next

\* The handler let through by Merge is the only one whose line can be in
\* History.markdown, at every moment.
THEOREM Invariance == Spec => []IInv
<1>1. QED BY InitIInv, NextIInv, PTL DEF Spec

\* At most one line per pull request, and only for merged ones.
THEOREM OneEntry == Spec => []AtMostOneEntry
<1>1. IInv => AtMostOneEntry
  BY PullType, ConstantsAssumption
  DEF IInv, FileEntries, Entries, MergerMerged, Merger, AtMostOneEntry
<1>2. QED BY Invariance, <1>1, PTL
-----------------------------------------------------------------------------
\* What a commit of the bot does to a file that can be read: it stays as it is,
\* or it gets the line of the one delivery that merged the pull request.
LEMMA CommitEffect ==
  ASSUME IInv, NEW r \in Requests, CommitHistory(r), history \notin Oversized
  PROVE  \/ history' = history
         \/ /\ Merger(r)
            /\ history = NoFile => history' = {r}
            /\ history # NoFile => history' = history \cup {r}
<1>1. Merger(r)
  BY DEF IInv, PastMerge, CommitHistory, Finish
<1>2. blob[r].sha = history => blob[r].content = Contents(history)
  BY DEF IInv, BlobMatches
<1>3. QED
  BY <1>1, <1>2 DEF CommitHistory, addMergeReference, Contents

\* No handler drops a committed line of a file that can be read, however stale
\* its copy of the file is when it writes.
THEOREM LinesKept == Spec => NoCommittedLineLost
<1> DEFINE Kept == history \notin Oversized \cup {NoFile} =>
                     history' # NoFile /\ history \subseteq history'
<1>1. ASSUME IInv, IInv', [Next]_vars PROVE [Kept]_vars
  <2> SUFFICES ASSUME history \notin Oversized \cup {NoFile}, Next
               PROVE  history' # NoFile /\ history \subseteq history'
    BY <1>1
  <2>1. history \in SUBSET Lines /\ NoFile \notin SUBSET Lines
    BY <1>1, ConstantsAssumption DEF IInv, TypeOK, Files
  <2>2. ASSUME NEW r \in Requests, CommitHistory(r)
        PROVE  history' = history \/ history' = history \cup {r}
    BY <1>1, <2>2, CommitEffect
  <2>3. ASSUME NEW l \in HandLines, EditHistoryByHand(l)
        PROVE  history' = history \cup {l}
    BY <2>3 DEF EditHistoryByHand
  <2>4. ASSUME NEW r \in Requests, Receive(r) \/ (Handler(r) /\ ~CommitHistory(r))
        PROVE  history' = history
    BY <2>4 DEF Receive, Handler, CheckAccess, Merge, GetPull, DeleteBranch,
                AddLabels, ReadHistory, Return, github
  <2>5. ASSUME Crash \/ \E p \in Pulls : MergeByHand(p)
        PROVE  history' = history
    BY <2>5 DEF Crash, MergeByHand, github
  <2>6. \/ history' = history
        \/ \E l \in Lines : history' = history \cup {l}
    BY <2>2, <2>3, <2>4, <2>5 DEF Next, Handler, Lines
  <2>7. QED BY <2>1, <2>6
<1>2. QED BY Invariance, <1>1, PTL DEF Spec, NoCommittedLineLost
-----------------------------------------------------------------------------
\* MergeAndLabel implements MergeLog when no file with an entry is unreadable.

MergedPulls == {p \in Pulls : pulls[p] = "merged"}

LEMMA LogInit == Init => Log!Init
BY ConstantsAssumption DEF Init, Log!Init, Entries

LEMMA LogStep ==
  ASSUME EntriesReadable, IInv, IInv', [Next]_vars
  PROVE  [Log!Next]_<<MergedPulls, Entries(history)>>
<1> DEFINE Stutter == UNCHANGED <<MergedPulls, Entries(history)>>
<1>1. ASSUME NEW p \in Pulls, pulls[p] = "open", UNCHANGED history,
             pulls' = [pulls EXCEPT ![p] = "merged"]
      PROVE  Log!MergePull(p)
  BY <1>1 DEF IInv, TypeOK, MergedPulls, Log!MergePull, Entries
<1>2. ASSUME NEW r \in Requests, Merge(r)
      PROVE  (\E p \in Pulls : Log!MergePull(p)) \/ Stutter
  BY <1>1, <1>2, PullType DEF Merge, MergedPulls, Entries
<1>3. ASSUME NEW p \in Pulls, MergeByHand(p) PROVE Log!MergePull(p)
  BY <1>1, <1>3 DEF MergeByHand
<1>4. ASSUME NEW r \in Requests, DeleteBranch(r) PROVE Stutter
  BY <1>4 DEF DeleteBranch, IInv, TypeOK, MergedPulls, Entries
<1>5. ASSUME NEW r \in Requests, CommitHistory(r)
      PROVE  Log!Record(r) \/ Stutter
  <2>1. UNCHANGED MergedPulls
    BY <1>5 DEF CommitHistory, MergedPulls
  <2>2. CASE Entries(history)' = Entries(history)
    BY <2>1, <2>2
  <2>3. CASE Entries(history)' # Entries(history)
    <3>1. /\ Merger(r)
          /\ Entries(history)' = Entries(history) \cup {r}
          /\ r \notin Entries(history)
      <4>1. history' # history
        BY <2>3 DEF Entries
      <4>2. CASE history \notin Oversized
        <5>1. /\ Merger(r)
              /\ history = NoFile => history' = {r}
              /\ history # NoFile => history' = history \cup {r}
          BY <1>5, <4>1, <4>2, CommitEffect
        <5>2. history' # NoFile
          BY <5>1, ConstantsAssumption DEF IInv, TypeOK, Files, Lines
        <5>3. Entries(history)' = Entries(history) \cup {r}
          BY <5>1, <5>2 DEF Entries
        <5>4. QED BY <5>1, <5>3, <2>3
      <4>3. CASE history \in Oversized
        <5>1. Entries(history) = {}
          BY <4>3 DEF EntriesReadable, Entries
        <5>2. Merger(r)
          BY <1>5 DEF IInv, PastMerge, CommitHistory, Finish
        <5>3. blob[r].sha = history /\ blob[r].content = {}
          BY <1>5, <4>1, <4>3 DEF IInv, BlobMatches, CommitHistory, Contents
        <5>4. history' = {r}
          BY <1>5, <5>3, <4>1 DEF CommitHistory, addMergeReference
        <5>5. {r} # NoFile
          BY ConstantsAssumption DEF Lines
        <5>6. QED BY <5>1, <5>2, <5>4, <5>5 DEF Entries
      <4>4. QED BY <4>2, <4>3
    <3>2. \A s \in Entries(history) : Pull(s) # Pull(r)
      BY <3>1 DEF IInv, FileEntries, Merger, Entries
    <3>3. pulls[Pull(r)] = "merged"
      BY <3>1, PullType, ConstantsAssumption DEF IInv, MergerMerged, Merger
    <3>4. QED
      BY <2>1, <3>1, <3>2, <3>3, PullType DEF Log!Record, MergedPulls, Entries
  <2>4. QED BY <2>2, <2>3
<1>6. ASSUME NEW l \in HandLines, EditHistoryByHand(l) PROVE Stutter
  <2>1. l \notin Requests /\ NoFile \notin SUBSET Lines
    BY ConstantsAssumption
  <2>2. history' \cap Requests = Entries(history)
    BY <1>6, <2>1 DEF EditHistoryByHand, Entries
  <2>3. history' \in SUBSET Lines
    BY <1>6 DEF EditHistoryByHand, IInv, TypeOK, Files, Lines
  <2>4. QED BY <1>6, <2>1, <2>2, <2>3 DEF EditHistoryByHand, MergedPulls, Entries
<1>7. ASSUME NEW r \in Requests,
             \/ Receive(r) \/ CheckAccess(r) \/ GetPull(r)
             \/ AddLabels(r) \/ ReadHistory(r) \/ Return(r)
      PROVE  Stutter
  BY <1>7 DEF Receive, CheckAccess, GetPull, AddLabels, ReadHistory, Return,
              github, MergedPulls, Entries
<1>8. CASE Crash \/ UNCHANGED vars
  BY <1>8 DEF Crash, github, vars, MergedPulls, Entries
<1>9. QED
  BY <1>2, <1>3, <1>4, <1>5, <1>6, <1>7, <1>8 DEF Next, Handler, Log!Next

\* A merged pull request is recorded at most once and for good.
THEOREM Refinement == ASSUME EntriesReadable PROVE Spec => ImplementsMergeLog
<1>1. Init => Log!Init
  BY LogInit
<1>2. IInv /\ IInv' /\ [Next]_vars => [Log!Next]_<<MergedPulls, Entries(history)>>
  BY LogStep
<1>3. QED
  BY <1>1, <1>2, Invariance, PTL
  DEF Spec, ImplementsMergeLog, Log!Spec, MergedPulls
-----------------------------------------------------------------------------
\* Branches: a handler deletes one when deletableRef let it, after its merge.
BranchTodo == \A r \in Requests : "branch" \in todo[r] => deletableRef(Pull(r))

LEMMA BranchTodoNext ==
  ASSUME IInv, BranchTodo, [Next]_vars
  PROVE  BranchTodo'
<1> SUFFICES ASSUME NEW s \in Requests, "branch" \in todo'[s], "branch" \notin todo[s]
             PROVE  deletableRef(Pull(s))
  BY DEF BranchTodo, Pull, deletableRef
<1>1. ASSUME NEW r \in Requests, Receive(r) \/ Handler(r)
      PROVE  GetPull(r) /\ r = s
  BY <1>1 DEF IInv, TypeOK, Receive, Handler, CheckAccess, Merge, GetPull, DeleteBranch, AddLabels,
              ReadHistory, CommitHistory, Return, Finish
<1>2. \E r \in Requests : Receive(r) \/ Handler(r)
  BY DEF Next, vars, MergeByHand, EditHistoryByHand, Crash
<1>3. QED BY <1>1, <1>2 DEF GetPull, IInv, TypeOK

\* A merge is for good, and a branch goes with a DeleteRef only.
LEMMA HeadsNext ==
  ASSUME IInv, BranchTodo, OnlyMergedHeadsDeleted, [Next]_vars
  PROVE  OnlyMergedHeadsDeleted'
<1>1. ASSUME NEW p \in Pulls, pulls[p] = "merged" PROVE pulls'[p] = "merged"
  BY <1>1 DEF IInv, TypeOK, Next, vars, Receive, Handler, CheckAccess, Merge, GetPull, DeleteBranch,
              AddLabels, ReadHistory, CommitHistory, Return, Crash, MergeByHand, EditHistoryByHand, github
<1>2. CASE branches' = branches
  BY <1>1, <1>2 DEF OnlyMergedHeadsDeleted
<1>3. ASSUME NEW r \in Requests, DeleteBranch(r), branches' # branches
      PROVE  OnlyMergedHeadsDeleted'
  <2>1. branches' = branches \ {HeadRef[Pull(r)]}
    BY <1>3 DEF DeleteBranch
  <2>2. deletableRef(Pull(r))
    BY <1>3 DEF BranchTodo, DeleteBranch, Finish
  <2>3. Pull(r) \in Pulls /\ pulls[Pull(r)] = "merged"
    BY <1>3, PullType, ConstantsAssumption
    DEF IInv, PastMerge, MergerMerged, Merger, DeleteBranch, Finish
  <2>4. QED BY <1>1, <2>1, <2>2, <2>3 DEF OnlyMergedHeadsDeleted, deletableRef
<1>4. branches' = branches \/ \E r \in Requests : DeleteBranch(r)
  BY DEF Next, vars, Receive, Handler, CheckAccess, Merge, GetPull, AddLabels,
         ReadHistory, CommitHistory, Return, Crash, MergeByHand, EditHistoryByHand, github
<1>5. QED BY <1>2, <1>3, <1>4

\* Only head branches of merged pull requests are deleted, and never master, main
\* or gh-pages, for any deliveries and restarts (merge_and_label.go:203-213).
THEOREM HeadsDeleted == Spec => []OnlyMergedHeadsDeleted
<1>1. Init => BranchTodo /\ OnlyMergedHeadsDeleted
  BY DEF Init, BranchTodo, OnlyMergedHeadsDeleted
<1>2. QED BY <1>1, BranchTodoNext, HeadsNext, Invariance, PTL DEF Spec

-----------------------------------------------------------------------------
\* Labels: those of the section that the delivery which merged has named.

\* No two rows have a slug in common, and rows with the same section (bug and fix)
\* have the same labels.
LEMMA RowsDiffer ==
  ASSUME NEW i \in 1..8, NEW j \in 1..8
  PROVE  /\ categories[i].slug = categories[j].slug => i = j
         /\ categories[i].section = categories[j].section =>
              categories[i].labels = categories[j].labels
         /\ categories[i].section # changeSectionLabelNone
<1>1. i \in {1, 2, 3, 4, 5, 6, 7, 8} /\ j \in {1, 2, 3, 4, 5, 6, 7, 8}
  OBVIOUS
<1>2. /\ categories[1].slug = "major-enhancements" /\ categories[2].slug = "minor-enhancements"
      /\ categories[3].slug = "bug-fixes" /\ categories[4].slug = "fix"
      /\ categories[5].slug = "development-fixes" /\ categories[6].slug = "documentation"
      /\ categories[7].slug = "forward-ports" /\ categories[8].slug = "site-enhancements"
  BY DEF categories, Category
<1>3. /\ categories[1].section = "Major Enhancements" /\ categories[2].section = "Minor Enhancements"
      /\ categories[3].section = "Bug Fixes" /\ categories[4].section = "Bug Fixes"
      /\ categories[5].section = "Development Fixes" /\ categories[6].section = "Documentation"
      /\ categories[7].section = "Forward Ports" /\ categories[8].section = "Site Enhancements"
  BY DEF categories, Category
<1>4. categories[3].labels = categories[4].labels
  BY DEF categories, Category
<1>5. categories[i].slug = categories[j].slug => i = j
  BY <1>1, <1>2
<1>6. categories[i].section = categories[j].section =>
        categories[i].labels = categories[j].labels
  BY <1>1, <1>3, <1>4
<1>7. categories[i].section # changeSectionLabelNone
  BY <1>1, <1>3 DEF changeSectionLabelNone
<1>8. QED BY <1>5, <1>6, <1>7

\* The three lookups amount to one category (merge_and_label.go:242-293).
LEMMA LookupsAgree ==
  ASSUME NEW word \in Words \cup {NoWord}
  PROVE  /\ ChangeSection(word) = ExpectedSection(word)
         /\ labelsForSubsection[ChangeSection(word)] = ExpectedLabels(word)
<1> DEFINE hits == { i \in DOMAIN categories : <<word, categories[i].prefix>> \in StartsWith }
           slugged(slug) == { i \in DOMAIN categories : slug = categories[i].slug }
           sectioned(section) == { i \in DOMAIN categories : section = categories[i].section }
<1> USE CategoriesDomain
<1>1. \A section \in Sections : sectioned(section) = {} => labelsForSubsection[section] = {}
  BY DEF labelsForSubsection
<1>2. CASE word = NoWord
  <2>1. ChangeSection(word) = changeSectionLabelNone /\ changeSectionLabelNone \in Sections
    BY <1>2 DEF ChangeSection, Sections
  <2>2. sectioned(changeSectionLabelNone) = {}
    BY RowsDiffer
  <2>3. QED BY <1>1, <1>2, <2>1, <2>2 DEF ExpectedSection, ExpectedLabels
<1>3. CASE word # NoWord
  <2> DEFINE slug == normalizeLabel[word]
  <2>1. word \in Words /\ Matching(word) = hits \cup slugged(word) /\ Matching(word) \in SUBSET (1..8)
    BY <1>3 DEF Matching
  <2>2. slug = IF hits = {} THEN word ELSE categories[First(hits)].slug
    BY <2>1 DEF normalizeLabel
  <2>3. slugged(slug) = Matching(word)
    <3>1. CASE hits = {}
      BY <2>1, <2>2, <3>1
    <3>2. CASE hits # {}
      <4>1. First(hits) \in hits /\ First(hits) \in 1..8
        BY <3>2, FirstInHits
      <4>2. slugged(slug) = {First(hits)}
        <5>1. slug = categories[First(hits)].slug
          BY <2>2, <3>2
        <5>2. \A i \in 1..8 : categories[First(hits)].slug = categories[i].slug => i = First(hits)
          BY <4>1, RowsDiffer
        <5>3. QED BY <4>1, <5>1, <5>2
      <4>3. hits \cup slugged(word) = {First(hits)}
        BY <2>1, <4>1, WordsAssumption
      <4>4. QED BY <2>1, <4>2, <4>3
    <3>3. QED BY <3>1, <3>2
  <2>4. slug \in Slugs
    BY <2>1, NormalizeType
  <2>5. ChangeSection(word) = sectionForLabel[slug]
    BY <1>3 DEF ChangeSection
  <2>6. CASE Matching(word) = {}
    <3>1. slug = word
      BY <2>1, <2>2, <2>6
    <3>2. sectionForLabel[slug] = word
      BY <2>3, <2>4, <2>6, <3>1 DEF sectionForLabel
    <3>3. word \in Sections /\ sectioned(word) = {}
      BY <2>1, WordsAssumption DEF Sections, Slugs
    <3>4. QED BY <1>1, <1>3, <2>5, <2>6, <3>2, <3>3 DEF ExpectedSection, ExpectedLabels
  <2>7. CASE Matching(word) # {}
    <3> DEFINE k == First(Matching(word))
               row == categories[k]
    <3>1. k \in 1..8
      BY <2>1, <2>7, FirstInHits
    <3>2. sectionForLabel[slug] = row.section
      BY <2>3, <2>4, <2>7 DEF sectionForLabel
    <3>3. row.section \in Sections
      BY <3>1 DEF Sections
    <3>4. First(sectioned(row.section)) \in sectioned(row.section) /\ sectioned(row.section) # {}
      BY <3>1, FirstInHits
    <3>5. labelsForSubsection[row.section] = categories[First(sectioned(row.section))].labels
      BY <3>3, <3>4 DEF labelsForSubsection
    <3>6. labelsForSubsection[row.section] = row.labels
      BY <3>1, <3>4, <3>5, RowsDiffer
    <3>7. QED BY <1>3, <2>5, <2>7, <3>2, <3>6 DEF ExpectedSection, ExpectedLabels
  <2>8. QED BY <2>6, <2>7
<1>4. QED BY <1>2, <1>3

LabelsOfMerger ==
  \A p \in Pulls :
    labels[p] # {} => /\ mergedFor[p] # NoOne
                      /\ labels[p] = labelsForSubsection[Section(mergedFor[p])]

LEMMA LabelsNext ==
  ASSUME IInv, LabelsOfMerger, [Next]_vars
  PROVE  LabelsOfMerger'
<1>1. CASE UNCHANGED <<labels, mergedFor>>
  BY <1>1 DEF LabelsOfMerger, Section
<1>2. ASSUME NEW r \in Requests, Merge(r), mergedFor' # mergedFor
      PROVE  LabelsOfMerger'
  <2>1. /\ pulls[Pull(r)] = "open" /\ labels' = labels
        /\ mergedFor' = [mergedFor EXCEPT ![Pull(r)] = r]
    BY <1>2 DEF Merge
  <2>2. labels[Pull(r)] = {}
    BY <2>1, PullType DEF IInv, MergerMerged, LabelsOfMerger
  <2>3. QED BY <2>1, <2>2 DEF IInv, TypeOK, LabelsOfMerger, Section
<1>3. ASSUME NEW r \in Requests, AddLabels(r), labels' # labels
      PROVE  LabelsOfMerger'
  <2>1. labels' = [labels EXCEPT ![Pull(r)] = @ \cup labelsForSubsection[Section(r)]]
        /\ mergedFor' = mergedFor
    BY <1>3 DEF AddLabels
  <2>2. mergedFor[Pull(r)] = r /\ r # NoOne
    BY <1>3, ConstantsAssumption DEF IInv, PastMerge, Merger, AddLabels, Finish
  <2>3. ASSUME NEW p \in Pulls, labels'[p] # {}
        PROVE  mergedFor[p] # NoOne /\ labels'[p] = labelsForSubsection[Section(mergedFor[p])]
    <3>1. CASE p = Pull(r)
      <4>1. labels[p] = {} \/ labels[p] = labelsForSubsection[Section(r)]
        BY <2>2, <3>1 DEF LabelsOfMerger
      <4>2. labels'[p] = labels[p] \cup labelsForSubsection[Section(r)]
        BY <2>1, <3>1 DEF IInv, TypeOK
      <4>3. QED BY <2>2, <3>1, <4>1, <4>2
    <3>2. CASE p # Pull(r)
      BY <2>1, <2>3, <3>2 DEF IInv, TypeOK, LabelsOfMerger
    <3>3. QED BY <3>1, <3>2
  <2>4. QED BY <2>1, <2>3 DEF LabelsOfMerger, Section
<1>4. UNCHANGED <<labels, mergedFor>>
      \/ \E r \in Requests : (Merge(r) /\ labels' = labels) \/ (AddLabels(r) /\ mergedFor' = mergedFor)
  BY DEF Next, vars, Receive, Handler, CheckAccess, Merge, GetPull, DeleteBranch, AddLabels,
         ReadHistory, CommitHistory, Return, Crash, MergeByHand, EditHistoryByHand, github
<1>5. QED BY <1>1, <1>2, <1>3, <1>4

\* The line and the labels of a pull request come from the same comment, for every
\* order of the two goroutines that apply them and whatever else is asked.
THEOREM LabelsAndEntries == Spec => []LabelsMatchEntry
<1>1. Init => LabelsOfMerger
  BY DEF Init, LabelsOfMerger
<1>2. IInv /\ LabelsOfMerger => LabelsMatchEntry
  <2> SUFFICES ASSUME IInv, LabelsOfMerger, NEW p \in Pulls, mergedFor[p] # NoOne
               PROVE  LET word == Event[mergedFor[p]].word
                      IN  /\ labels[p] \in {{}, ExpectedLabels(word)}
                          /\ \A r \in Entries(history) :
                               Pull(r) = p => Section(r) = ExpectedSection(word)
    BY DEF LabelsMatchEntry, LabelsOfMerger
  <2>1. mergedFor[p] \in Requests
    BY DEF IInv, TypeOK
  <2>2. Event[mergedFor[p]].word \in Words \cup {NoWord}
    BY <2>1, ConstantsAssumption DEF EventType
  <2>3. \A r \in Entries(history) : Pull(r) = p => mergedFor[p] = r
    BY DEF IInv, FileEntries, Merger
  <2>4. QED BY <2>2, <2>3, LookupsAgree DEF LabelsOfMerger, Section
<1>3. QED BY <1>1, <1>2, LabelsNext, Invariance, PTL DEF Spec
=============================================================================
