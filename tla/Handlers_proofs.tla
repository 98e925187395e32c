---------------------------- MODULE Handlers_proofs ----------------------------
(***************************************************************************)
(* Proofs about the handlers without a state of their own: releases and    *)
(* milestones, the labels of a pull request that is pushed to, the         *)
(* dispatch of deliveries, deprecated repositories and automatic pull      *)
(* requests.                                                               *)
(***************************************************************************)
EXTENDS Releases, Labeler, Dispatch, Deprecate, AutoPull, FiniteSetTheorems, TLAPS

-----------------------------------------------------------------------------
(***************************************************************************)
(* Releases                                                                *)
(***************************************************************************)
LEMMA ReleasesTags ==
  /\ FullTags \subseteq Tags /\ PreTags \subseteq Tags
  /\ "HEAD" \notin Tags /\ "none" \notin Tags
  /\ \A t \in Tags : t \in FullTags \/ t \in PreTags
  /\ \A t \in FullTags : t \notin PreTags
  /\ NoNotes \notin SUBSET ChangeLines
BY ReleasesAssumption DEF Tags

LEMMA ReleasesInitInv == ReleasesInit => ReleasesInv
BY ReleasesTags
DEF ReleasesInit, ReleasesInv, ReleasesTypeOK, NotesRead, ClosesOwn, NotesAreTheVersion,
    MilestonesFollowReleases, IsVersion, LinesOf

\* A version's section only grows: lines come to HEAD, and from there to a version.
LEMMA SectionsGrow ==
  ASSUME ReleasesTypeOK, NEW t \in Tags,
         \/ \E l \in ChangeLines : AddLine(l)
         \/ \E s \in FullTags : CutVersion(s)
  PROVE  LinesOf(t) \subseteq LinesOf(t)'
BY ReleasesTags DEF ReleasesTypeOK, LinesOf, AddLine, CutVersion

\* Steps that leave the notes alone, and steps that leave the milestones alone.
LEMMA NotesStay ==
  ASSUME ReleasesInv, UNCHANGED <<section, tagged, linesAtTag, tagPc, tagNotes, releases>>
  PROVE  NotesRead' /\ NotesAreTheVersion'
BY DEF ReleasesInv, NotesRead, NotesAreTheVersion, IsVersion, LinesOf

LEMMA MilestonesStay ==
  ASSUME ReleasesInv, UNCHANGED <<out, titles, releasePc, toClose>>
  PROVE  ClosesOwn' /\ MilestonesFollowReleases'
BY DEF ReleasesInv, ClosesOwn, MilestonesFollowReleases, kindOf, out, titles

LEMMA EditHistoryInv ==
  ASSUME ReleasesInv, EditHistory
  PROVE  ReleasesInv'
<1>1. UNCHANGED <<tagged, linesAtTag, out, titles, tagPc, tagNotes, releasePc, toClose>>
  BY DEF EditHistory, tags
<1>2. ReleasesTypeOK'
  BY <1>1, ReleasesTags DEF ReleasesInv, ReleasesTypeOK, EditHistory, AddLine, CutVersion, out, titles
<1>3. \A t \in Tags : LinesOf(t) \subseteq LinesOf(t)'
  BY SectionsGrow DEF ReleasesInv, EditHistory
<1>4. NotesRead' /\ NotesAreTheVersion'
  BY <1>1, <1>3, ReleasesTags DEF ReleasesInv, NotesRead, NotesAreTheVersion, IsVersion, out
<1>5. ClosesOwn' /\ MilestonesFollowReleases'
  BY <1>1, MilestonesStay
<1>6. QED BY <1>2, <1>4, <1>5 DEF ReleasesInv

\* A tag that is new, or whose event comes again.
LEMMA TagInv ==
  ASSUME ReleasesInv, NEW t \in Tags, UNCHANGED <<section, headings, releases, tagNotes>>,
         \/ t \notin tagged /\ Tag(t)
         \/ /\ tagPc[t] = "done" /\ tagPc' = [tagPc EXCEPT ![t] = "delivered"]
            /\ UNCHANGED <<tagged, linesAtTag>>
  PROVE  /\ NotesRead' /\ NotesAreTheVersion' /\ tagged' \subseteq Tags
         /\ linesAtTag' \in [Tags -> SUBSET ChangeLines]
         /\ tagPc' \in [Tags -> {"none", "delivered", "read", "done"}]
<1>1. \A s \in Tags : LinesOf(s)' = LinesOf(s) /\ LinesOf(s) \in SUBSET ChangeLines
  BY DEF LinesOf
<1>2. /\ tagPc' = [tagPc EXCEPT ![t] = "delivered"]
      /\ \/ /\ t \notin tagged /\ tagged' = tagged \cup {t}
            /\ linesAtTag' = [linesAtTag EXCEPT ![t] = LinesOf(t)]
         \/ tagPc[t] = "done" /\ tagged' = tagged /\ linesAtTag' = linesAtTag
  BY DEF Tag
<1>3. \A s \in Tags : linesAtTag'[s] = linesAtTag[s] \/ (s = t /\ t \notin tagged /\ linesAtTag'[s] = LinesOf(s))
  BY <1>2 DEF ReleasesInv, ReleasesTypeOK
<1>4. tagged \subseteq tagged' /\ t \in tagged'
  BY <1>2 DEF ReleasesInv, NotesRead
<1>5. \A s \in Tags : tagPc'[s] = tagPc[s] \/ (s = t /\ tagPc'[s] = "delivered")
  BY <1>2 DEF ReleasesInv, ReleasesTypeOK
<1>6. NotesRead'
  BY <1>1, <1>3, <1>4, <1>5 DEF ReleasesInv, NotesRead, IsVersion
<1>7. NotesAreTheVersion'
  BY <1>1, <1>3, ReleasesTags DEF ReleasesInv, NotesRead, NotesAreTheVersion
<1>8. linesAtTag' \in [Tags -> SUBSET ChangeLines]
  BY <1>1, <1>2 DEF ReleasesInv, ReleasesTypeOK
<1>9. tagged' \subseteq Tags /\ tagPc' \in [Tags -> {"none", "delivered", "read", "done"}]
  BY <1>2 DEF ReleasesInv, ReleasesTypeOK
<1>10. QED BY <1>6, <1>7, <1>8, <1>9

LEMMA TagEventsInv ==
  ASSUME ReleasesInv, NEW t \in Tags, PushTag(t) \/ RedeliverTag(t)
  PROVE  ReleasesInv'
<1>1. UNCHANGED <<section, headings, out, titles, tagNotes, releasePc, toClose>>
  BY DEF PushTag, RedeliverTag, DeliverAgain, file
<1>2. /\ NotesRead' /\ NotesAreTheVersion' /\ tagged' \subseteq Tags
      /\ linesAtTag' \in [Tags -> SUBSET ChangeLines]
      /\ tagPc' \in [Tags -> {"none", "delivered", "read", "done"}]
  BY <1>1, TagInv DEF PushTag, RedeliverTag, DeliverAgain, out
<1>3. ReleasesTypeOK'
  BY <1>1, <1>2 DEF ReleasesInv, ReleasesTypeOK, out, titles
<1>4. QED BY <1>1, <1>2, <1>3, MilestonesStay DEF ReleasesInv

\* A release comes out, of a tag that had none.
LEMMA PublishInv ==
  ASSUME ReleasesInv, NEW t \in Tags, NEW kind \in {"pre", "full"}, PublishRelease(t, kind),
         UNCHANGED <<titles, toClose>>,
         \/ releases' = releases
         \/ kind = kindOf(t) /\ releases' = [releases EXCEPT ![t] = tagNotes[t]]
  PROVE  /\ ClosesOwn' /\ MilestonesFollowReleases'
         /\ published' \in [Tags -> {"none", "pre", "full"}]
         /\ releasePc' \in [Tags -> {"none", "published", "close", "done", "failed"}]
<1>1. /\ published[t] = "none" /\ published' = [published EXCEPT ![t] = kind]
      /\ releasePc' = [releasePc EXCEPT ![t] = "published"]
  BY DEF PublishRelease
<1>2. releasePc[t] = "none" /\ releases[t] = NoNotes /\ t \notin shut /\ toClose[t] = {}
  BY <1>1, ReleasesTags DEF ReleasesInv, ReleasesTypeOK, ClosesOwn, MilestonesFollowReleases, kindOf
<1>3. \A s \in Tags \ {t} : published'[s] = published[s] /\ releasePc'[s] = releasePc[s] /\ releases'[s] = releases[s]
  BY <1>1 DEF ReleasesInv, ReleasesTypeOK
<1>4. /\ published'[t] = kind /\ releasePc'[t] = "published"
      /\ releases'[t] # NoNotes => kind = kindOf(t)
  BY <1>1, <1>2 DEF ReleasesInv, ReleasesTypeOK
<1>5. published' \in [Tags -> {"none", "pre", "full"}]
      /\ releasePc' \in [Tags -> {"none", "published", "close", "done", "failed"}]
  BY <1>1 DEF ReleasesInv, ReleasesTypeOK
<1>6. ClosesOwn'
  BY <1>2, <1>3, <1>4 DEF ReleasesInv, ClosesOwn, kindOf, titles
<1>7. MilestonesFollowReleases'
  BY <1>2, <1>3, <1>4 DEF ReleasesInv, MilestonesFollowReleases, titles
<1>8. QED BY <1>5, <1>6, <1>7

LEMMA PublishByHandInv ==
  ASSUME ReleasesInv, NEW t \in Tags, PublishByHand(t)
  PROVE  ReleasesInv'
<1>1. UNCHANGED <<section, headings, releases, titles, tagNotes, toClose>>
  BY DEF PublishByHand, file
<1>2. PICK kind \in {"pre", "full"} : PublishRelease(t, kind)
  BY DEF PublishByHand
<1>3. /\ ClosesOwn' /\ MilestonesFollowReleases'
      /\ published' \in [Tags -> {"none", "pre", "full"}]
      /\ releasePc' \in [Tags -> {"none", "published", "close", "done", "failed"}]
  BY <1>1, <1>2, PublishInv
<1>4. /\ NotesRead' /\ NotesAreTheVersion' /\ tagged' \subseteq Tags
      /\ linesAtTag' \in [Tags -> SUBSET ChangeLines]
      /\ tagPc' \in [Tags -> {"none", "delivered", "read", "done"}]
  <2>1. CASE UNCHANGED <<tagged, linesAtTag, tagPc>>
    BY <1>1, <2>1, NotesStay DEF ReleasesInv, ReleasesTypeOK
  <2>2. CASE t \notin tagged /\ Tag(t)
    BY <1>1, <2>2, TagInv
  <2>3. QED BY <2>1, <2>2 DEF PublishByHand
<1>5. ReleasesTypeOK'
  BY <1>1, <1>3, <1>4 DEF ReleasesInv, ReleasesTypeOK, titles
<1>6. QED BY <1>3, <1>4, <1>5 DEF ReleasesInv

LEMMA EditMilestoneInv ==
  ASSUME ReleasesInv, NEW t \in Tags, EditMilestoneByHand(t) \/ RedeliverRelease(t)
  PROVE  ReleasesInv'
<1>1. UNCHANGED <<section, headings, tagged, linesAtTag, published, releases, shut, tagPc, tagNotes, toClose>>
  BY DEF EditMilestoneByHand, RedeliverRelease, DeliverAgain, file, out, titles
<1>2. \/ releasePc' = releasePc /\ milestones' = milestones \ {t} /\ openedAgain' = openedAgain
      \/ releasePc' = releasePc /\ milestones' = milestones \cup {t} /\ openedAgain' = openedAgain \cup {t}
      \/ /\ releasePc[t] \in {"done", "failed"} /\ releasePc' = [releasePc EXCEPT ![t] = "published"]
         /\ milestones' = milestones /\ openedAgain' = openedAgain
  BY DEF EditMilestoneByHand, RedeliverRelease, DeliverAgain, titles
<1>3. ReleasesTypeOK'
  BY <1>1, <1>2 DEF ReleasesInv, ReleasesTypeOK
<1>4. ClosesOwn' /\ MilestonesFollowReleases'
  BY <1>1, <1>2 DEF ReleasesInv, ReleasesTypeOK, ClosesOwn, MilestonesFollowReleases, kindOf
<1>5. QED BY <1>1, <1>3, <1>4, NotesStay DEF ReleasesInv

LEMMA ReadHistoryInv ==
  ASSUME ReleasesInv, NEW t \in Tags, ReadHistory(t)
  PROVE  ReleasesInv'
<1>1. UNCHANGED <<section, headings, tagged, linesAtTag, out, titles, releasePc, toClose>>
  BY DEF ReadHistory, file, tags
<1>2. \A s \in Tags \cup {"HEAD"} : LinesOf(s)' = LinesOf(s) /\ LinesOf(s) \in SUBSET ChangeLines
  BY <1>1 DEF LinesOf
<1>3. desiredRef(t) \in Tags \cup {"HEAD"} /\ (t \in FullTags => desiredRef(t) = t)
  BY ReleasesTags DEF desiredRef
<1>4. \/ tagNotes' = tagNotes /\ tagPc' = [tagPc EXCEPT ![t] = "done"]
      \/ tagNotes' = [tagNotes EXCEPT ![t] = LinesOf(desiredRef(t))]
         /\ tagPc' = [tagPc EXCEPT ![t] = "read"]
  BY DEF ReadHistory, GotoTag
<1>5. tagPc[t] = "delivered"
  BY DEF ReadHistory, GotoTag
<1>6. ReleasesTypeOK'
  BY <1>1, <1>2, <1>3, <1>4 DEF ReleasesInv, ReleasesTypeOK, out, titles
<1>7. NotesRead'
  BY <1>1, <1>2, <1>3, <1>4, <1>5, ReleasesTags
  DEF ReleasesInv, ReleasesTypeOK, NotesRead, IsVersion, out
<1>8. NotesAreTheVersion'
  BY <1>1, <1>2, ReleasesTags DEF ReleasesInv, NotesAreTheVersion, out
<1>9. QED BY <1>1, <1>6, <1>7, <1>8, MilestonesStay DEF ReleasesInv

LEMMA CreateReleaseInv ==
  ASSUME ReleasesInv, NEW t \in Tags, CreateRelease(t)
  PROVE  ReleasesInv'
<1>1. UNCHANGED <<section, headings, tagged, linesAtTag, titles, toClose>>
  BY DEF CreateRelease, file, tags
<1>2. \A s \in Tags : LinesOf(s)' = LinesOf(s)
  BY <1>1 DEF LinesOf
<1>3. /\ tagPc[t] = "read" /\ tagPc' = [tagPc EXCEPT ![t] = "done"]
      /\ tagNotes' = [tagNotes EXCEPT ![t] = NoNotes]
  BY DEF CreateRelease, GotoTag
<1>4. \/ UNCHANGED <<out, releasePc>>
      \/ PublishRelease(t, kindOf(t)) /\ releases' = [releases EXCEPT ![t] = tagNotes[t]]
  BY DEF CreateRelease
<1>5. tagNotes[t] # NoNotes /\ t \in tagged /\ (t \in FullTags => IsVersion(tagNotes[t], t))
  BY <1>3 DEF ReleasesInv, NotesRead
<1>6. releases' = releases \/ releases' = [releases EXCEPT ![t] = tagNotes[t]]
  BY <1>4 DEF out
<1>7. /\ ClosesOwn' /\ MilestonesFollowReleases'
      /\ published' \in [Tags -> {"none", "pre", "full"}]
      /\ releasePc' \in [Tags -> {"none", "published", "close", "done", "failed"}]
  <2>1. CASE UNCHANGED <<out, releasePc>>
    BY <1>1, <2>1, MilestonesStay DEF ReleasesInv, ReleasesTypeOK, out
  <2>2. CASE PublishRelease(t, kindOf(t)) /\ releases' = [releases EXCEPT ![t] = tagNotes[t]]
    BY <1>1, <2>2, PublishInv DEF kindOf
  <2>3. QED BY <1>4, <2>1, <2>2
<1>8. ReleasesTypeOK'
  <2>1. releases' \in [Tags -> {NoNotes} \cup SUBSET ChangeLines]
    BY <1>6 DEF ReleasesInv, ReleasesTypeOK
  <2>2. /\ tagNotes' \in [Tags -> {NoNotes} \cup SUBSET ChangeLines]
        /\ tagPc' \in [Tags -> {"none", "delivered", "read", "done"}]
    BY <1>3 DEF ReleasesInv, ReleasesTypeOK
  <2>3. QED BY <1>1, <1>7, <2>1, <2>2 DEF ReleasesInv, ReleasesTypeOK, titles
<1>9. NotesRead'
  BY <1>1, <1>2, <1>3, <1>5, <1>6 DEF ReleasesInv, ReleasesTypeOK, NotesRead, IsVersion
<1>10. NotesAreTheVersion'
  BY <1>1, <1>2, <1>5, <1>6, ReleasesTags
  DEF ReleasesInv, ReleasesTypeOK, NotesAreTheVersion, IsVersion
<1>11. QED BY <1>7, <1>8, <1>9, <1>10 DEF ReleasesInv

LEMMA ListMilestonesInv ==
  ASSUME ReleasesInv, NEW t \in Tags, ListMilestones(t)
  PROVE  ReleasesInv'
<1>1. UNCHANGED <<section, headings, tagged, linesAtTag, published, releases, milestones, shut, tagPc, tagNotes>>
  BY DEF ListMilestones, file, tags, out
<1>2. \/ /\ published[t] # "full" /\ toClose' = toClose /\ openedAgain' = openedAgain
         /\ releasePc' = [releasePc EXCEPT ![t] = "done"]
      \/ /\ published[t] = "full" /\ openedAgain' = openedAgain \ {t}
         /\ toClose' = [toClose EXCEPT ![t] = milestones \cap {t}]
         /\ releasePc' = [releasePc EXCEPT ![t] = "close"]
      \/ /\ toClose' = toClose /\ openedAgain' = openedAgain
         /\ releasePc' = [releasePc EXCEPT ![t] = "failed"]
  BY DEF ListMilestones, GotoRelease, ClosesMilestone
<1>3. releasePc[t] = "published" /\ published[t] # "none" /\ toClose[t] = {}
  BY DEF ListMilestones, GotoRelease, ReleasesInv, ClosesOwn
<1>4. ReleasesTypeOK'
  BY <1>1, <1>2 DEF ReleasesInv, ReleasesTypeOK
<1>5. ClosesOwn'
  BY <1>1, <1>2, <1>3 DEF ReleasesInv, ReleasesTypeOK, ClosesOwn, kindOf
<1>6. MilestonesFollowReleases'
  BY <1>1, <1>2, <1>3 DEF ReleasesInv, ReleasesTypeOK, MilestonesFollowReleases
<1>7. QED BY <1>1, <1>4, <1>5, <1>6, NotesStay DEF ReleasesInv

LEMMA CloseMilestonesInv ==
  ASSUME ReleasesInv, NEW t \in Tags, CloseMilestones(t)
  PROVE  ReleasesInv'
<1>1. UNCHANGED <<section, headings, tagged, linesAtTag, published, releases, openedAgain, tagPc, tagNotes>>
  BY DEF CloseMilestones, file, tags, out
<1>2. /\ releasePc[t] = "close" /\ toClose' = [toClose EXCEPT ![t] = {}]
      /\ \/ /\ releasePc' = [releasePc EXCEPT ![t] = "done"]
            /\ milestones' = milestones \ toClose[t] /\ shut' = shut \cup toClose[t]
         \/ /\ releasePc' = [releasePc EXCEPT ![t] = "failed"]
            /\ \/ milestones' = milestones \ toClose[t] /\ shut' = shut \cup toClose[t]
               \/ milestones' = milestones /\ shut' = shut
  BY DEF CloseMilestones, GotoRelease
<1>3. /\ published[t] = "full" /\ toClose[t] \subseteq {t}
      /\ t \in milestones => t \in toClose[t] \cup openedAgain
  BY <1>2 DEF ReleasesInv, ClosesOwn
<1>4. t \in PreTags => releases[t] = NoNotes
  BY <1>3 DEF ReleasesInv, ClosesOwn, kindOf
<1>5. ReleasesTypeOK'
  BY <1>1, <1>2 DEF ReleasesInv, ReleasesTypeOK
<1>6. ClosesOwn'
  BY <1>1, <1>2, <1>3 DEF ReleasesInv, ReleasesTypeOK, ClosesOwn, kindOf
<1>7. MilestonesFollowReleases'
  BY <1>1, <1>2, <1>3, <1>4 DEF ReleasesInv, ReleasesTypeOK, MilestonesFollowReleases
<1>8. QED BY <1>1, <1>5, <1>6, <1>7, NotesStay DEF ReleasesInv

LEMMA ReleasesNextInv == ReleasesInv /\ [ReleasesNext]_releaseVars => ReleasesInv'
<1>1. ReleasesInv /\ ReleasesNext => ReleasesInv'
  BY EditHistoryInv, TagEventsInv, PublishByHandInv, EditMilestoneInv, ReadHistoryInv,
     CreateReleaseInv, ListMilestonesInv, CloseMilestonesInv
  DEF ReleasesNext, ReleaseEnvironment
<1>2. ReleasesInv /\ UNCHANGED releaseVars => ReleasesInv'
  <2>1. SUFFICES ASSUME ReleasesInv, UNCHANGED releaseVars PROVE ReleasesInv'
    OBVIOUS
  <2>2. UNCHANGED <<section, headings, tagged, linesAtTag, out, titles, tagPc, tagNotes, releasePc, toClose>>
    BY <2>1 DEF releaseVars, file, tags
  <2>3. ReleasesTypeOK'
    BY <2>1, <2>2 DEF ReleasesInv, ReleasesTypeOK, out, titles
  <2>4. QED BY <2>1, <2>2, <2>3, NotesStay, MilestonesStay DEF ReleasesInv, out
<1>3. QED BY <1>1, <1>2

\* Type correctness and what makes it inductive: the lines that a handler has read
\* for a version lie between those at its tag and those of now, and a milestone that
\* a handler has still to close is that of its release, which is a full one.
THEOREM ReleasesInvariance == ReleasesSpec => []ReleasesInv
BY ReleasesInitInv, ReleasesNextInv, PTL DEF ReleasesSpec

\* A full release has the lines that its version had when the tag was pushed, and none
\* of another version, for any lines, tags and redeliveries
\* (create_release_on_tag.go:29-49).
THEOREM ReleaseNotes == ReleasesSpec => []NotesAreTheVersion
<1>1. ReleasesInv => NotesAreTheVersion
  BY DEF ReleasesInv
<1>2. QED BY <1>1, ReleasesInvariance, PTL

\* The bot closes milestones of full releases only, also of those that people publish,
\* and after a release that it dealt with without an error the milestone is closed,
\* unless people opened it again since, for any number of tags, redeliveries and
\* acts of people (create_release_on_tag.go:27, 56, close_milestone_on_release.go:14-42).
THEOREM MilestonesClosed == ReleasesSpec => []MilestonesFollowReleases
<1>1. ReleasesInv => MilestonesFollowReleases
  BY DEF ReleasesInv
<1>2. QED BY <1>1, ReleasesInvariance, PTL

-----------------------------------------------------------------------------
(***************************************************************************)
(* The labels of a pull request that is pushed to                          *)
(***************************************************************************)
LEMMA LabelerInitInv == LabelerInit => LabelerInv
BY LabelerAssumption
DEF LabelerInit, LabelerInv, LabelerTypeOK, AnswerIsAboutHead, WorkIsJustified, UnlabelledMerged,
    Pushes, RebaseLabels

\* A push that merged cleanly counts for the handlers of all earlier ones.
LEMMA HeadCounts ==
  ASSUME LabelerInv, NEW e \in Pushes, rebasePc[e] # "none", clean \/ mergeable = "true"
  PROVE  MergedSince(e)
<1>1. e \in Nat /\ pushes \in Nat /\ e <= pushes /\ pushes \in wasClean
  BY LabelerAssumption DEF LabelerInv, LabelerTypeOK, WorkIsJustified, AnswerIsAboutHead, Pushes
<1>2. QED BY <1>1 DEF MergedSince

\* What has merged stays so.
LEMMA MergedStays ==
  ASSUME NEW e \in Pushes, MergedSince(e), wasClean \subseteq wasClean'
  PROVE  MergedSince(e)'
BY DEF MergedSince

LEMMA PushHeadInv ==
  ASSUME LabelerInv, PushHead, UNCHANGED removedBy
  PROVE  LabelerInv'
<1>1. /\ pushes < MaxPushes /\ pushes' = pushes + 1 /\ clean' \in BOOLEAN /\ mergeable' = "nil"
      /\ wasClean' = IF clean' THEN wasClean \cup {pushes + 1} ELSE wasClean
      /\ rebasePc' = [rebasePc EXCEPT ![pushes + 1] = "sleep"]
      /\ prLabels' = prLabels
  BY DEF PushHead, Settle
<1>2. pushes \in 0..MaxPushes /\ pushes + 1 \in Pushes /\ pushes + 1 \in 0..MaxPushes
  BY <1>1, LabelerAssumption DEF LabelerInv, LabelerTypeOK, Pushes
<1>3. LabelerTypeOK'
  BY <1>1, <1>2, LabelerAssumption DEF LabelerInv, LabelerTypeOK
<1>4. AnswerIsAboutHead'
  BY <1>1 DEF AnswerIsAboutHead
<1>5. \A e \in Pushes : rebasePc'[e] = rebasePc[e] \/ (e = pushes + 1 /\ rebasePc'[e] = "sleep")
  BY <1>1 DEF LabelerInv, LabelerTypeOK
<1>6. wasClean \subseteq wasClean'
  BY <1>1
<1>7. \A e \in Pushes : rebasePc'[e] # "none" => e <= pushes'
  BY <1>1, <1>2, <1>5, LabelerAssumption DEF LabelerInv, WorkIsJustified, Pushes
<1>8. \A e \in Pushes : rebasePc'[e] \notin {"none", "sleep", "done"} => MergedSince(e)'
  BY <1>5, <1>6, MergedStays DEF LabelerInv, WorkIsJustified
<1>9. UnlabelledMerged'
  BY <1>6 DEF LabelerInv, UnlabelledMerged
<1>10. QED BY <1>3, <1>4, <1>7, <1>8, <1>9 DEF LabelerInv, WorkIsJustified

LEMMA PullRequestInv ==
  ASSUME LabelerInv, PushBase \/ ComputeMergeable \/ PutLabel, UNCHANGED removedBy
  PROVE  LabelerInv'
<1>1. UNCHANGED <<pushes, rebasePc>> /\ pushes \in 0..MaxPushes
  BY DEF PushBase, ComputeMergeable, PutLabel, LabelerInv, LabelerTypeOK
<1>2. wasClean \subseteq wasClean'
  BY DEF PushBase, ComputeMergeable, PutLabel, Settle
<1>3. LabelerTypeOK'
  BY <1>1, LabelerAssumption DEF LabelerInv, LabelerTypeOK, PushBase, ComputeMergeable, PutLabel, Settle
<1>4. AnswerIsAboutHead'
  BY DEF LabelerInv, LabelerTypeOK, AnswerIsAboutHead, PushBase, ComputeMergeable, PutLabel, Settle
<1>5. WorkIsJustified'
  BY <1>1, <1>2, MergedStays DEF LabelerInv, WorkIsJustified
<1>6. UnlabelledMerged'
  BY <1>2 DEF LabelerInv, UnlabelledMerged
<1>7. QED BY <1>3, <1>4, <1>5, <1>6 DEF LabelerInv

LEMMA HandlerOfPushInv ==
  ASSUME LabelerInv, NEW e \in Pushes, PendingRebaseUnlabeler(e)
  PROVE  LabelerInv'
<1>1. UNCHANGED <<pushes, clean, mergeable, wasClean>>
  BY DEF PendingRebaseUnlabeler, GetMergeable, FindLabel, RemoveLabel, labelerEnv
<1>2. /\ rebasePc[e] \notin {"none", "done"}
      /\ \E to \in {"done", "remove-pending", "remove-needs"} \cup RebaseLabels :
           /\ rebasePc' = [rebasePc EXCEPT ![e] = to]
           /\ rebasePc[e] = "sleep" => to = "done" \/ mergeable = "true"
  BY DEF PendingRebaseUnlabeler, GetMergeable, FindLabel, RemoveLabel, GotoRebase, Removal,
         AfterLabel, RebaseLabels, IsMergeable
<1>3. \/ removedBy' = removedBy /\ prLabels' = prLabels
      \/ /\ removedBy' = removedBy \cup {e} /\ rebasePc[e] # "sleep"
         /\ prLabels' \subseteq prLabels
  BY DEF PendingRebaseUnlabeler, GetMergeable, FindLabel, RemoveLabel, GotoRebase, Removal, RebaseLabels
<1>4. LabelerTypeOK'
  BY <1>1, <1>2, <1>3 DEF LabelerInv, LabelerTypeOK
<1>5. rebasePc[e] # "sleep" => MergedSince(e)
  BY <1>2 DEF LabelerInv, WorkIsJustified
<1>6. mergeable = "true" => MergedSince(e)
  BY <1>2, HeadCounts
<1>7. \A d \in Pushes : MergedSince(d)' = MergedSince(d)
  BY <1>1 DEF MergedSince
<1>8. WorkIsJustified'
  BY <1>1, <1>2, <1>5, <1>6, <1>7 DEF LabelerInv, LabelerTypeOK, WorkIsJustified
<1>9. UnlabelledMerged'
  BY <1>1, <1>3, <1>5 DEF LabelerInv, UnlabelledMerged, MergedSince
<1>10. AnswerIsAboutHead'
  BY <1>1 DEF LabelerInv, AnswerIsAboutHead
<1>11. QED BY <1>4, <1>8, <1>9, <1>10 DEF LabelerInv

LEMMA LabelerNextInv == LabelerInv /\ [LabelerNext]_labelerVars => LabelerInv'
<1>1. LabelerInv /\ PullRequest => LabelerInv'
  BY PushHeadInv, PullRequestInv DEF PullRequest
<1>2. LabelerInv /\ LabelerNext => LabelerInv'
  BY <1>1, HandlerOfPushInv DEF LabelerNext
<1>3. LabelerInv /\ UNCHANGED labelerVars => LabelerInv'
  BY DEF labelerVars, labelerEnv, LabelerInv, LabelerTypeOK, AnswerIsAboutHead, WorkIsJustified,
         UnlabelledMerged, MergedSince
<1>4. QED BY <1>2, <1>3

\* Type correctness and what makes it inductive: an answer "mergeable" is about the
\* last push.
THEOREM LabelerInvariance == LabelerSpec => []LabelerInv
BY LabelerInitInv, LabelerNextInv, PTL DEF LabelerSpec

\* The handler of a push removes a label only when its head or a later one merged
\* cleanly at some time since, for any number of pushes (pending_rebase.go:27-36, 64-70).
THEOREM LabelsComeOff == LabelerSpec => []UnlabelledMerged
<1>1. LabelerInv => UnlabelledMerged
  BY DEF LabelerInv
<1>2. QED BY <1>1, LabelerInvariance, PTL

-----------------------------------------------------------------------------
(***************************************************************************)
(* Dispatch                                                                *)
(***************************************************************************)
LEMMA DispatchInitInv == DispatchInit => DispatchInv
BY DEF DispatchInit, DispatchInv, DispatchTypeOK, FiredOwn, ActsOnce, StopsHaveTheirCause

\* What moves one delivery on without a handler of it.
LEMMA ServeInv ==
  ASSUME DispatchInv, NEW d \in Deliveries, LoseDelivery(d) \/ ServeHTTP(d) \/ AnswerFired(d)
  PROVE  DispatchInv'
<1>1. /\ UNCHANGED <<EventOf, up, fired, acted, stopped>>
      /\ lost' \in {lost, lost \cup {d}}
  BY DEF LoseDelivery, ServeHTTP, AnswerFired, GotoDispatch
<1>2. \E to \in {"payload", "done"} :
        /\ dispatchPc' = [dispatchPc EXCEPT ![d] = to]
        /\ to = "payload" => dispatchPc[d] = "sent"
  BY DEF LoseDelivery, ServeHTTP, AnswerFired, GotoDispatch
<1>3. DispatchTypeOK'
  BY <1>1, <1>2 DEF DispatchInv, DispatchTypeOK
<1>4. FiredOwn'
  BY <1>1, <1>2 DEF DispatchInv, DispatchTypeOK, FiredOwn
<1>5. ActsOnce' /\ StopsHaveTheirCause'
  BY <1>1 DEF DispatchInv, ActsOnce, StopsHaveTheirCause, HasAll, FieldsOf
<1>6. QED BY <1>3, <1>4, <1>5 DEF DispatchInv

\* The first set of goroutines, for the event's own type.
LEMMA HandlePayloadInv ==
  ASSUME DispatchInv, NEW d \in Deliveries, HandlePayload(d)
  PROVE  DispatchInv'
<1>1. UNCHANGED <<EventOf, up, acted, stopped, lost>> /\ dispatchPc[d] = "payload"
  BY DEF HandlePayload, GotoDispatch
<1>2. \E to \in {"again", "answer", "done"} :
        /\ dispatchPc' = [dispatchPc EXCEPT ![d] = to]
        /\ to = "again" => EventOf[d].type = "pull_request"
  BY DEF HandlePayload, GotoDispatch
<1>3. \/ fired' = fired
      \/ /\ EventOf[d].type \in DOMAIN EventHandlers
         /\ fired' = [fired EXCEPT ![d] = fired[d] \cup
                        {<<h, EventOf[d].type>> : h \in HandlersOf(EventOf[d].type)}]
  BY DEF HandlePayload, FireHandlers, DispatchInv, DispatchTypeOK
<1>4. EventOf[d].type \in DOMAIN EventHandlers => HandlersOf(EventOf[d].type) \subseteq AllHandlers
  BY DispatchAssumption
<1>5. DispatchTypeOK'
  <2>1. fired' \in [Deliveries -> SUBSET (AllHandlers \X DOMAIN EventHandlers)]
    BY <1>3, <1>4 DEF DispatchInv, DispatchTypeOK
  <2>2. dispatchPc' \in [Deliveries -> {"sent", "payload", "again", "answer", "done"}]
    BY <1>2 DEF DispatchInv, DispatchTypeOK
  <2>3. QED BY <1>1, <2>1, <2>2 DEF DispatchInv, DispatchTypeOK
<1>6. fired[d] = {} /\ \A h \in AllHandlers : acted[d][h] = 0
  BY <1>1 DEF DispatchInv, FiredOwn
<1>7. \A f \in fired'[d] :
        /\ f[1] \in HandlersOf(EventOf[d].type) /\ f[2] = EventOf[d].type
        /\ f[1] \in AllHandlers
  BY <1>3, <1>4, <1>6 DEF DispatchInv, DispatchTypeOK
<1>8. \A e \in Deliveries \ {d} : fired'[e] = fired[e] /\ dispatchPc'[e] = dispatchPc[e]
  BY <1>2, <1>3 DEF DispatchInv, DispatchTypeOK
<1>9. dispatchPc'[d] \notin {"sent", "payload"}
      /\ (dispatchPc'[d] = "again" => EventOf[d].type = "pull_request")
  BY <1>2 DEF DispatchInv, DispatchTypeOK
<1>10. FiredOwn'
  BY <1>1, <1>6, <1>7, <1>8, <1>9 DEF DispatchInv, FiredOwn
<1>11. ActsOnce' /\ StopsHaveTheirCause'
  BY <1>1 DEF DispatchInv, ActsOnce, StopsHaveTheirCause, HasAll, FieldsOf
<1>12. QED BY <1>5, <1>10, <1>11 DEF DispatchInv

\* The second set, for the payload that is parsed as an issue_comment.
LEMMA FireAgainInv ==
  ASSUME DispatchInv, NEW d \in Deliveries, FireAgain(d)
  PROVE  DispatchInv'
<1>1. /\ UNCHANGED <<EventOf, up, acted, stopped, lost>>
      /\ dispatchPc[d] = "again" /\ dispatchPc' = [dispatchPc EXCEPT ![d] = "answer"]
  BY DEF FireAgain, GotoDispatch
<1>2. EventOf[d].type = "pull_request"
  BY <1>1 DEF DispatchInv, FiredOwn
<1>3. \/ fired' = fired
      \/ fired' = [fired EXCEPT ![d] = fired[d] \cup
                     {<<h, "issue_comment">> : h \in HandlersOf("pull_request")}]
  BY <1>2 DEF FireAgain, FireHandlers, SecondHandlers, DispatchInv, DispatchTypeOK
<1>4. HandlersOf("pull_request") \subseteq AllHandlers
  <2>1. CASE "pull_request" \in DOMAIN EventHandlers
    BY <2>1, DispatchAssumption
  <2>2. CASE "pull_request" \notin DOMAIN EventHandlers
    BY <2>2 DEF HandlersOf
  <2>3. QED BY <2>1, <2>2
<1>5. DispatchTypeOK'
  <2>1. fired' \in [Deliveries -> SUBSET (AllHandlers \X DOMAIN EventHandlers)]
    BY <1>3, <1>4, DispatchAssumption DEF DispatchInv, DispatchTypeOK
  <2>2. dispatchPc' \in [Deliveries -> {"sent", "payload", "again", "answer", "done"}]
    BY <1>1 DEF DispatchInv, DispatchTypeOK
  <2>3. QED BY <1>1, <2>1, <2>2 DEF DispatchInv, DispatchTypeOK
<1>6. \A f \in fired'[d] :
        \/ f \in fired[d]
        \/ f[1] \in HandlersOf("pull_request") /\ f[2] = "issue_comment"
  BY <1>3 DEF DispatchInv, DispatchTypeOK
<1>7. \A e \in Deliveries \ {d} : fired'[e] = fired[e] /\ dispatchPc'[e] = dispatchPc[e]
  BY <1>1, <1>3 DEF DispatchInv, DispatchTypeOK
<1>8. dispatchPc'[d] = "answer"
  BY <1>1 DEF DispatchInv, DispatchTypeOK
<1>9. FiredOwn'
  BY <1>1, <1>2, <1>6, <1>7, <1>8 DEF DispatchInv, FiredOwn
<1>10. ActsOnce' /\ StopsHaveTheirCause'
  BY <1>1 DEF DispatchInv, ActsOnce, StopsHaveTheirCause, HasAll, FieldsOf
<1>11. QED BY <1>5, <1>9, <1>10 DEF DispatchInv

\* A payload that a handler accepts is of its event's own type.
LEMMA AcceptedIsOwn ==
  ASSUME DispatchInv, NEW d \in Deliveries, NEW f \in fired[d], f[2] \in AcceptedTypes[f[1]]
  PROVE  /\ f[2] = EventOf[d].type /\ FieldsOf(d, f[2]) = EventOf[d].fields
         /\ f[1] \in HandlersOf(EventOf[d].type) /\ acted[d][f[1]] = 0
<1>1. f[2] = EventOf[d].type
  BY DispatchAssumption DEF DispatchInv, FiredOwn
<1>2. QED BY <1>1 DEF DispatchInv, FiredOwn, FieldsOf

\* A lookup of a membership is one for the event's own type.
LEMMA LookupIsOwn ==
  ASSUME DispatchInv, NEW d \in Deliveries, NEW h \in AllHandlers,
         NEW type \in DOMAIN EventHandlers, LooksUp(d, h, type)
  PROVE  type = EventOf[d].type /\ h \in HandlersOf(EventOf[d].type) \cap Authenticates
<1>1. <<h, type>> \in fired[d] /\ type \in AcceptedTypes[h] /\ h \in Authenticates
  BY DEF LooksUp, Admits
<1>2. QED BY <1>1, AcceptedIsOwn

\* The handler that stops the process has one of the causes.
LEMMA CauseOfStop ==
  ASSUME DispatchInv, NEW d \in Deliveries, NEW cause \in {"null", "response", "race"},
         UNCHANGED EventOf, stopped' = stopped \cup {<<d, cause>>},
         cause = "null" => \E h \in HandlersOf(EventOf[d].type) : ~HasAll(d, h, EventOf[d].type),
         cause = "response" => HandlersOf(EventOf[d].type) \cap Authenticates # {},
         cause = "race" =>
           \E h \in HandlersOf(EventOf[d].type) \cap Authenticates, e \in Deliveries :
             \E g \in HandlersOf(EventOf[e].type) \cap Authenticates : <<e, g>> # <<d, h>>
  PROVE  StopsHaveTheirCause'
BY DEF DispatchInv, StopsHaveTheirCause, HasAll, FieldsOf

LEMMA StopInv ==
  ASSUME DispatchInv, NEW d \in Deliveries, NEW cause \in {"null", "response", "race"},
         NEW h \in AllHandlers, NEW type \in DOMAIN EventHandlers,
         UNCHANGED EventOf, Stop(d, cause),
         \/ cause = "null" /\ Admits(d, h, type) /\ ~HasAll(d, h, type)
         \/ cause = "response" /\ LooksUp(d, h, type)
         \/ cause = "race" /\ LooksUp(d, h, type) /\ AnotherLooksUp(d, h, type)
  PROVE  DispatchInv'
<1>1. /\ acted' = acted /\ up' = FALSE
      /\ fired' = [e \in Deliveries |-> {}]
      /\ stopped' = stopped \cup {<<d, cause>>}
      /\ lost' = lost \cup {e \in Deliveries : dispatchPc[e] # "sent"}
      /\ dispatchPc' = [e \in Deliveries |-> IF dispatchPc[e] = "sent" THEN "sent" ELSE "done"]
  BY DEF Stop
<1>2. DispatchTypeOK'
  <2>1. stopped' \subseteq Deliveries \X {"null", "response", "race"} /\ lost' \subseteq Deliveries
    BY <1>1 DEF DispatchInv, DispatchTypeOK
  <2>2. fired' \in [Deliveries -> SUBSET (AllHandlers \X DOMAIN EventHandlers)]
    BY <1>1
  <2>3. dispatchPc' \in [Deliveries -> {"sent", "payload", "again", "answer", "done"}]
    BY <1>1
  <2>4. QED BY <1>1, <2>1, <2>2, <2>3 DEF DispatchInv, DispatchTypeOK
<1>3. FiredOwn'
  BY <1>1 DEF DispatchInv, DispatchTypeOK, FiredOwn
<1>4. ActsOnce'
  BY <1>1 DEF DispatchInv, ActsOnce
<1>5. StopsHaveTheirCause'
  <2>1. CASE cause = "null"
    <3>1. type = EventOf[d].type /\ h \in HandlersOf(EventOf[d].type)
      BY <2>1, AcceptedIsOwn DEF Admits
    <3>2. ~HasAll(d, h, EventOf[d].type)
      BY <2>1, <3>1
    <3>3. QED BY <1>1, <2>1, <3>1, <3>2, CauseOfStop
  <2>2. CASE cause = "response"
    BY <1>1, <2>2, LookupIsOwn, CauseOfStop
  <2>3. CASE cause = "race"
    <3>1. PICK e \in Deliveries, g \in AllHandlers, t \in DOMAIN EventHandlers :
            <<e, g, t>> # <<d, h, type>> /\ LooksUp(e, g, t)
      BY <2>3 DEF AnotherLooksUp
    <3>2. type = EventOf[d].type /\ h \in HandlersOf(EventOf[d].type) \cap Authenticates
      BY <2>3, LookupIsOwn
    <3>3. t = EventOf[e].type /\ g \in HandlersOf(EventOf[e].type) \cap Authenticates
      BY <3>1, LookupIsOwn
    <3>4. <<e, g>> # <<d, h>>
      BY <3>1, <3>2, <3>3
    <3>5. QED BY <1>1, <2>3, <3>2, <3>3, <3>4, CauseOfStop
  <2>4. QED BY <2>1, <2>2, <2>3
<1>6. QED BY <1>2, <1>3, <1>4, <1>5 DEF DispatchInv

\* A handler that acts, or that refuses a payload.
LEMMA ReturnInv ==
  ASSUME DispatchInv, NEW d \in Deliveries, NEW h \in AllHandlers,
         NEW type \in DOMAIN EventHandlers, UNCHANGED EventOf,
         <<h, type>> \in fired[d], Return(d, h, type),
         \/ UNCHANGED acted
         \/ type \in AcceptedTypes[h] /\ acted' = [acted EXCEPT ![d][h] = @ + 1]
  PROVE  DispatchInv'
<1>1. /\ UNCHANGED <<EventOf, up, stopped, lost, dispatchPc>>
      /\ <<h, type>> \in fired[d]
      /\ fired' = [fired EXCEPT ![d] = fired[d] \ {<<h, type>>}]
      /\ \/ acted' = acted
         \/ /\ type \in AcceptedTypes[h]
            /\ acted' = [acted EXCEPT ![d] = [acted[d] EXCEPT ![h] = acted[d][h] + 1]]
  BY DEF Return
<1>2. DispatchTypeOK'
  <2>1. fired' \in [Deliveries -> SUBSET (AllHandlers \X DOMAIN EventHandlers)]
    BY <1>1 DEF DispatchInv, DispatchTypeOK
  <2>2. acted' \in [Deliveries -> [AllHandlers -> Nat]]
    <3>1. acted \in [Deliveries -> [AllHandlers -> Nat]]
      BY DEF DispatchInv, DispatchTypeOK
    <3>2. CASE acted' = acted
      BY <3>1, <3>2
    <3>3. CASE acted' = [acted EXCEPT ![d] = [acted[d] EXCEPT ![h] = acted[d][h] + 1]]
      <4>1. [acted[d] EXCEPT ![h] = acted[d][h] + 1] \in [AllHandlers -> Nat]
        BY <3>1
      <4>2. QED BY <3>1, <3>3, <4>1
    <3>4. QED BY <1>1, <3>2, <3>3
  <2>3. QED BY <1>1, <2>1, <2>2 DEF DispatchInv, DispatchTypeOK
<1>3. type \in AcceptedTypes[h] =>
        type = EventOf[d].type /\ h \in HandlersOf(type) /\ acted[d][h] = 0
  BY <1>1, AcceptedIsOwn
<1>4. /\ \A e \in Deliveries : fired'[e] \subseteq fired[e]
      /\ \A f \in fired'[d] : f # <<h, type>>
  BY <1>1 DEF DispatchInv, DispatchTypeOK
<1>5. \A e \in Deliveries, g \in AllHandlers :
        \/ acted'[e][g] = acted[e][g]
        \/ /\ e = d /\ g = h /\ acted'[e][g] = 1
           /\ type = EventOf[d].type /\ h \in HandlersOf(type)
  BY <1>1, <1>3 DEF DispatchInv, DispatchTypeOK
<1>6. \A f \in fired[d] : f = <<f[1], f[2]>> /\ f[1] \in AllHandlers
  BY DEF DispatchInv, DispatchTypeOK
<1>7. ASSUME NEW e \in Deliveries, NEW f \in fired'[e]
      PROVE  f \in fired[e] /\ f[1] \in AllHandlers
             /\ (f[2] = EventOf[e].type => acted'[e][f[1]] = acted[e][f[1]])
  BY <1>4, <1>5, <1>6 DEF DispatchInv, DispatchTypeOK
<1>8. \A e \in Deliveries : dispatchPc[e] \in {"sent", "payload"} =>
        fired'[e] = {} /\ \A g \in AllHandlers : acted'[e][g] = 0
  BY <1>1, <1>4, <1>5 DEF DispatchInv, FiredOwn
<1>9. FiredOwn'
  BY <1>1, <1>7, <1>8 DEF DispatchInv, FiredOwn
<1>10. ActsOnce'
  BY <1>1, <1>5 DEF DispatchInv, ActsOnce
<1>11. StopsHaveTheirCause'
  BY <1>1 DEF DispatchInv, StopsHaveTheirCause, HasAll, FieldsOf
<1>12. QED BY <1>2, <1>9, <1>10, <1>11 DEF DispatchInv

LEMMA HandleInv ==
  ASSUME DispatchInv, NEW d \in Deliveries, NEW h \in AllHandlers,
         NEW type \in DOMAIN EventHandlers, Handle(d, h, type)
  PROVE  DispatchInv'
<1>1. <<h, type>> \in fired[d] /\ UNCHANGED EventOf
  BY DEF Handle
<1>2. \/ Return(d, h, type) /\ UNCHANGED acted
      \/ /\ Return(d, h, type) /\ Admits(d, h, type)
         /\ acted' = [acted EXCEPT ![d][h] = @ + 1]
      \/ Stop(d, "null") /\ Admits(d, h, type) /\ ~HasAll(d, h, type)
      \/ Stop(d, "response") /\ LooksUp(d, h, type)
      \/ Stop(d, "race") /\ LooksUp(d, h, type) /\ AnotherLooksUp(d, h, type)
  BY DEF Handle
<1>3. CASE Return(d, h, type) /\ UNCHANGED acted
  BY <1>1, <1>3, ReturnInv
<1>4. CASE /\ Return(d, h, type) /\ Admits(d, h, type)
           /\ acted' = [acted EXCEPT ![d][h] = @ + 1]
  BY <1>1, <1>4, ReturnInv DEF Admits
<1>5. CASE Stop(d, "null") /\ Admits(d, h, type) /\ ~HasAll(d, h, type)
  BY <1>1, <1>5, StopInv
<1>6. CASE Stop(d, "response") /\ LooksUp(d, h, type)
  BY <1>1, <1>6, StopInv
<1>7. CASE Stop(d, "race") /\ LooksUp(d, h, type) /\ AnotherLooksUp(d, h, type)
  BY <1>1, <1>7, StopInv
<1>8. QED BY <1>2, <1>3, <1>4, <1>5, <1>6, <1>7

LEMMA DispatchNextInv == DispatchInv /\ [DispatchNext]_dispatchVars => DispatchInv'
<1>1. DispatchInv /\ DispatchStep => DispatchInv'
  BY ServeInv, HandlePayloadInv, FireAgainInv, HandleInv DEF DispatchStep
<1>2. DispatchInv /\ Restart => DispatchInv'
  BY DEF Restart, DispatchInv, DispatchTypeOK, FiredOwn, ActsOnce, StopsHaveTheirCause, HasAll, FieldsOf
<1>3. DispatchInv /\ UNCHANGED dispatchVars => DispatchInv'
  BY DEF dispatchVars, DispatchInv, DispatchTypeOK, FiredOwn, ActsOnce, StopsHaveTheirCause, HasAll, FieldsOf
<1>4. QED BY <1>1, <1>2, <1>3 DEF DispatchNext

\* Type correctness and what makes it inductive: a handler that is still to run on a
\* payload that it accepts has not acted.
THEOREM DispatchInvariance == DispatchSpec => []DispatchInv
BY DispatchInitInv, DispatchNextInv, PTL DEF DispatchSpec

\* A handler acts at most once on a delivery, for every table of handlers of which
\* those of pull_request refuse an issue_comment (global_handler.go:75-83).
THEOREM ActAtMostOnce == DispatchSpec => []ActsOnce
<1>1. DispatchInv => ActsOnce
  BY DEF DispatchInv
<1>2. QED BY <1>1, DispatchInvariance, PTL

\* The causes of a stop: whatever stops the process belongs to the delivery's own kind
\* of event, for every table of handlers; the second parse of a pull_request stops
\* nothing, and a race takes two lookups (global_handler.go:75-106, auth.go:61-70).
THEOREM CausesOfStops == DispatchSpec => []StopsHaveTheirCause
<1>1. DispatchInv => StopsHaveTheirCause
  BY DEF DispatchInv
<1>2. QED BY <1>1, DispatchInvariance, PTL

-----------------------------------------------------------------------------
(***************************************************************************)
(* Deprecated repositories                                                 *)
(***************************************************************************)
\* One handler of many moves.
LEMMA OneMoves ==
  ASSUME NEW D, NEW N, NEW P, NEW pc \in [D -> [N -> P]], NEW i \in D, NEW n \in N, NEW to \in P,
         NEW moved, moved = [pc EXCEPT ![i] = [pc[i] EXCEPT ![n] = to]]
  PROVE  /\ moved \in [D -> [N -> P]]
         /\ \A j \in D, m \in N : moved[j][m] = IF j = i /\ m = n THEN to ELSE pc[j][m]
<1>1. [pc[i] EXCEPT ![n] = to] \in [N -> P]
  OBVIOUS
<1>2. moved \in [D -> [N -> P]]
  BY <1>1
<1>3. QED BY <1>1, <1>2

\* Handlers are counted, so their sets have to be finite.
LEMMA FewClosing ==
  ASSUME DeprecateTypeOK, NEW i \in NewIssues
  PROVE  /\ IsFiniteSet(Closing(i)) /\ closedBy[i] \subseteq Closing(i)
         /\ Cardinality(Closing(i)) \in Nat /\ Cardinality(closedBy[i]) \in Nat
         /\ Cardinality(closedBy[i]) <= Cardinality(Closing(i))
<1>1. IsFiniteSet(1..MaxDelivered)
  BY FS_Interval, DeprecateAssumption
<1>2. closedBy[i] \subseteq Closing(i) /\ Closing(i) \subseteq 1..MaxDelivered
  BY DEF DeprecateTypeOK, Closing
<1>3. IsFiniteSet(Closing(i)) /\ IsFiniteSet(closedBy[i])
        /\ Cardinality(closedBy[i]) <= Cardinality(Closing(i))
  BY <1>1, <1>2, FS_Subset
<1>4. QED BY <1>2, <1>3, FS_CardinalityType

LEMMA ClosedAreTold == DeprecateTypeOK /\ ClosingAreTold => ClosedWereTold
<1>1. ASSUME DeprecateTypeOK, ClosingAreTold, NEW i \in NewIssues, closedBy[i] # {}
      PROVE  RepoOf[i] \in DeprecatedRepos /\ told[i] >= Cardinality(closedBy[i])
  <2>1. RepoOf[i] \in DeprecatedRepos
    BY <1>1 DEF ClosingAreTold, DeprecateTypeOK
  <2>2. told[i] \in Nat /\ told[i] >= Cardinality(Closing(i))
    BY <1>1 DEF ClosingAreTold, DeprecateTypeOK
  <2>3. QED BY <1>1, <2>1, <2>2, FewClosing
<1>2. QED BY <1>1 DEF ClosedWereTold

LEMMA DeprecateInitInv == DeprecateInit => DeprecateInv
<1>1. ASSUME DeprecateInit
      PROVE  DeprecateTypeOK /\ ClosingAreTold
  <2>1. DeprecateTypeOK
    BY <1>1, DeprecateAssumption DEF DeprecateInit, DeprecateTypeOK
  <2>2. \A i \in NewIssues : Closing(i) = {}
    BY <1>1 DEF DeprecateInit, Closing
  <2>3. \A i \in NewIssues : Cardinality(Closing(i)) = 0
    BY <2>2, FS_EmptySet
  <2>4. QED BY <1>1, <2>1, <2>3 DEF DeprecateInit, ClosingAreTold
<1>2. QED BY <1>1, ClosedAreTold DEF DeprecateInv

\* Steps after which no more handlers are closing than before.
LEMMA NoneCloses ==
  ASSUME DeprecateInv, DeprecateTypeOK', UNCHANGED told,
         \A i \in NewIssues : Closing(i)' \subseteq Closing(i),
         \A i \in NewIssues, n \in 1..MaxDelivered :
           deprecatePc'[i][n] = "comment" => deprecatePc[i][n] = "comment" \/ RepoOf[i] \in DeprecatedRepos
  PROVE  DeprecateInv'
<1>1. ASSUME NEW i \in NewIssues
      PROVE  told'[i] >= Cardinality(Closing(i)')
  <2>1. IsFiniteSet(Closing(i)) /\ Cardinality(Closing(i)) \in Nat
    BY FewClosing DEF DeprecateInv
  <2>2. Cardinality(Closing(i)') <= Cardinality(Closing(i)) /\ Cardinality(Closing(i)') \in Nat
    BY <2>1, FS_Subset, FS_CardinalityType
  <2>3. QED BY <2>1, <2>2 DEF DeprecateInv, DeprecateTypeOK, ClosingAreTold
<1>2. ASSUME NEW i \in NewIssues, NEW n \in 1..MaxDelivered,
             n \in closedBy'[i] \/ deprecatePc'[i][n] \in {"comment", "close"}
      PROVE  RepoOf[i] \in DeprecatedRepos
  <2>1. CASE deprecatePc'[i][n] = "comment"
    BY <2>1 DEF DeprecateInv, ClosingAreTold
  <2>2. CASE n \in Closing(i)'
    <3>1. n \in Closing(i)
      BY <2>2
    <3>2. QED BY <3>1 DEF DeprecateInv, ClosingAreTold, Closing
  <2>3. QED BY <1>2, <2>1, <2>2 DEF Closing
<1>3. ClosingAreTold'
  BY <1>1, <1>2 DEF ClosingAreTold
<1>4. ClosedWereTold'
  BY <1>3, ClosedAreTold, PTL
<1>5. QED BY <1>3, <1>4 DEF DeprecateInv

LEMMA DeprecateStepInv ==
  ASSUME DeprecateInv, NEW i \in NewIssues, NEW n \in 1..MaxDelivered,
         \/ DeliverOpened(i) \/ Reopen(i) \/ DeprecateOldRepos(i, n) \/ CloseDeprecated(i, n)
  PROVE  DeprecateInv'
<1>1. UNCHANGED told
  BY DEF DeliverOpened, Reopen, DeprecateOldRepos, CloseDeprecated
<1>2. deprecatePc \in [NewIssues -> [1..MaxDelivered -> {"none", "opened", "comment", "close", "done"}]]
      /\ closedBy \in [NewIssues -> SUBSET (1..MaxDelivered)]
  BY DEF DeprecateInv, DeprecateTypeOK
<1>3. \/ UNCHANGED <<deprecatePc, closedBy>>
      \/ \E m \in 1..MaxDelivered, to \in {"opened", "done", "comment"} :
           /\ deprecatePc' = [deprecatePc EXCEPT ![i] = [deprecatePc[i] EXCEPT ![m] = to]]
           /\ to = "comment" => RepoOf[i] \in DeprecatedRepos
           /\ \/ UNCHANGED closedBy
              \/ deprecatePc[i][m] = "close"
                 /\ closedBy' = [closedBy EXCEPT ![i] = closedBy[i] \cup {m}]
  <2>1. CASE DeliverOpened(i)
    <3>1. delivered[i] + 1 \in 1..MaxDelivered
      BY <2>1, DeprecateAssumption DEF DeliverOpened, DeprecateInv, DeprecateTypeOK
    <3>2. QED BY <2>1, <3>1 DEF DeliverOpened
  <2>2. CASE Reopen(i)
    BY <2>2 DEF Reopen
  <2>3. CASE DeprecateOldRepos(i, n)
    BY <2>3 DEF DeprecateOldRepos, GotoDeprecate
  <2>4. CASE CloseDeprecated(i, n)
    BY <2>4 DEF CloseDeprecated, GotoDeprecate
  <2>5. QED BY <2>1, <2>2, <2>3, <2>4
<1>4. /\ deprecatePc' \in [NewIssues -> [1..MaxDelivered -> {"none", "opened", "comment", "close", "done"}]]
      /\ \A j \in NewIssues : Closing(j)' \subseteq Closing(j)
      /\ \A j \in NewIssues, m \in 1..MaxDelivered :
           deprecatePc'[j][m] = "comment" => deprecatePc[j][m] = "comment" \/ RepoOf[j] \in DeprecatedRepos
  <2>1. CASE UNCHANGED <<deprecatePc, closedBy>>
    BY <1>2, <2>1 DEF Closing
  <2>2. CASE ~UNCHANGED <<deprecatePc, closedBy>>
    <3>1. PICK m \in 1..MaxDelivered, to \in {"opened", "done", "comment"} :
            /\ deprecatePc' = [deprecatePc EXCEPT ![i] = [deprecatePc[i] EXCEPT ![m] = to]]
            /\ to = "comment" => RepoOf[i] \in DeprecatedRepos
            /\ \/ UNCHANGED closedBy
               \/ deprecatePc[i][m] = "close"
                  /\ closedBy' = [closedBy EXCEPT ![i] = closedBy[i] \cup {m}]
      BY <1>3, <2>2
    <3>2. /\ deprecatePc' \in [NewIssues -> [1..MaxDelivered -> {"none", "opened", "comment", "close", "done"}]]
          /\ \A j \in NewIssues, k \in 1..MaxDelivered :
               deprecatePc'[j][k] = IF j = i /\ k = m THEN to ELSE deprecatePc[j][k]
      <4>1. to \in {"none", "opened", "comment", "close", "done"}
        OBVIOUS
      <4>2. DEFINE Pcs == {"none", "opened", "comment", "close", "done"}
      <4>3. to \in Pcs /\ deprecatePc \in [NewIssues -> [1..MaxDelivered -> Pcs]]
        BY <1>2, <4>1
      <4>4. HIDE DEF Pcs
      <4>5. /\ deprecatePc' \in [NewIssues -> [1..MaxDelivered -> Pcs]]
            /\ \A j \in NewIssues, k \in 1..MaxDelivered :
                 deprecatePc'[j][k] = IF j = i /\ k = m THEN to ELSE deprecatePc[j][k]
        BY <3>1, <4>3, OneMoves
      <4>6. QED BY <4>5 DEF Pcs
    <3>3. \A j \in NewIssues :
            closedBy'[j] = closedBy[j]
              \/ (j = i /\ deprecatePc[i][m] = "close" /\ closedBy'[j] = closedBy[j] \cup {m})
      BY <1>2, <3>1
    <3>4. \A j \in NewIssues : Closing(j)' \subseteq Closing(j)
      BY <3>2, <3>3 DEF Closing
    <3>5. QED BY <3>1, <3>2, <3>4
  <2>3. QED BY <2>1, <2>2
<1>5. closedBy' \in [NewIssues -> SUBSET (1..MaxDelivered)]
  BY <1>2, <1>3
<1>6. isOpen' \in [NewIssues -> BOOLEAN] /\ delivered' \in [NewIssues -> 0..MaxDelivered]
  <2>1. isOpen' \in [NewIssues -> BOOLEAN]
    BY DEF DeprecateInv, DeprecateTypeOK, DeliverOpened, Reopen, DeprecateOldRepos, CloseDeprecated
  <2>2. CASE DeliverOpened(i)
    <3>1. delivered[i] + 1 \in 0..MaxDelivered
      BY <2>2, DeprecateAssumption DEF DeliverOpened, DeprecateInv, DeprecateTypeOK
    <3>2. QED BY <2>1, <2>2, <3>1 DEF DeliverOpened, DeprecateInv, DeprecateTypeOK
  <2>3. CASE ~DeliverOpened(i)
    BY <2>1, <2>3 DEF DeprecateInv, DeprecateTypeOK, Reopen, DeprecateOldRepos, CloseDeprecated
  <2>4. QED BY <2>2, <2>3
<1>7. DeprecateTypeOK'
  BY <1>1, <1>4, <1>5, <1>6 DEF DeprecateInv, DeprecateTypeOK
<1>8. QED BY <1>1, <1>4, <1>7, NoneCloses

LEMMA CommentInv ==
  ASSUME DeprecateInv, NEW i \in NewIssues, NEW n \in 1..MaxDelivered, CommentOnIssue(i, n)
  PROVE  DeprecateInv'
<1>1. /\ UNCHANGED <<isOpen, reopened, delivered, closedBy>> /\ deprecatePc[i][n] = "comment"
      /\ \/ /\ told' = [told EXCEPT ![i] = told[i] + 1]
            /\ \E to \in {"close", "done"} :
                 deprecatePc' = [deprecatePc EXCEPT ![i] = [deprecatePc[i] EXCEPT ![n] = to]]
         \/ /\ told' = told
            /\ deprecatePc' = [deprecatePc EXCEPT ![i] = [deprecatePc[i] EXCEPT ![n] = "done"]]
  BY DEF CommentOnIssue, GotoDeprecate
<1>2. /\ deprecatePc' \in [NewIssues -> [1..MaxDelivered -> {"none", "opened", "comment", "close", "done"}]]
      /\ \A j \in NewIssues, m \in 1..MaxDelivered :
           deprecatePc'[j][m] # deprecatePc[j][m] =>
             /\ j = i /\ m = n /\ deprecatePc'[j][m] \in {"close", "done"}
             /\ told' = told => deprecatePc'[j][m] = "done"
  <2>1. PICK to \in {"close", "done"} :
          /\ deprecatePc' = [deprecatePc EXCEPT ![i] = [deprecatePc[i] EXCEPT ![n] = to]]
          /\ told' = told => to = "done"
    <3>1. told' = [told EXCEPT ![i] = told[i] + 1] => told' # told
      BY DEF DeprecateInv, DeprecateTypeOK
    <3>2. QED BY <1>1, <3>1
  <2>2. to \in {"none", "opened", "comment", "close", "done"}
    OBVIOUS
  <2>3. /\ deprecatePc' \in [NewIssues -> [1..MaxDelivered -> {"none", "opened", "comment", "close", "done"}]]
        /\ \A j \in NewIssues, m \in 1..MaxDelivered :
             deprecatePc'[j][m] = IF j = i /\ m = n THEN to ELSE deprecatePc[j][m]
    BY <2>1, <2>2, OneMoves DEF DeprecateInv, DeprecateTypeOK
  <2>4. QED BY <2>1, <2>3
<1>3. DeprecateTypeOK'
  <2>1. told' \in [NewIssues -> Nat]
    <3>1. told \in [NewIssues -> Nat] /\ told[i] + 1 \in Nat
      BY DEF DeprecateInv, DeprecateTypeOK
    <3>2. QED BY <1>1, <3>1
  <2>2. QED BY <1>1, <1>2, <2>1 DEF DeprecateInv, DeprecateTypeOK
<1>4. \A j \in NewIssues \ {i} : Closing(j)' = Closing(j) /\ told'[j] = told[j]
  BY <1>1, <1>2 DEF Closing, DeprecateInv, DeprecateTypeOK
<1>5. IsFiniteSet(Closing(i)) /\ Cardinality(Closing(i)) \in Nat /\ n \notin Closing(i) \ closedBy[i]
      /\ told[i] \in Nat /\ told[i] >= Cardinality(Closing(i))
  BY <1>1, FewClosing DEF DeprecateInv, DeprecateTypeOK, ClosingAreTold, Closing
<1>6. told'[i] >= Cardinality(Closing(i)')
  <2>1. CASE told' = told
    <3>1. Closing(i)' \subseteq Closing(i)
      BY <1>1, <1>2, <2>1 DEF Closing
    <3>2. Cardinality(Closing(i)') <= Cardinality(Closing(i)) /\ Cardinality(Closing(i)') \in Nat
      BY <1>5, <3>1, FS_Subset, FS_CardinalityType
    <3>3. QED BY <1>5, <2>1, <3>2
  <2>2. CASE told' = [told EXCEPT ![i] = told[i] + 1]
    <3>1. Closing(i)' \subseteq Closing(i) \cup {n}
      BY <1>1, <1>2 DEF Closing
    <3>2. IsFiniteSet(Closing(i) \cup {n}) /\ Cardinality(Closing(i) \cup {n}) <= Cardinality(Closing(i)) + 1
          /\ Cardinality(Closing(i) \cup {n}) \in Nat
      <4>1. IsFiniteSet(Closing(i) \cup {n})
            /\ Cardinality(Closing(i) \cup {n}) =
                 IF n \in Closing(i) THEN Cardinality(Closing(i)) ELSE Cardinality(Closing(i)) + 1
        BY <1>5, FS_AddElement
      <4>2. QED BY <1>5, <4>1
    <3>3. Cardinality(Closing(i)') <= Cardinality(Closing(i) \cup {n}) /\ Cardinality(Closing(i)') \in Nat
      BY <3>1, <3>2, FS_Subset, FS_CardinalityType
    <3>4. told'[i] = told[i] + 1
      BY <2>2 DEF DeprecateInv, DeprecateTypeOK
    <3>5. QED BY <1>5, <3>2, <3>3, <3>4
  <2>3. QED BY <1>1, <2>1, <2>2
<1>7. ClosingAreTold'
  <2>1. \A j \in NewIssues : told'[j] >= Cardinality(Closing(j)')
    BY <1>4, <1>6 DEF DeprecateInv, ClosingAreTold
  <2>2. \A j \in NewIssues, m \in 1..MaxDelivered :
          m \in closedBy'[j] \/ deprecatePc'[j][m] \in {"comment", "close"} =>
            RepoOf[j] \in DeprecatedRepos
    BY <1>1, <1>2 DEF DeprecateInv, ClosingAreTold
  <2>3. QED BY <2>1, <2>2 DEF ClosingAreTold
<1>8. ClosedWereTold'
  BY <1>3, <1>7, ClosedAreTold, PTL
<1>9. QED BY <1>3, <1>7, <1>8 DEF DeprecateInv

LEMMA DeprecateNextInv == DeprecateInv /\ [DeprecateNext]_deprecateVars => DeprecateInv'
<1>1. ASSUME DeprecateInv, NEW i \in NewIssues, DeliverOpened(i) \/ Reopen(i)
      PROVE  DeprecateInv'
  <2>1. CASE 1 \in 1..MaxDelivered
    BY <1>1, <2>1, DeprecateStepInv
  <2>2. CASE 1 \notin 1..MaxDelivered
    BY <1>1, <2>2, DeprecateAssumption DEF DeliverOpened, Reopen, DeprecateInv, DeprecateTypeOK
  <2>3. QED BY <2>1, <2>2
<1>2. DeprecateInv /\ DeprecateNext => DeprecateInv'
  BY <1>1, DeprecateStepInv, CommentInv DEF DeprecateNext
<1>3. DeprecateInv /\ UNCHANGED deprecateVars => DeprecateInv'
  BY DEF deprecateVars, DeprecateInv, DeprecateTypeOK, ClosingAreTold, Closing, ClosedWereTold
<1>4. QED BY <1>2, <1>3

\* Type correctness and what makes it inductive: the handlers that have closed an
\* issue or are about to are no more than the comments.
THEOREM DeprecateInvariance == DeprecateSpec => []DeprecateInv
BY DeprecateInitInv, DeprecateNextInv, PTL DEF DeprecateSpec

\* Nothing is closed without a comment of its own, whatever number of deliveries and
\* reopened issues there is (deprecate.go:27-57).
THEOREM ClosedAreToldWhy == DeprecateSpec => []ClosedWereTold
<1>1. DeprecateInv => ClosedWereTold
  BY DEF DeprecateInv
<1>2. QED BY <1>1, DeprecateInvariance, PTL

-----------------------------------------------------------------------------
(***************************************************************************)
(* Pull requests from pushed branches                                      *)
(***************************************************************************)
LEMMA AutoPullInitInv == AutoPullInit => AutoPullInv
BY AutoPullAssumption
DEF AutoPullInit, AutoPullInv, AutoPullTypeOK, NotYetPushed, StaysAhead, PushedIsPulled

\* A step at a branch leaves the others alone.
LEMMA OneBranch ==
  ASSUME AutoPullInv, NEW b \in Branches, AutoPullTypeOK',
         \A c \in Branches \ {b} :
           /\ ahead'[c] = ahead[c] /\ branchPushes'[c] = branchPushes[c]
           /\ pulls'[c] = pulls[c] /\ (c \in closedSince' <=> c \in closedSince)
           /\ pushed'[c] = pushed[c] /\ pushPc'[c] = pushPc[c],
         \A n \in 1..MaxBranchPushes : n > branchPushes'[b] => pushPc'[b][n] = "none",
         branchPushes'[b] > 0 /\ LastPush(b)' = "commits" /\ b \notin closedSince' => ahead'[b],
         pulls'[b] > 0 => b \in PullBranches,
         /\ b \in PullBranches /\ branchPushes'[b] > 0 /\ LastPush(b)' = "commits"
         /\ pushPc'[b][branchPushes'[b]] \in {"ignored", "opened", "refused"}
         => pulls'[b] > 0 \/ b \in closedSince'
  PROVE  AutoPullInv'
<1>1. NotYetPushed'
  BY DEF AutoPullInv, NotYetPushed
<1>2. StaysAhead'
  BY DEF AutoPullInv, StaysAhead, LastPush
<1>3. PushedIsPulled'
  BY DEF AutoPullInv, PushedIsPulled, LastPush, IsPulled
<1>4. QED BY <1>1, <1>2, <1>3 DEF AutoPullInv

LEMMA PushBranchInv ==
  ASSUME AutoPullInv, NEW b \in Branches, PushBranch(b)
  PROVE  AutoPullInv'
<1> DEFINE n == branchPushes[b] + 1
           Pcs == {"none", "delivered", "ignored", "opened", "refused", "failed"}
           Saids == {"none", "commits", "no-commits"}
<1>1. AutoPullTypeOK
  BY DEF AutoPullInv
<1>2. /\ n \in 1..MaxBranchPushes /\ n \in 0..MaxBranchPushes /\ n > 0
      /\ branchPushes' = [branchPushes EXCEPT ![b] = n]
      /\ pushPc' = [pushPc EXCEPT ![b] = [pushPc[b] EXCEPT ![n] = "delivered"]]
      /\ closedSince' = closedSince \ {b}
  BY <1>1, AutoPullAssumption DEF PushBranch, AutoPullTypeOK
<1>3. PICK what \in {"commits", "no-commits"}, there \in BOOLEAN :
        /\ what = "commits" => there
        /\ pushed' = [pushed EXCEPT ![b] = [pushed[b] EXCEPT ![n] = what]]
        /\ ahead' = [ahead EXCEPT ![b] = there]
        /\ pulls' = pulls \/ pulls' = [pulls EXCEPT ![b] = 0]
  BY DEF PushBranch
<1>4. /\ pushPc \in [Branches -> [1..MaxBranchPushes -> Pcs]] /\ "delivered" \in Pcs
      /\ pushed \in [Branches -> [1..MaxBranchPushes -> Saids]] /\ what \in Saids
  BY <1>1 DEF AutoPullTypeOK
<1>5. /\ pushPc' \in [Branches -> [1..MaxBranchPushes -> Pcs]]
      /\ \A c \in Branches, m \in 1..MaxBranchPushes :
           pushPc'[c][m] = IF c = b /\ m = n THEN "delivered" ELSE pushPc[c][m]
  <2>1. HIDE DEF Pcs, n
  <2>2. QED BY <1>2, <1>4, OneMoves
<1>6. /\ pushed' \in [Branches -> [1..MaxBranchPushes -> Saids]]
      /\ \A c \in Branches, m \in 1..MaxBranchPushes :
           pushed'[c][m] = IF c = b /\ m = n THEN what ELSE pushed[c][m]
  <2>1. HIDE DEF Saids, n
  <2>2. QED BY <1>2, <1>3, <1>4, OneMoves
<1>7. \A c \in Branches \ {b} :
        /\ ahead'[c] = ahead[c] /\ branchPushes'[c] = branchPushes[c] /\ pulls'[c] = pulls[c]
        /\ pushed'[c] = pushed[c] /\ pushPc'[c] = pushPc[c]
  <2>1. HIDE DEF n
  <2>2. QED BY <1>1, <1>2, <1>3 DEF AutoPullTypeOK
<1>8. branchPushes'[b] = n /\ ahead'[b] = there /\ (pulls'[b] = pulls[b] \/ pulls'[b] = 0)
  <2>1. HIDE DEF n
  <2>2. QED BY <1>1, <1>2, <1>3 DEF AutoPullTypeOK
<1>9. AutoPullTypeOK'
  <2>1. branchPushes' \in [Branches -> 0..MaxBranchPushes]
    <3>1. HIDE DEF n
    <3>2. QED BY <1>1, <1>2 DEF AutoPullTypeOK
  <2>2. ahead' \in [Branches -> BOOLEAN] /\ pulls' \in [Branches -> Nat] /\ closedSince' \subseteq Branches
    <3>1. pulls' \in [Branches -> Nat]
      BY <1>1, <1>3 DEF AutoPullTypeOK
    <3>2. QED BY <1>1, <1>2, <1>3, <3>1 DEF AutoPullTypeOK
  <2>3. QED BY <1>5, <1>6, <2>1, <2>2 DEF AutoPullTypeOK
<1>10. \A m \in 1..MaxBranchPushes : m > n => pushPc'[b][m] = "none"
  BY <1>1, <1>5 DEF AutoPullInv, NotYetPushed, AutoPullTypeOK
<1>11. LastPush(b)' = what /\ pushPc'[b][branchPushes'[b]] = "delivered"
  BY <1>2, <1>5, <1>6, <1>8 DEF LastPush
<1>12. pulls'[b] > 0 => b \in PullBranches
  BY <1>8 DEF AutoPullInv, PushedIsPulled
<1>13. QED
  <2>1. HIDE DEF n
  <2>2. QED BY <1>2, <1>3, <1>7, <1>8, <1>9, <1>10, <1>11, <1>12, OneBranch

LEMMA ClosePullInv ==
  ASSUME AutoPullInv, NEW b \in Branches, ClosePull(b)
  PROVE  AutoPullInv'
<1>1. /\ UNCHANGED <<branchPushes, pushed, pushPc>> /\ pulls[b] > 0
      /\ pulls' = [pulls EXCEPT ![b] = 0] /\ closedSince' = closedSince \cup {b}
      /\ ahead' = ahead \/ ahead' = [ahead EXCEPT ![b] = FALSE]
  BY DEF ClosePull
<1>2. AutoPullTypeOK'
  BY <1>1 DEF AutoPullInv, AutoPullTypeOK
<1>3. \A c \in Branches \ {b} :
        ahead'[c] = ahead[c] /\ pulls'[c] = pulls[c] /\ (c \in closedSince' <=> c \in closedSince)
  BY <1>1 DEF AutoPullInv, AutoPullTypeOK
<1>4. \A n \in 1..MaxBranchPushes : n > branchPushes'[b] => pushPc'[b][n] = "none"
  BY <1>1 DEF AutoPullInv, NotYetPushed
<1>5. pulls'[b] = 0
  BY <1>1 DEF AutoPullInv, AutoPullTypeOK
<1>6. QED BY <1>1, <1>2, <1>3, <1>4, <1>5, OneBranch

\* The handler of an event ends, or the event comes again.
LEMMA EventOfPushInv ==
  ASSUME AutoPullInv, NEW b \in Branches, NEW n \in 1..MaxBranchPushes,
         UNCHANGED <<ahead, branchPushes, closedSince, pushed>>, pushPc[b][n] # "none",
         NEW to \in {"delivered", "ignored", "opened", "refused", "failed"}, EndPush(b, n, to),
         pulls' = pulls \/ (b \in PullBranches /\ pulls' = [pulls EXCEPT ![b] = 1]),
         /\ n = branchPushes[b] /\ b \in PullBranches /\ LastPush(b) = "commits"
         /\ to \in {"ignored", "opened", "refused"}
         => pulls'[b] > 0 \/ b \in closedSince
  PROVE  AutoPullInv'
<1> DEFINE Pcs == {"none", "delivered", "ignored", "opened", "refused", "failed"}
<1>1. /\ AutoPullTypeOK /\ pushPc \in [Branches -> [1..MaxBranchPushes -> Pcs]] /\ to \in Pcs
      /\ pushPc' = [pushPc EXCEPT ![b] = [pushPc[b] EXCEPT ![n] = to]]
  BY DEF AutoPullInv, AutoPullTypeOK, EndPush
<1>2. /\ pushPc' \in [Branches -> [1..MaxBranchPushes -> Pcs]]
      /\ \A c \in Branches, m \in 1..MaxBranchPushes :
           pushPc'[c][m] = IF c = b /\ m = n THEN to ELSE pushPc[c][m]
  <2>1. HIDE DEF Pcs
  <2>2. QED BY <1>1, OneMoves
<1>3. pulls' \in [Branches -> Nat] /\ (\A c \in Branches \ {b} : pulls'[c] = pulls[c])
      /\ (pulls'[b] = pulls[b] \/ (b \in PullBranches /\ pulls'[b] = 1))
  <2>1. CASE pulls' = pulls
    BY <1>1, <2>1 DEF AutoPullTypeOK
  <2>2. CASE b \in PullBranches /\ pulls' = [pulls EXCEPT ![b] = 1]
    BY <1>1, <2>2 DEF AutoPullTypeOK
  <2>3. QED BY <2>1, <2>2
<1>4. AutoPullTypeOK'
  BY <1>1, <1>2, <1>3 DEF AutoPullTypeOK
<1>5. \A c \in Branches \ {b} : pushPc'[c] = pushPc[c]
  BY <1>1 DEF AutoPullTypeOK
<1>6. n <= branchPushes[b] /\ branchPushes[b] \in Nat /\ branchPushes[b] <= MaxBranchPushes
  BY <1>1, AutoPullAssumption DEF AutoPullTypeOK, AutoPullInv, NotYetPushed
<1>7. \A m \in 1..MaxBranchPushes : m > branchPushes'[b] => pushPc'[b][m] = "none"
  BY <1>2, <1>6 DEF AutoPullInv, NotYetPushed
<1>8. branchPushes'[b] > 0 /\ LastPush(b)' = "commits" /\ b \notin closedSince' => ahead'[b]
  BY DEF AutoPullInv, StaysAhead, LastPush
<1>9. pulls'[b] > 0 => b \in PullBranches
  BY <1>3 DEF AutoPullInv, PushedIsPulled
<1>10. ASSUME b \in PullBranches, branchPushes'[b] > 0, LastPush(b)' = "commits",
              pushPc'[b][branchPushes'[b]] \in {"ignored", "opened", "refused"}
       PROVE  pulls'[b] > 0 \/ b \in closedSince'
  <2>1. LastPush(b) = "commits" /\ branchPushes[b] \in 1..MaxBranchPushes
    BY <1>6, <1>10, AutoPullAssumption DEF LastPush
  <2>2. CASE n = branchPushes[b]
    BY <1>2, <1>10, <2>1, <2>2
  <2>3. CASE n # branchPushes[b]
    <3>1. pushPc[b][branchPushes[b]] \in {"ignored", "opened", "refused"}
      BY <1>2, <1>10, <2>1, <2>3
    <3>2. pulls[b] > 0 \/ b \in closedSince
      BY <1>10, <2>1, <3>1 DEF AutoPullInv, PushedIsPulled, IsPulled
    <3>3. QED BY <1>3, <3>2
  <2>4. QED BY <2>2, <2>3
<1>11. QED BY <1>3, <1>4, <1>5, <1>7, <1>8, <1>9, <1>10, OneBranch

LEMMA AutoPullNextInv == AutoPullInv /\ [AutoPullNext]_autoPullVars => AutoPullInv'
<1>1. ASSUME AutoPullInv, NEW b \in Branches, NEW n \in 1..MaxBranchPushes, RedeliverPush(b, n)
      PROVE  AutoPullInv'
  BY <1>1, EventOfPushInv DEF RedeliverPush
<1>2. ASSUME AutoPullInv, NEW b \in Branches, NEW n \in 1..MaxBranchPushes, IgnorePush(b, n)
      PROVE  AutoPullInv'
  BY <1>2, EventOfPushInv DEF IgnorePush, Pulls, LastPush
<1>3. ASSUME AutoPullInv, NEW b \in Branches, NEW n \in 1..MaxBranchPushes,
             CreatePullRequestFromPush(b, n)
      PROVE  AutoPullInv'
  <2>1. /\ UNCHANGED <<ahead, branchPushes, closedSince, pushed>>
        /\ b \in PullBranches /\ pushPc[b][n] # "none"
    BY <1>3 DEF CreatePullRequestFromPush, Pulls
  <2>2. /\ pulls \in [Branches -> Nat]
        /\ n = branchPushes[b] /\ LastPush(b) = "commits" /\ b \notin closedSince => ahead[b]
    BY <1>3 DEF AutoPullInv, AutoPullTypeOK, StaysAhead
  <2>3. CASE pulls' = [pulls EXCEPT ![b] = 1] /\ EndPush(b, n, "opened")
    <3>1. pulls'[b] > 0
      BY <2>2, <2>3
    <3>2. QED BY <1>3, <2>1, <2>3, <3>1, EventOfPushInv
  <2>4. CASE (~ahead[b] \/ pulls[b] > 0) /\ pulls' = pulls /\ EndPush(b, n, "refused")
    BY <1>3, <2>1, <2>2, <2>4, EventOfPushInv
  <2>5. CASE (pulls' = pulls \/ pulls' = [pulls EXCEPT ![b] = 1]) /\ EndPush(b, n, "failed")
    BY <1>3, <2>1, <2>5, EventOfPushInv
  <2>6. QED BY <1>3, <2>3, <2>4, <2>5 DEF CreatePullRequestFromPush
<1>4. AutoPullInv /\ AutoPullNext => AutoPullInv'
  BY <1>1, <1>2, <1>3, PushBranchInv, ClosePullInv DEF AutoPullNext
<1>5. AutoPullInv /\ UNCHANGED autoPullVars => AutoPullInv'
  BY DEF autoPullVars, AutoPullInv, AutoPullTypeOK, NotYetPushed, StaysAhead, PushedIsPulled,
         LastPush, IsPulled
<1>6. QED BY <1>4, <1>5

\* A branch of the prefix whose last push had commits, and has been handled without an
\* error, has its pull request, unless people closed it after that push, for any number
\* of branches, pushes and deliveries, late and repeated ones included
\* (autopull.go:41-53, 87-90).
THEOREM PushesArePulled == AutoPullSpec => []PushedIsPulled
<1>1. AutoPullInv => PushedIsPulled
  BY DEF AutoPullInv
<1>2. QED BY <1>1, AutoPullInitInv, AutoPullNextInv, PTL DEF AutoPullSpec
=============================================================================
