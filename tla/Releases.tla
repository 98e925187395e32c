-------------------------------- MODULE Releases --------------------------------
(***************************************************************************)
(* chlog/create_release_on_tag.go and chlog/close_milestone_on_release.go: *)
(* a pushed version tag becomes a release whose text is that version's     *)
(* section of History.markdown, and a published release, the bot's or one  *)
(* of people, closes the milestone of its name.  The file is an external   *)
(* process here: merges add lines to the section HEAD (MergeAndLabel), and *)
(* maintainers turn HEAD into the section of a version before they tag it, *)
(* or forget to.  What people make of a release after it is published is   *)
(* not modelled: the handler ignores the events of it.                     *)
(* The default branch is master, which the code takes when it cannot look  *)
(* it up.                                                                  *)
(***************************************************************************)
EXTENDS Calls, FiniteSets

CONSTANTS
  ChangeLines,  \* lines of History.markdown
  FullTags,     \* tags such as v4.1.0
  PreTags,      \* tags such as v4.1.0.pre.beta1
  MaxTags,      \* bound: tags that are pushed
  MaxRedelivered, \* bound: events that are delivered again
  MaxByHand,    \* bound: what people do to releases and milestones
  NoNotes

VARIABLES
  section,    \* section[l]: "none", "HEAD" or the tag whose section line l is in
  headings,   \* sections that the file has
  tagged,
  published,  \* published[t]: what t was released as: "none", "pre" or "full"
  releases,   \* releases[t]: the lines in the text of the bot's release of t, or NoNotes
  milestones, \* open milestones, by title
  redelivered,
  byHand,
  linesAtTag, \* history: linesAtTag[t]: lines of t's section when t was pushed
  shut,       \* history: milestones that the bot has closed
  openedAgain,   \* history: milestones that people opened again after their release's
              \* handler listed them
  tagPc, tagNotes,     \* of CreateReleaseOnTagHandler for t
  releasePc, toClose   \* of CloseMilestoneOnRelease for the release of t

file == <<section, headings>>
tags == <<tagged, redelivered, byHand, linesAtTag>>
out == <<published, releases>>
titles == <<milestones, shut, openedAgain>>
releaseVars == <<file, tags, out, titles, tagPc, tagNotes, releasePc, toClose>>

Tags == FullTags \cup PreTags

ASSUME ReleasesAssumption ==
  /\ FullTags \cap PreTags = {}
  /\ {"HEAD", "none"} \cap Tags = {}
  /\ \A lines \in SUBSET ChangeLines : lines # NoNotes

LinesOf(s) == {l \in ChangeLines : section[l] = s}

ReleasesInit ==
  /\ section = [l \in ChangeLines |-> "none"]
  /\ headings = {"HEAD"}
  /\ tagged = {}
  /\ published = [t \in Tags |-> "none"]
  /\ releases = [t \in Tags |-> NoNotes]
  /\ milestones = Tags /\ shut = {} /\ openedAgain = {}
  /\ redelivered = 0 /\ byHand = 0
  /\ linesAtTag = [t \in Tags |-> {}]
  /\ tagPc = [t \in Tags |-> "none"]
  /\ tagNotes = [t \in Tags |-> NoNotes]
  /\ releasePc = [t \in Tags |-> "none"]
  /\ toClose = [t \in Tags |-> {}]

(***************************************************************************)
(* Merges, maintainers and GitHub                                          *)
(***************************************************************************)
AddLine(l) ==
  /\ section[l] = "none"
  /\ section' = [section EXCEPT ![l] = "HEAD"]
  /\ headings' = headings \cup {"HEAD"}

CutVersion(t) ==
  /\ "HEAD" \in headings
  /\ t \notin headings
  /\ section' = [l \in ChangeLines |-> IF section[l] = "HEAD" THEN t ELSE section[l]]
  /\ headings' = (headings \ {"HEAD"}) \cup {t}

EditHistory ==
  /\ (\E l \in ChangeLines : AddLine(l)) \/ (\E t \in FullTags : CutVersion(t))
  /\ UNCHANGED <<tags, out, titles, tagPc, tagNotes, releasePc, toClose, errors>>

Tag(t) ==
  /\ Cardinality(tagged) < MaxTags
  /\ tagged' = tagged \cup {t}
  /\ linesAtTag' = [linesAtTag EXCEPT ![t] = LinesOf(t)]
  /\ tagPc' = [tagPc EXCEPT ![t] = "delivered"]

PushTag(t) ==
  /\ t \notin tagged /\ Tag(t)
  /\ UNCHANGED <<file, redelivered, byHand, out, titles, tagNotes, releasePc, toClose, errors>>

DeliverAgain ==
  /\ redelivered < MaxRedelivered
  /\ redelivered' = redelivered + 1
  /\ UNCHANGED <<file, tagged, byHand, linesAtTag, out, titles, tagNotes, toClose, errors>>

RedeliverTag(t) ==
  /\ tagPc[t] = "done" /\ DeliverAgain
  /\ tagPc' = [tagPc EXCEPT ![t] = "delivered"]
  /\ UNCHANGED releasePc

RedeliverRelease(t) ==
  /\ releasePc[t] \in {"done", "failed"} /\ DeliverAgain
  /\ releasePc' = [releasePc EXCEPT ![t] = "published"]
  /\ UNCHANGED tagPc

\* A release comes out; its event reaches CloseMilestoneOnRelease.  GitHub refuses a
\* second release for a tag.
PublishRelease(t, kind) ==
  /\ published[t] = "none"
  /\ published' = [published EXCEPT ![t] = kind]
  /\ releasePc' = [releasePc EXCEPT ![t] = "published"]

ByHand == byHand < MaxByHand /\ byHand' = byHand + 1

\* People tick "pre-release" or not, whatever the tag; a tag that is not there is made.
PublishByHand(t) ==
  /\ ByHand
  /\ \E kind \in {"pre", "full"} : PublishRelease(t, kind)
  /\ \/ t \in tagged /\ UNCHANGED <<tagged, linesAtTag, tagPc>>
     \/ t \notin tagged /\ Tag(t)
  /\ UNCHANGED <<file, redelivered, releases, titles, tagNotes, toClose, errors>>

EditMilestoneByHand(t) ==
  /\ ByHand
  /\ \/ t \in milestones /\ milestones' = milestones \ {t} /\ UNCHANGED openedAgain
     \/ t \notin milestones /\ milestones' = milestones \cup {t} /\ openedAgain' = openedAgain \cup {t}
  /\ UNCHANGED <<file, tagged, redelivered, linesAtTag, out, shut, tagPc, tagNotes, releasePc,
                 toClose, errors>>

ReleaseEnvironment ==
  \/ EditHistory
  \/ \E t \in Tags :
       \/ PushTag(t) \/ RedeliverTag(t) \/ RedeliverRelease(t)
       \/ PublishByHand(t) \/ EditMilestoneByHand(t)

(***************************************************************************)
(* CreateReleaseOnTagHandler                                               *)
(***************************************************************************)
GotoTag(t, from, to) == tagPc[t] = from /\ tagPc' = [tagPc EXCEPT ![t] = to]

\* Mutant of desiredRef: the section HEAD is taken for every tag.
desiredRef_Head(t) == "HEAD"

desiredRef(t) == IF t \in PreTags THEN "HEAD" ELSE t

\* The file is read; one that cannot be read has no versions.
ReadHistory(t) ==
  /\ \/ /\ GotoTag(t, "delivered", "read")
        /\ desiredRef(t) \in headings
        /\ tagNotes' = [tagNotes EXCEPT ![t] = LinesOf(desiredRef(t))]
        /\ UNCHANGED errors
     \/ GotoTag(t, "delivered", "done") /\ desiredRef(t) \notin headings /\ UNCHANGED <<tagNotes, errors>>
     \/ GotoTag(t, "delivered", "done") /\ Fail /\ UNCHANGED tagNotes
  /\ UNCHANGED <<file, tags, out, titles, releasePc, toClose>>

kindOf(t) == IF t \in PreTags THEN "pre" ELSE "full"

\* Errors, such as the refusal of a second release, are logged only.
CreateRelease(t) ==
  /\ GotoTag(t, "read", "done")
  /\ \/ /\ PublishRelease(t, kindOf(t)) /\ Applied
        /\ releases' = [releases EXCEPT ![t] = tagNotes[t]]
     \/ published[t] # "none" /\ UNCHANGED <<out, releasePc, errors>>
     \/ Fail /\ UNCHANGED <<out, releasePc>>
  /\ tagNotes' = [tagNotes EXCEPT ![t] = NoNotes]
  /\ UNCHANGED <<file, tags, titles, toClose>>

(***************************************************************************)
(* CloseMilestoneOnRelease                                                 *)
(***************************************************************************)
GotoRelease(t, from, to) == releasePc[t] = from /\ releasePc' = [releasePc EXCEPT ![t] = to]

\* Mutant of ClosesMilestone: the name of the tag decides, as in CreateRelease.
ClosesMilestone_ByTag(t) == kindOf(t) = "full"

ClosesMilestone(t) == published[t] = "full"

ListMilestones(t) ==
  /\ \/ /\ GotoRelease(t, "published", "done") /\ ~ClosesMilestone(t)
        /\ UNCHANGED <<toClose, openedAgain, errors>>
     \/ /\ GotoRelease(t, "published", "close") /\ ClosesMilestone(t)
        /\ toClose' = [toClose EXCEPT ![t] = milestones \cap {t}]
        /\ openedAgain' = openedAgain \ {t}
        /\ UNCHANGED errors
     \/ /\ GotoRelease(t, "published", "failed") /\ ClosesMilestone(t)
        /\ Fail /\ UNCHANGED <<toClose, openedAgain>>
  /\ UNCHANGED <<file, tags, out, milestones, shut, tagPc, tagNotes>>

CloseMilestones(t) ==
  LET closes == milestones' = milestones \ toClose[t] /\ shut' = shut \cup toClose[t]
  IN /\ \/ GotoRelease(t, "close", "done") /\ closes /\ UNCHANGED errors
        \/ /\ GotoRelease(t, "close", "failed") /\ toClose[t] # {} /\ Fail
           /\ closes \/ UNCHANGED <<milestones, shut>>
     /\ toClose' = [toClose EXCEPT ![t] = {}]
     /\ UNCHANGED <<file, tags, out, openedAgain, tagPc, tagNotes>>

ReleasesNext ==
  \/ ReleaseEnvironment
  \/ \E t \in Tags :
       ReadHistory(t) \/ CreateRelease(t) \/ ListMilestones(t) \/ CloseMilestones(t)

ReleasesSpec == ReleasesInit /\ [][ReleasesNext]_releaseVars

(***************************************************************************)
(* The inductive invariant: what a handler has read of the file for a      *)
(* version stays between the version's lines at the tag and those of now.  *)
(***************************************************************************)
ReleasesTypeOK ==
  /\ section \in [ChangeLines -> Tags \cup {"HEAD", "none"}]
  /\ headings \subseteq Tags \cup {"HEAD"}
  /\ tagged \subseteq Tags
  /\ {milestones, shut, openedAgain} \subseteq SUBSET Tags
  /\ published \in [Tags -> {"none", "pre", "full"}]
  /\ releases \in [Tags -> {NoNotes} \cup SUBSET ChangeLines]
  /\ linesAtTag \in [Tags -> SUBSET ChangeLines]
  /\ tagPc \in [Tags -> {"none", "delivered", "read", "done"}]
  /\ tagNotes \in [Tags -> {NoNotes} \cup SUBSET ChangeLines]
  /\ releasePc \in [Tags -> {"none", "published", "close", "done", "failed"}]
  /\ toClose \in [Tags -> SUBSET Tags]

IsVersion(notes, t) == linesAtTag[t] \subseteq notes /\ notes \subseteq LinesOf(t)

NotesRead ==
  \A t \in Tags :
    /\ tagPc[t] # "none" => t \in tagged
    /\ linesAtTag[t] \subseteq LinesOf(t)
    /\ tagPc[t] = "read" => tagNotes[t] # NoNotes /\ (t \in FullTags => IsVersion(tagNotes[t], t))
    /\ releases[t] # NoNotes => t \in tagged

ClosesOwn ==
  \A t \in Tags :
    /\ releasePc[t] # "none" => published[t] # "none"
    /\ releasePc[t] = "close" => /\ published[t] = "full"
                                 /\ t \in milestones => t \in toClose[t] \cup openedAgain
    /\ toClose[t] \subseteq {t}
    /\ toClose[t] # {} => releasePc[t] = "close"
    /\ releases[t] # NoNotes => published[t] = kindOf(t)

\* A release of the bot has the lines that its version had when the tag was pushed,
\* and no line of another version, whatever is merged, cut or delivered again while
\* the handler runs (create_release_on_tag.go:29-49).  Pre-releases, which announce
\* what is in HEAD, are not meant.
NotesAreTheVersion ==
  \A t \in FullTags :
    releases[t] # NoNotes =>
      linesAtTag[t] \subseteq releases[t] /\ releases[t] \subseteq LinesOf(t)

\* The bot closes the milestone of a full release and of no pre-release, the bot's or
\* one of people who tick "pre-release" as they like, never that of a tag such as
\* v4.1.0.pre.beta1 which it has released itself; and once it has dealt with a full
\* release without an error, the milestone is closed, unless people opened it again
\* since (create_release_on_tag.go:28, 59, close_milestone_on_release.go:14-42).
MilestonesFollowReleases ==
  \A t \in Tags :
    /\ t \in shut => published[t] = "full" /\ (t \in PreTags => releases[t] = NoNotes)
    /\ published[t] = "full" /\ releasePc[t] = "done" => t \notin milestones \/ t \in openedAgain

ReleasesInv ==
  ReleasesTypeOK /\ NotesRead /\ ClosesOwn /\ NotesAreTheVersion /\ MilestonesFollowReleases
=============================================================================
