---------------------------- MODULE Jekyllbot_proofs ----------------------------
(***************************************************************************)
(* Proofs about the composition: what a part does alone it does in it,     *)
(* the three parts that file issues keep one open issue on a subject, and  *)
(* all their invariants hold together, however the parts are interleaved.  *)
(***************************************************************************)
EXTENDS Jekyllbot, Handlers_proofs, Commands_proofs

-----------------------------------------------------------------------------
(***************************************************************************)
(* The parts                                                               *)
(***************************************************************************)
\* A step of the bot is a step of a part or leaves its variables alone.
LEMMA PartSteps ==
  ASSUME [JekyllbotNext]_jekyllbotVars
  PROVE  /\ [NudgeNext]_nudgeVars /\ [DepNext]_depVars /\ [FreezeNext]_freezeVars /\ [UnifyStep]_unifyVars
         /\ [ReleasesNext]_releaseVars /\ [LabelerNext]_labelerVars /\ [DispatchNext]_dispatchVars
         /\ [DeprecateNext]_deprecateVars /\ [AutoPullNext]_autoPullVars
<1>1. CASE UNCHANGED jekyllbotVars
  BY <1>1 DEF jekyllbotVars
<1>2. CASE FmtPart(FmtNext \/ (Issues /\ UNCHANGED fmtVars))
  BY <1>2 DEF FmtPart, commands, handlers, small
<1>3. CASE NudgePart(NudgeNext \/ (Issues /\ UNCHANGED nudgeVars))
  BY <1>3 DEF NudgePart, commands, handlers, small
<1>4. CASE DepPart(DepNext \/ (Issues /\ UNCHANGED depVars))
  BY <1>4 DEF DepPart, commands, handlers, small
<1>5. CASE FreezePart(FreezeNext)
  BY <1>5 DEF FreezePart, jobs, handlers, small
<1>6. CASE UnifyPart(UnifyStep)
  BY <1>6 DEF UnifyPart, jobs, handlers, small
<1>7. CASE DispatchPart(DispatchNext)
  BY <1>7 DEF DispatchPart, jobs, commands, small
<1>8. CASE SmallPart
  BY <1>8 DEF SmallPart, jobs, commands
<1>9. QED BY <1>1, <1>2, <1>3, <1>4, <1>5, <1>6, <1>7, <1>8 DEF JekyllbotNext

\* The specification of each part holds of the bot.
THEOREM PartsCompose ==
  JekyllbotSpec =>
    /\ NudgeSpec /\ DepSpec /\ FreezeSpec /\ UnifySpec /\ ReleasesSpec
    /\ LabelerSpec /\ DispatchSpec /\ DeprecateSpec /\ AutoPullSpec
<1>1. JekyllbotInit => /\ NudgeInit /\ DepInit /\ FreezeInit /\ UnifyInit /\ ReleasesInit
                       /\ LabelerInit /\ DispatchInit /\ DeprecateInit /\ AutoPullInit
  BY DEF JekyllbotInit
<1>2. QED BY <1>1, PartSteps, PTL
      DEF JekyllbotSpec, NudgeSpec, DepSpec, FreezeSpec, UnifySpec, ReleasesSpec,
          LabelerSpec, DispatchSpec, DeprecateSpec, AutoPullSpec

\* What was proved of the parts holds of the bot: what it files, freezes, announces,
\* closes, labels, unifies and opens is what the code looked for first.
THEOREM PartsAreRight ==
  JekyllbotSpec =>
    [](/\ NudgedWasDue /\ FiledWasOutdated /\ FrozenWereAncient /\ UnifiedWhenDone
       /\ NotesAreTheVersion /\ MilestonesFollowReleases /\ UnlabelledMerged
       /\ ActsOnce /\ StopsHaveTheirCause /\ ClosedWereTold /\ PushedIsPulled)
BY PartsCompose, NudgesAreDue, FiledAreOutdated, OnlyAncientFreeze, UnifiedLabels, ReleaseNotes,
   MilestonesClosed, LabelsComeOff, ActAtMostOnce, CausesOfStops, ClosedAreToldWhy, PushesArePulled, PTL

-----------------------------------------------------------------------------
(***************************************************************************)
(* Issues filed once: the three parts that search before they create       *)
(***************************************************************************)
\* What a step may do to the issues of others without disturbing them.
LeavesAlone(s) == opened[s] = 0 => opened'[s] = 0

LEMMA SubjectsDiffer ==
  /\ \A r, q : NudgeSubject(r) # FmtSubject(q)
  /\ \A r, g, v : NudgeSubject(r) # DepSubject(g, v) /\ FmtSubject(r) # DepSubject(g, v)
  /\ \A r, q : NudgeSubject(r) = NudgeSubject(q) => r = q
  /\ \A r, q : FmtSubject(r) = FmtSubject(q) => r = q
  /\ \A g, v, h, w : DepSubject(g, v) = DepSubject(h, w) => g = h /\ v = w
BY DEF NudgeSubject, FmtSubject, DepSubject

LEMMA NudgeRests ==
  ASSUME NudgeReady, UNCHANGED nudgePc, unseen \subseteq unseen',
         \A r \in NudgeRepos : LeavesAlone(NudgeSubject(r))
  PROVE  NudgeReady'
BY DEF NudgeReady, LeavesAlone

LEMMA LateIsSubject ==
  ASSUME DepTypeOK, NEW c \in Checkers, gem[c] \in Gems, IsLate(c, gem[c])
  PROVE  Late(c) \in Subjects
<1>1. known[c][gem[c]] \in 1..MaxGem
  BY DepAssumption DEF DepTypeOK, IsLate
<1>2. QED BY <1>1, DepAssumption DEF Late

LEMMA DepRests ==
  ASSUME DepReady, UNCHANGED <<checkPc, gem, known>>, unseen \subseteq unseen',
         \A c \in Checkers : checkPc[c] = "create" => LeavesAlone(Late(c))
  PROVE  DepReady'
<1>1. \A c \in Checkers : Late(c)' = Late(c)
  BY DEF Late
<1>2. QED BY <1>1 DEF DepReady, LeavesAlone

LEMMA FmtRests ==
  ASSUME FmtInv, IssuesTypeOK, IssuesTypeOK', UNCHANGED fmtVars, unseen \subseteq unseen',
         \A r \in FmtRepos : LeavesAlone(FmtSubject(r))
  PROVE  FmtInv'
<1>1. FmtTypeOK' /\ FmtInFlight' = FmtInFlight
  BY DEF FmtInv, FmtTypeOK, FmtInFlight, fmtVars
<1>2. WorksOnFailure'
  BY <1>1 DEF FmtInv, WorksOnFailure, fmtVars
<1>3. FmtReady'
  <2>1. \A e \in FmtEvents : fmtPc[e] = "create" => ctxRepo \in FmtRepos
    BY DEF FmtInv, WorksOnFailure, FmtInFlight
  <2>2. QED BY <2>1 DEF FmtInv, FmtReady, LeavesAlone, fmtVars
<1>4. BlamedBuildFailed'
  <2>1. \A r \in FmtRepos : opened[FmtSubject(r)] \in Nat /\ opened'[FmtSubject(r)] \in Nat
    BY FmtAssumption DEF IssuesTypeOK
  <2>2. QED BY <2>1 DEF FmtInv, BlamedBuildFailed, LeavesAlone
<1>5. QED BY <1>1, <1>2, <1>3, <1>4 DEF FmtInv

\* An issue that is created where there is none, or where one was not seen.
LEMMA CreateOnce ==
  ASSUME IssuesTypeOK, OneOpenIssue, NEW s \in Subjects, CreateIssue(s) \/ UNCHANGED opened,
         UNCHANGED <<indexed, closes, unseen>>, opened[s] = 0 \/ s \in unseen
  PROVE  /\ IssuesTypeOK' /\ OneOpenIssue'
         /\ \A t \in Subjects : t # s => opened'[t] = opened[t]
         /\ opened'[s] \in Nat
<1>1. opened \in [Subjects -> Nat] /\ opened[s] + 1 \in Nat
  BY DEF IssuesTypeOK
<1>2. opened' = opened \/ opened' = [opened EXCEPT ![s] = opened[s] + 1]
  BY <1>1 DEF CreateIssue
<1>3. opened' \in [Subjects -> Nat]
  BY <1>1, <1>2
<1>4. \A t \in Subjects : t # s => opened'[t] = opened[t]
  BY <1>1, <1>2
<1>5. opened[s] = 0 => opened'[s] <= 1
  BY <1>1, <1>2
<1>6. OneOpenIssue'
  BY <1>4, <1>5 DEF OneOpenIssue
<1>7. QED BY <1>3, <1>4, <1>6 DEF IssuesTypeOK

\* A job that goes on to create has seen that there is no issue, or it is noted.
LEMMA GoesOnUnseen ==
  ASSUME IssuesTypeOK, OneOpenIssue, NEW s \in Subjects, NEW others, GoesOn(s, FALSE, others),
         UNCHANGED <<opened, indexed, closes>>
  PROVE  /\ IssuesTypeOK' /\ OneOpenIssue' /\ unseen \subseteq unseen'
         /\ s \notin unseen' => opened[s] = 0 /\ others = {}
<1>1. opened[s] \in Nat
  BY DEF IssuesTypeOK
<1>2. unseen' = IF opened[s] > 0 \/ others # {} THEN unseen \cup {s} ELSE unseen
  BY DEF GoesOn
<1>3. QED BY <1>1, <1>2 DEF IssuesTypeOK, OneOpenIssue

LEMMA FilingInit == JekyllbotInit => FilingInv
<1>1. ASSUME JekyllbotInit
      PROVE  IssuesTypeOK /\ OneOpenIssue /\ NudgeReady /\ DepReady
  BY <1>1 DEF JekyllbotInit, IssuesInit, NudgeInit, DepInit, IssuesTypeOK, OneOpenIssue, NudgeReady, DepReady
<1>2. ASSUME JekyllbotInit
      PROVE  FmtInv
  <2>1. FmtInFlight = {} /\ FmtTypeOK
    BY <1>2 DEF JekyllbotInit, FmtInit, FmtInFlight, FmtTypeOK
  <2>2. FmtReady
    BY <1>2 DEF JekyllbotInit, FmtInit, FmtReady
  <2>3. \A r \in FmtRepos : opened[FmtSubject(r)] = 0
    BY <1>2, FmtAssumption DEF JekyllbotInit, IssuesInit
  <2>4. QED BY <2>1, <2>2, <2>3 DEF FmtInv, WorksOnFailure, BlamedBuildFailed
<1>3. QED BY <1>1, <1>2 DEF FilingInv

\* The index catches up, and people close issues.
LEMMA IssuesFiling ==
  ASSUME FilingInv, DepTypeOK, FoundAreLate, Issues, UNCHANGED <<fmtVars, nudgeVars, depVars>>
  PROVE  FilingInv'
<1>1. PICK s \in Subjects : IndexIssues(s) \/ CloseIssue(s)
  BY DEF Issues
<1>2. /\ opened \in [Subjects -> Nat] /\ indexed \in [Subjects -> Nat]
      /\ closes \in Nat /\ unseen \subseteq Subjects
  BY DEF FilingInv, IssuesTypeOK
<1>3. opened' = opened \/ (opened[s] > 0 /\ opened' = [opened EXCEPT ![s] = opened[s] - 1])
  BY <1>1 DEF IndexIssues, CloseIssue
<1>4. opened' \in [Subjects -> Nat] /\ \A t \in Subjects : opened'[t] <= opened[t]
  <2>1. opened[s] > 0 => opened[s] - 1 \in Nat
    BY <1>2
  <2>2. QED BY <1>2, <1>3, <2>1
<1>5. unseen' = unseen
  BY <1>1 DEF IndexIssues, CloseIssue
<1>6. IssuesTypeOK'
  <2>1. indexed' \in [Subjects -> Nat] /\ closes' \in Nat
    BY <1>1, <1>2 DEF IndexIssues, CloseIssue
  <2>2. QED BY <1>2, <1>4, <1>5, <2>1 DEF IssuesTypeOK
<1>7. OneOpenIssue'
  BY <1>2, <1>4, <1>5 DEF FilingInv, OneOpenIssue
<1>8. \A t \in Subjects : LeavesAlone(t)
  BY <1>2, <1>4 DEF LeavesAlone
<1>9. NudgeReady'
  BY <1>5, <1>8, NudgeRests, NudgeAssumption DEF FilingInv, nudgeVars
<1>10. DepReady'
  <2>1. \A c \in Checkers : checkPc[c] = "create" => Late(c) \in Subjects
    BY LateIsSubject DEF DepTypeOK, FoundAreLate
  <2>2. QED BY <1>5, <1>8, <2>1, DepRests DEF FilingInv, depVars, depJob
<1>11. FmtInv'
  BY <1>5, <1>6, <1>8, FmtRests, FmtAssumption DEF FilingInv
<1>12. QED BY <1>6, <1>7, <1>9, <1>10, <1>11 DEF FilingInv


\* The nudge to release.
LEMMA NudgeFiling ==
  ASSUME FilingInv, NudgeTypeOK, DepTypeOK, FoundAreLate, NudgeNext, UNCHANGED <<fmtVars, depVars>>
  PROVE  FilingInv'
<1>1. ASSUME IssuesTypeOK', OneOpenIssue', NudgeReady', unseen \subseteq unseen',
             \A s \in Subjects : LeavesAlone(s) \/ \E r \in NudgeRepos : s = NudgeSubject(r)
      PROVE  FilingInv'
  <2>1. FmtInv'
    <3>1. \A q \in FmtRepos : LeavesAlone(FmtSubject(q))
      BY <1>1, FmtAssumption, SubjectsDiffer
    <3>2. QED BY <1>1, <3>1, FmtRests DEF FilingInv
  <2>2. DepReady'
    <3>1. \A c \in Checkers : checkPc[c] = "create" => Late(c) \in Subjects
      BY LateIsSubject DEF DepTypeOK, FoundAreLate
    <3>2. \A c \in Checkers : checkPc[c] = "create" => LeavesAlone(Late(c))
      BY <1>1, <3>1, SubjectsDiffer DEF Late
    <3>3. QED BY <1>1, <3>2, DepRests DEF FilingInv, depVars, depJob
  <2>3. QED BY <1>1, <2>1, <2>2 DEF FilingInv
<1>2. ASSUME UNCHANGED issueVars, \A r \in NudgeRepos : nudgePc'[r] = "create" => nudgePc[r] = "create"
      PROVE  FilingInv'
  <2>1. NudgeReady' /\ IssuesTypeOK' /\ OneOpenIssue'
    BY <1>2 DEF FilingInv, NudgeReady, IssuesTypeOK, OneOpenIssue, issueVars
  <2>2. QED BY <1>1, <1>2, <2>1 DEF LeavesAlone, issueVars
<1>3. ASSUME NEW r \in NudgeRepos, Repository(r)
      PROVE  FilingInv'
  BY <1>2, <1>3 DEF Repository
<1>4. CASE StartNudge
  BY <1>2, <1>4 DEF StartNudge
<1>5. ASSUME NEW r \in NudgeRepos, LatestRelease(r) \/ CommitsSinceRelease(r)
      PROVE  FilingInv'
  <2>1. UNCHANGED issueVars
    BY <1>5 DEF LatestRelease, CommitsSinceRelease
  <2>2. \/ \E to \in {"count", "search", "idle"} : nudgePc' = [nudgePc EXCEPT ![r] = to]
        \/ nudgePc' = [q \in NudgeRepos |-> "idle"]
    BY <1>5 DEF LatestRelease, CommitsSinceRelease, EndNudge, GotoNudge
  <2>3. QED BY <1>2, <2>1, <2>2 DEF NudgeTypeOK
<1>6. ASSUME NEW r \in NudgeRepos, getReleaseNudgeIssue(r)
      PROVE  FilingInv'
  <2>1. UNCHANGED <<opened, indexed, closes>>
    BY <1>6 DEF getReleaseNudgeIssue
  <2>2. CASE EndNudge(r, "search") /\ unseen' = unseen
    BY <1>2, <2>1, <2>2 DEF EndNudge, GotoNudge, NudgeTypeOK, issueVars
  <2>3. CASE GotoNudge(r, "search", "create") /\ GoesOn(NudgeSubject(r), FALSE, {})
    <3>1. /\ IssuesTypeOK' /\ OneOpenIssue' /\ unseen \subseteq unseen'
          /\ NudgeSubject(r) \notin unseen' => opened[NudgeSubject(r)] = 0
      BY <2>1, <2>3, GoesOnUnseen, NudgeAssumption DEF FilingInv
    <3>2. \A q \in NudgeRepos \ {r} : nudgePc'[q] = nudgePc[q]
      BY <2>3 DEF GotoNudge, NudgeTypeOK
    <3>3. NudgeReady'
      BY <2>1, <3>1, <3>2 DEF FilingInv, NudgeReady
    <3>4. \A s : LeavesAlone(s)
      BY <2>1 DEF LeavesAlone
    <3>5. QED BY <1>1, <3>1, <3>3, <3>4
  <2>4. QED BY <1>6, <2>2, <2>3 DEF getReleaseNudgeIssue
<1>7. ASSUME NEW r \in NudgeRepos, fileIssue(r)
      PROVE  FilingInv'
  <2>1. /\ CreateIssue(NudgeSubject(r)) \/ UNCHANGED opened
        /\ UNCHANGED <<indexed, closes, unseen>>
        /\ nudgePc[r] = "create" /\ nudgePc' = [nudgePc EXCEPT ![r] = "idle"]
    BY <1>7 DEF fileIssue, EndNudge, GotoNudge
  <2>2. opened[NudgeSubject(r)] = 0 \/ NudgeSubject(r) \in unseen
    BY <2>1 DEF FilingInv, NudgeReady
  <2>3. /\ IssuesTypeOK' /\ OneOpenIssue'
        /\ \A t \in Subjects : t # NudgeSubject(r) => opened'[t] = opened[t]
    BY <2>1, <2>2, CreateOnce, NudgeAssumption DEF FilingInv
  <2>4. \A q \in NudgeRepos : nudgePc'[q] = "create" => q # r /\ nudgePc[q] = "create"
    BY <2>1 DEF NudgeTypeOK
  <2>5. NudgeReady'
    BY <2>1, <2>3, <2>4, NudgeAssumption, SubjectsDiffer DEF FilingInv, NudgeReady
  <2>6. QED BY <1>1, <2>1, <2>3, <2>5 DEF LeavesAlone
<1>8. QED BY <1>3, <1>4, <1>5, <1>6, <1>7 DEF NudgeNext, NudgeStep


\* The failing fmt build: what the others need.
LEMMA FmtOthers ==
  ASSUME FilingInv, DepTypeOK, FoundAreLate, UNCHANGED <<nudgeVars, depVars>>,
         IssuesTypeOK', OneOpenIssue', FmtInv', unseen \subseteq unseen',
         \A s \in Subjects : LeavesAlone(s) \/ \E q : s = FmtSubject(q)
  PROVE  FilingInv'
<1>1. \A r \in NudgeRepos : LeavesAlone(NudgeSubject(r))
  BY NudgeAssumption, SubjectsDiffer
<1>2. NudgeReady'
  BY <1>1, NudgeRests DEF FilingInv, nudgeVars
<1>3. \A c \in Checkers : checkPc[c] = "create" => Late(c) \in Subjects
  BY LateIsSubject DEF DepTypeOK, FoundAreLate
<1>4. \A c \in Checkers : checkPc[c] = "create" => LeavesAlone(Late(c))
  BY <1>3, SubjectsDiffer DEF Late
<1>5. DepReady'
  BY <1>4, DepRests DEF FilingInv, depVars, depJob
<1>6. QED BY <1>2, <1>5 DEF FilingInv

\* A handler that moves on, in the repository that it was in.
LEMMA FmtMoves ==
  ASSUME FilingInv, DepTypeOK, FoundAreLate,
         UNCHANGED <<nudgeVars, depVars, ctxRepo, opened, indexed, closes>>,
         IssuesTypeOK', OneOpenIssue', unseen \subseteq unseen',
         NEW e \in FmtEvents, NEW to \in {"job", "search", "create", "done"},
         NEW job \in Nat, fmtPc' = [fmtPc EXCEPT ![e] = to], fmtJob' = [fmtJob EXCEPT ![e] = job],
         to # "done" => e \in FmtInFlight,
         to = "job" => job > 0,
         to \in {"search", "create"} => FmtJobFailed(e),
         to = "create" /\ FmtSubject(ctxRepo) \notin unseen' =>
           /\ opened[FmtSubject(ctxRepo)] = 0
           /\ \A o \in FmtEvents \ {e} : fmtPc[o] # "create"
  PROVE  FilingInv'
<1>1. FmtTypeOK /\ WorksOnFailure /\ FmtReady /\ BlamedBuildFailed /\ unseen \subseteq Subjects
      /\ unseen' \subseteq Subjects
  BY DEF FilingInv, FmtInv, IssuesTypeOK
<1>2. FmtTypeOK'
  BY <1>1 DEF FmtTypeOK
<1>3. \A o \in FmtEvents : fmtPc'[o] = IF o = e THEN to ELSE fmtPc[o]
  BY <1>1 DEF FmtTypeOK
<1>4. \A o \in FmtEvents : fmtJob'[o] = IF o = e THEN job ELSE fmtJob[o]
  BY <1>1 DEF FmtTypeOK
<1>5. FmtInFlight' \subseteq FmtInFlight
  BY <1>3 DEF FmtInFlight
<1>6. WorksOnFailure'
  <2>1. \A o \in FmtInFlight' :
          /\ IsMasterFailure(StatusOf[o])
          /\ ctxRepo \in FmtRepos /\ (ctxRepo = StatusOf[o].repo \/ FmtSubject(ctxRepo) \in unseen')
    BY <1>1, <1>5 DEF WorksOnFailure
  <2>2. \A o \in FmtInFlight' :
          /\ fmtPc'[o] = "job" => fmtJob'[o] > 0
          /\ fmtPc'[o] \in {"search", "create"} => FmtJobFailed(o)
    BY <1>1, <1>3, <1>4, <1>5 DEF WorksOnFailure, FmtInFlight
  <2>3. QED BY <2>1, <2>2 DEF WorksOnFailure
<1>7. FmtReady'
  BY <1>1, <1>3 DEF FmtReady
<1>8. BlamedBuildFailed'
  BY <1>1 DEF BlamedBuildFailed
<1>9. FmtInv' /\ \A s : LeavesAlone(s)
  BY <1>2, <1>6, <1>7, <1>8 DEF FmtInv, LeavesAlone
<1>10. QED BY <1>9, FmtOthers

\* The event's repository becomes that of the context.
LEMMA SetRepoFiling ==
  ASSUME FilingInv, DepTypeOK, FoundAreLate, UNCHANGED <<nudgeVars, depVars>>,
         NEW e \in FmtEvents, SetRepo(e)
  PROVE  FilingInv'
<1>1. /\ fmtPc[e] = "idle" /\ fmtPc' = [fmtPc EXCEPT ![e] = "build"] /\ IsMasterFailure(StatusOf[e])
      /\ ctxRepo' = StatusOf[e].repo /\ UNCHANGED <<fmtJob, opened, indexed, closes>>
      /\ unseen' = IF FmtInFlight # {} /\ ctxRepo # StatusOf[e].repo
                     THEN unseen \cup {FmtSubject(StatusOf[e].repo)} ELSE unseen
  BY DEF SetRepo, GotoFmt
<1>2. FmtTypeOK /\ WorksOnFailure /\ FmtReady /\ BlamedBuildFailed /\ unseen \subseteq Subjects
  BY DEF FilingInv, FmtInv, IssuesTypeOK
<1>3. ctxRepo' \in FmtRepos /\ \A r \in FmtRepos : FmtSubject(r) \in Subjects
  BY <1>1, FmtAssumption DEF FmtRepos
<1>4. IssuesTypeOK' /\ OneOpenIssue' /\ unseen \subseteq unseen'
  BY <1>1, <1>2, <1>3 DEF FilingInv, IssuesTypeOK, OneOpenIssue
<1>5. FmtTypeOK'
  BY <1>1, <1>2, <1>3 DEF FmtTypeOK
<1>6. \A o \in FmtEvents : fmtPc'[o] = IF o = e THEN "build" ELSE fmtPc[o]
  BY <1>1, <1>2 DEF FmtTypeOK
<1>7. FmtInFlight' \subseteq FmtInFlight \cup {e}
  BY <1>6 DEF FmtInFlight
<1>8. FmtInFlight # {} => ctxRepo' = ctxRepo \/ FmtSubject(ctxRepo') \in unseen'
  BY <1>1
<1>9. WorksOnFailure'
  <2>1. ASSUME NEW o \in FmtInFlight'
        PROVE  /\ IsMasterFailure(StatusOf[o])
               /\ ctxRepo' = StatusOf[o].repo \/ FmtSubject(ctxRepo)' \in unseen'
    <3>1. CASE o = e
      BY <1>1, <3>1
    <3>2. CASE o \in FmtInFlight
      BY <1>1, <1>2, <1>4, <1>8, <3>2 DEF WorksOnFailure, FmtSubject
    <3>3. QED BY <1>7, <2>1, <3>1, <3>2
  <2>2. \A o \in FmtInFlight' :
          /\ fmtPc'[o] = "job" => fmtJob'[o] > 0
          /\ fmtPc'[o] \in {"search", "create"} => FmtJobFailed(o)
    BY <1>1, <1>2, <1>6, <1>7 DEF WorksOnFailure, FmtInFlight
  <2>3. QED BY <1>3, <2>1, <2>2 DEF WorksOnFailure
<1>10. FmtReady'
  <2>1. ASSUME NEW o \in FmtEvents, fmtPc'[o] = "create", FmtSubject(ctxRepo)' \notin unseen'
        PROVE  /\ opened'[FmtSubject(ctxRepo)'] = 0
               /\ \A d \in FmtEvents \ {o} : fmtPc'[d] # "create"
    <3>1. o # e /\ fmtPc[o] = "create" /\ FmtInFlight # {}
      BY <1>6, <2>1 DEF FmtInFlight
    <3>2. ctxRepo' = ctxRepo
      BY <1>8, <2>1, <3>1 DEF FmtSubject
    <3>3. QED BY <1>1, <1>2, <1>4, <1>6, <2>1, <3>1, <3>2 DEF FmtReady, FmtSubject
  <2>2. QED BY <2>1 DEF FmtReady
<1>11. BlamedBuildFailed'
  BY <1>1, <1>2, <1>4 DEF BlamedBuildFailed
<1>12. FmtInv' /\ \A s : LeavesAlone(s)
  BY <1>1, <1>5, <1>9, <1>10, <1>11 DEF FmtInv, LeavesAlone
<1>13. QED BY <1>4, <1>12, FmtOthers

LEMMA CreateFmtFiling ==
  ASSUME FilingInv, DepTypeOK, FoundAreLate, UNCHANGED <<nudgeVars, depVars>>,
         NEW e \in FmtEvents, CreateFmt(e)
  PROVE  FilingInv'
<1> DEFINE s == FmtSubject(ctxRepo)
<1>1. /\ fmtPc[e] = "create" /\ fmtPc' = [fmtPc EXCEPT ![e] = "done"]
      /\ CreateIssue(s) \/ UNCHANGED opened
      /\ UNCHANGED <<fmtJob, ctxRepo, indexed, closes, unseen>>
  BY DEF CreateFmt, GotoFmt
<1>2. FmtTypeOK /\ WorksOnFailure /\ FmtReady /\ BlamedBuildFailed
  BY DEF FilingInv, FmtInv
<1>3. e \in FmtInFlight
  BY <1>1 DEF FmtInFlight
<1>4. ctxRepo \in FmtRepos /\ s \in Subjects
  BY <1>2, <1>3, FmtAssumption DEF WorksOnFailure
<1>5. opened[s] = 0 \/ s \in unseen
  BY <1>1, <1>2 DEF FmtReady
<1>6. IssuesTypeOK' /\ OneOpenIssue' /\ \A t \in Subjects : t # s => opened'[t] = opened[t]
  BY <1>1, <1>4, <1>5, CreateOnce DEF FilingInv
<1>7. \A o \in FmtEvents : fmtPc'[o] = IF o = e THEN "done" ELSE fmtPc[o]
  BY <1>1, <1>2 DEF FmtTypeOK
<1>8. FmtTypeOK' /\ FmtInFlight' = FmtInFlight \ {e}
  BY <1>1, <1>2, <1>7 DEF FmtTypeOK, FmtInFlight
<1>9. WorksOnFailure'
  BY <1>1, <1>2, <1>7, <1>8 DEF WorksOnFailure, FmtInFlight
<1>10. FmtReady'
  BY <1>1, <1>2, <1>7 DEF FmtReady
<1>11. BlamedBuildFailed'
  <2>1. s \in unseen \/ FmtFailed(ctxRepo, "master") \/ FmtFailed(ctxRepo, "none")
    <3>1. CASE s \in unseen
      BY <3>1
    <3>2. CASE ctxRepo = StatusOf[e].repo
      <4>1. IsMasterFailure(StatusOf[e]) /\ FmtJobFailed(e)
        BY <1>1, <1>2, <1>3 DEF WorksOnFailure
      <4>2. QED BY <3>2, <4>1 DEF IsMasterFailure, FmtFailed
    <3>3. QED BY <1>2, <1>3, <3>1, <3>2 DEF WorksOnFailure
  <2>2. ASSUME NEW r \in FmtRepos, opened'[FmtSubject(r)] > 0
        PROVE  FmtFailed(r, "master") \/ FmtFailed(r, "none") \/ FmtSubject(r) \in unseen'
    <3>1. CASE r = ctxRepo
      BY <1>1, <2>1, <3>1
    <3>2. CASE r # ctxRepo
      BY <1>1, <1>2, <1>6, <2>2, <3>2, FmtAssumption, SubjectsDiffer DEF BlamedBuildFailed
    <3>3. QED BY <3>1, <3>2
  <2>3. QED BY <2>2 DEF BlamedBuildFailed
<1>12. FmtInv'
  BY <1>8, <1>9, <1>10, <1>11 DEF FmtInv
<1>13. \A t \in Subjects : LeavesAlone(t) \/ t = FmtSubject(ctxRepo)
  BY <1>6 DEF LeavesAlone
<1>14. QED BY <1>1, <1>6, <1>12, <1>13, FmtOthers

LEMMA FmtFiling ==
  ASSUME FilingInv, DepTypeOK, FoundAreLate, FmtNext, UNCHANGED <<nudgeVars, depVars>>
  PROVE  FilingInv'
<1>1. FmtTypeOK /\ IssuesTypeOK /\ OneOpenIssue
  BY DEF FilingInv, FmtInv
<1>2. ASSUME UNCHANGED issueVars
      PROVE  IssuesTypeOK' /\ OneOpenIssue' /\ unseen \subseteq unseen'
             /\ UNCHANGED <<opened, indexed, closes>>
  BY <1>1, <1>2 DEF IssuesTypeOK, OneOpenIssue, issueVars
<1>3. \A e \in FmtEvents : fmtJob[e] \in Nat /\ fmtJob = [fmtJob EXCEPT ![e] = fmtJob[e]]
  BY <1>1 DEF FmtTypeOK
<1>4. ASSUME NEW e \in FmtEvents, IgnoreStatus(e)
      PROVE  FilingInv'
  <2>1. fmtPc' = [fmtPc EXCEPT ![e] = "done"] /\ UNCHANGED <<fmtJob, ctxRepo, issueVars>>
    BY <1>4 DEF IgnoreStatus, GotoFmt
  <2>2. QED BY <1>2, <1>3, <2>1, FmtMoves
<1>5. ASSUME NEW e \in FmtEvents, GetBuild(e)
      PROVE  FilingInv'
  <2>1. UNCHANGED <<ctxRepo, issueVars>> /\ fmtPc[e] = "build"
    BY <1>5 DEF GetBuild, GotoFmt
  <2>2. e \in FmtInFlight
    BY <2>1 DEF FmtInFlight
  <2>3. CASE fmtPc' = [fmtPc EXCEPT ![e] = "job"] /\ fmtJob' = [fmtJob EXCEPT ![e] = 1]
    <3>1. 1 \in Nat /\ 1 > 0
      OBVIOUS
    <3>2. QED BY <1>2, <2>1, <2>2, <2>3, <3>1, FmtMoves
  <2>4. CASE fmtPc' = [fmtPc EXCEPT ![e] = "done"] /\ fmtJob' = fmtJob
    BY <1>2, <1>3, <2>1, <2>4, FmtMoves
  <2>5. QED BY <1>5, <2>3, <2>4 DEF GetBuild, GotoFmt
<1>6. ASSUME NEW e \in FmtEvents, GetJob(e)
      PROVE  FilingInv'
  <2>1. UNCHANGED <<ctxRepo, issueVars>> /\ fmtPc[e] = "job"
    BY <1>6 DEF GetJob, GotoFmt
  <2>2. e \in FmtInFlight
    BY <2>1 DEF FmtInFlight
  <2>3. fmtJob[e] > 0
    BY <2>1, <2>2 DEF FilingInv, FmtInv, WorksOnFailure
  <2>4. CASE fmtPc' = [fmtPc EXCEPT ![e] = "done"] /\ fmtJob' = fmtJob
    BY <1>2, <1>3, <2>1, <2>4, FmtMoves
  <2>5. CASE /\ fmtPc' = [fmtPc EXCEPT ![e] = "search"] /\ fmtJob' = fmtJob
             /\ fmtJob[e] <= Len(BuildJobs[e])
             /\ BuildJobs[e][fmtJob[e]] = [suite |-> "fmt", state |-> "failed"]
    <3>1. fmtJob[e] \in DOMAIN BuildJobs[e]
      BY <1>3, <2>3, <2>5, FmtAssumption
    <3>2. FmtJobFailed(e)
      BY <2>5, <3>1 DEF FmtJobFailed
    <3>3. QED BY <1>2, <1>3, <2>1, <2>2, <2>5, <3>2, FmtMoves
  <2>6. CASE fmtPc' = [fmtPc EXCEPT ![e] = "job"] /\ fmtJob' = [fmtJob EXCEPT ![e] = fmtJob[e] + 1]
    <3>1. fmtJob[e] + 1 \in Nat /\ fmtJob[e] + 1 > 0
      BY <1>3
    <3>2. QED BY <1>2, <2>1, <2>2, <2>6, <3>1, FmtMoves
  <2>7. QED BY <1>6, <2>4, <2>5, <2>6 DEF GetJob, GotoFmt
<1>7. ASSUME NEW e \in FmtEvents, SearchFmt(e)
      PROVE  FilingInv'
  <2>1. UNCHANGED <<fmtJob, ctxRepo, opened, indexed, closes>> /\ fmtPc[e] = "search"
    BY <1>7 DEF SearchFmt, GotoFmt
  <2>2. e \in FmtInFlight
    BY <2>1 DEF FmtInFlight
  <2>3. CASE fmtPc' = [fmtPc EXCEPT ![e] = "done"] /\ unseen' = unseen
    BY <1>2, <1>3, <2>1, <2>3, FmtMoves DEF issueVars
  <2>4. CASE /\ fmtPc' = [fmtPc EXCEPT ![e] = "create"] /\ ~SearchFinds(FmtSubject(ctxRepo))
             /\ GoesOn(FmtSubject(ctxRepo), SearchFinds(FmtSubject(ctxRepo)),
                       {o \in FmtEvents \ {e} : fmtPc[o] = "create"})
    <3>1. FmtJobFailed(e) /\ ctxRepo \in FmtRepos
      BY <2>1, <2>2 DEF FilingInv, FmtInv, WorksOnFailure
    <3>2. FmtSubject(ctxRepo) \in Subjects
      BY <3>1, FmtAssumption
    <3>3. GoesOn(FmtSubject(ctxRepo), FALSE, {o \in FmtEvents \ {e} : fmtPc[o] = "create"})
      BY <2>4 DEF GoesOn, SearchFinds
    <3>4. /\ IssuesTypeOK' /\ OneOpenIssue' /\ unseen \subseteq unseen'
          /\ FmtSubject(ctxRepo) \notin unseen' =>
               /\ opened[FmtSubject(ctxRepo)] = 0
               /\ {o \in FmtEvents \ {e} : fmtPc[o] = "create"} = {}
      BY <1>1, <2>1, <3>2, <3>3, GoesOnUnseen
    <3>5. FmtSubject(ctxRepo) \notin unseen' => \A o \in FmtEvents \ {e} : fmtPc[o] # "create"
      BY <3>4
    <3>6. QED BY <1>3, <2>1, <2>2, <2>4, <3>1, <3>4, <3>5, FmtMoves
  <2>5. QED BY <1>7, <2>3, <2>4 DEF SearchFmt, GotoFmt
<1>8. QED BY <1>4, <1>5, <1>6, <1>7, SetRepoFiling, CreateFmtFiling
      DEF FmtNext, FailingFmtBuildHandler


\* Outdated dependencies: what the others need.
LEMMA DepOthers ==
  ASSUME FilingInv, UNCHANGED <<nudgeVars, fmtVars>>,
         IssuesTypeOK', OneOpenIssue', DepReady', unseen \subseteq unseen',
         \A s \in Subjects : LeavesAlone(s) \/ \E g, v : s = DepSubject(g, v)
  PROVE  FilingInv'
<1>1. \A r \in NudgeRepos : LeavesAlone(NudgeSubject(r))
  BY NudgeAssumption, SubjectsDiffer
<1>2. NudgeReady'
  BY <1>1, NudgeRests DEF FilingInv, nudgeVars
<1>3. \A r \in FmtRepos : LeavesAlone(FmtSubject(r))
  BY FmtAssumption, SubjectsDiffer
<1>4. FmtInv'
  BY <1>3, FmtRests DEF FilingInv
<1>5. QED BY <1>2, <1>4 DEF FilingInv

\* Runs that do not get between a search and a create.
LEMMA DepMoves ==
  ASSUME FilingInv, UNCHANGED <<nudgeVars, fmtVars, issueVars>>,
         \A c \in Checkers :
           checkPc'[c] = "create" => checkPc[c] = "create" /\ gem'[c] = gem[c] /\ known'[c] = known[c]
  PROVE  FilingInv'
<1>1. IssuesTypeOK' /\ OneOpenIssue' /\ unseen' = unseen /\ opened' = opened
  BY DEF FilingInv, IssuesTypeOK, OneOpenIssue, issueVars
<1>2. \A c \in Checkers : checkPc'[c] = "create" => checkPc[c] = "create" /\ Late(c)' = Late(c)
  BY DEF Late
<1>3. DepReady'
  BY <1>1, <1>2 DEF FilingInv, DepReady
<1>4. QED BY <1>1, <1>3, DepOthers DEF LeavesAlone

LEMMA SearchUpdateFiling ==
  ASSUME FilingInv, DepTypeOK, FoundAreLate, UNCHANGED <<nudgeVars, fmtVars>>,
         NEW c \in Checkers, SearchUpdateIssue(c)
  PROVE  FilingInv'
<1>1. UNCHANGED <<deps, known, opened, indexed, closes>> /\ checkPc[c] = "file"
  BY DEF SearchUpdateIssue, GotoCheck
<1>2. PICK g \in outdated[c] :
        /\ gem' = [gem EXCEPT ![c] = g]
        /\ \/ checkPc' = [checkPc EXCEPT ![c] = "file"] /\ unseen' = unseen
           \/ /\ checkPc' = [checkPc EXCEPT ![c] = "create"]
              /\ GoesOn(DepSubject(g, known[c][g]), FALSE,
                        {o \in Checkers \ {c} : checkPc[o] = "create" /\ gem[o] = g})
  BY DEF SearchUpdateIssue, GotoCheck
<1>3. g \in Gems /\ known[c][g] \in 1..MaxGem
  BY <1>1, DepAssumption DEF DepTypeOK, FoundAreLate, IsLate
<1>4. \A o \in Checkers \ {c} : checkPc'[o] = checkPc[o] /\ gem'[o] = gem[o] /\ Late(o)' = Late(o)
  BY <1>1, <1>2 DEF DepTypeOK, Late
<1>5. CASE checkPc' = [checkPc EXCEPT ![c] = "file"] /\ unseen' = unseen
  <2>1. checkPc'[c] = "file"
    BY <1>5 DEF DepTypeOK
  <2>2. QED BY <1>1, <1>4, <1>5, <2>1, DepMoves DEF issueVars
<1>6. CASE /\ checkPc' = [checkPc EXCEPT ![c] = "create"]
           /\ GoesOn(DepSubject(g, known[c][g]), FALSE,
                     {o \in Checkers \ {c} : checkPc[o] = "create" /\ gem[o] = g})
  <2>1. checkPc'[c] = "create" /\ Late(c)' = DepSubject(g, known[c][g]) /\ Late(c)' \in Subjects
    BY <1>1, <1>2, <1>3, <1>6, DepAssumption DEF DepTypeOK, Late
  <2>2. /\ IssuesTypeOK' /\ OneOpenIssue' /\ unseen \subseteq unseen'
        /\ Late(c)' \notin unseen' =>
             opened[Late(c)'] = 0 /\ {o \in Checkers \ {c} : checkPc[o] = "create" /\ gem[o] = g} = {}
    <3>1. DepSubject(g, known[c][g]) \in Subjects
      BY <2>1
    <3>2. QED BY <1>1, <1>6, <2>1, <3>1, GoesOnUnseen DEF FilingInv
  <2>3. \A o \in Checkers \ {c} : Late(o) = Late(c)' => gem[o] = g
    BY <2>1, SubjectsDiffer DEF Late
  <2>4. \A o \in Checkers \ {c} :
          checkPc[o] = "create" /\ Late(o) = Late(c)' => Late(c)' \in unseen'
    BY <2>2, <2>3
  <2>5. DepReady'
    <3>1. ASSUME NEW d \in Checkers, checkPc'[d] = "create", Late(d)' \notin unseen'
          PROVE  opened'[Late(d)'] = 0
      BY <1>1, <1>4, <2>2, <3>1 DEF FilingInv, DepReady
    <3>2. ASSUME NEW d \in Checkers, NEW o \in Checkers \ {d},
                 checkPc'[d] = "create", checkPc'[o] = "create", Late(o)' = Late(d)'
          PROVE  Late(d)' \in unseen'
      <4>1. CASE d = c
        BY <1>4, <2>4, <3>2, <4>1
      <4>2. CASE o = c
        BY <1>4, <2>4, <3>2, <4>2
      <4>3. CASE d # c /\ o # c
        BY <1>4, <2>2, <3>2, <4>3 DEF FilingInv, DepReady
      <4>4. QED BY <4>1, <4>2, <4>3
    <3>3. QED BY <3>1, <3>2 DEF DepReady
  <2>6. QED BY <1>1, <2>2, <2>5, DepOthers DEF LeavesAlone
<1>7. QED BY <1>2, <1>5, <1>6

LEMMA FileUpdateFiling ==
  ASSUME FilingInv, DepTypeOK, FoundAreLate, UNCHANGED <<nudgeVars, fmtVars>>,
         NEW c \in Checkers, FileUpdateIssue(c)
  PROVE  FilingInv'
<1>1. /\ CreateIssue(Late(c)) \/ UNCHANGED opened
      /\ UNCHANGED <<indexed, closes, unseen>> /\ checkPc[c] = "create"
      /\ \E to \in {"file", "idle"} : checkPc' = [checkPc EXCEPT ![c] = to]
      /\ gem' \in {gem, [gem EXCEPT ![c] = NoGem]} /\ known' \in {known, [known EXCEPT ![c] = NoDeps]}
  BY DEF FileUpdateIssue, EndCheck, GotoCheck, Late
<1>2. Late(c) \in Subjects
  BY <1>1, LateIsSubject DEF DepTypeOK, FoundAreLate
<1>3. opened[Late(c)] = 0 \/ Late(c) \in unseen
  BY <1>1 DEF FilingInv, DepReady
<1>4. IssuesTypeOK' /\ OneOpenIssue' /\ \A t \in Subjects : t # Late(c) => opened'[t] = opened[t]
  BY <1>1, <1>2, <1>3, CreateOnce DEF FilingInv
<1>5. \A o \in Checkers : checkPc'[o] = "create" => o # c /\ checkPc[o] = "create"
  BY <1>1 DEF DepTypeOK
<1>6. \A o \in Checkers \ {c} : Late(o)' = Late(o)
  BY <1>1 DEF DepTypeOK, Late
<1>7. DepReady'
  <2>1. ASSUME NEW d \in Checkers, checkPc'[d] = "create", Late(d)' \notin unseen'
        PROVE  opened'[Late(d)'] = 0
    <3>1. d # c /\ checkPc[d] = "create" /\ Late(d)' = Late(d) /\ Late(d) \notin unseen
      BY <1>1, <1>5, <1>6, <2>1
    <3>2. Late(d) \in Subjects /\ Late(d) # Late(c) /\ opened[Late(d)] = 0
      BY <1>1, <3>1, LateIsSubject DEF DepTypeOK, FoundAreLate, FilingInv, DepReady
    <3>3. QED BY <1>4, <3>1, <3>2
  <2>2. ASSUME NEW d \in Checkers, NEW o \in Checkers \ {d},
               checkPc'[d] = "create", checkPc'[o] = "create", Late(d)' \notin unseen'
        PROVE  Late(o)' # Late(d)'
    BY <1>1, <1>5, <1>6, <2>2 DEF FilingInv, DepReady
  <2>3. QED BY <2>1, <2>2 DEF DepReady
<1>8. \A t \in Subjects : LeavesAlone(t) \/ \E g, v : t = DepSubject(g, v)
  BY <1>4 DEF LeavesAlone, Late
<1>9. QED BY <1>1, <1>4, <1>7, <1>8, DepOthers

LEMMA DepFiling ==
  ASSUME FilingInv, DepTypeOK, FoundAreLate, DepNext, UNCHANGED <<nudgeVars, fmtVars>>
  PROVE  FilingInv'
<1>1. ASSUME NEW g \in Gems, ReleaseGem(g) \/ EditConstraint(g)
      PROVE  FilingInv'
  BY <1>1, DepMoves DEF ReleaseGem, EditConstraint, depJob
<1>2. ASSUME NEW c \in Checkers,
             StartCheck(c) \/ ReadGemspec(c) \/ ReadGemfile(c) \/ AllCompared(c) \/ AllFiled(c)
      PROVE  FilingInv'
  <2>1. UNCHANGED issueVars
    BY <1>2 DEF StartCheck, ReadGemspec, ReadGemfile, AllCompared, AllFiled
  <2>2. /\ \E to \in {"gemspec", "gemfile", "compare", "file", "idle"} :
             checkPc' = [checkPc EXCEPT ![c] = to]
        /\ gem' \in {gem, [gem EXCEPT ![c] = NoGem]} /\ known' \in {known, [known EXCEPT ![c] = NoDeps]}
    BY <1>2 DEF StartCheck, ReadGemspec, ReadGemfile, AllCompared, AllFiled, EndCheck, GotoCheck
  <2>3. \A o \in Checkers : checkPc'[o] = "create" =>
          checkPc[o] = "create" /\ gem'[o] = gem[o] /\ known'[o] = known[o]
    BY <2>2 DEF DepTypeOK
  <2>4. QED BY <2>1, <2>3, DepMoves
<1>3. ASSUME NEW c \in Checkers, IsOutdated(c)
      PROVE  FilingInv'
  <2>1. UNCHANGED <<checkPc, gem, issueVars>> /\ checkPc[c] = "compare"
    BY <1>3 DEF IsOutdated
  <2>2. \A o \in Checkers \ {c} : known'[o] = known[o]
    BY <1>3 DEF IsOutdated, DepTypeOK
  <2>3. QED BY <2>1, <2>2, DepMoves
<1>4. QED BY <1>1, <1>2, <1>3, SearchUpdateFiling, FileUpdateFiling DEF DepNext, Check

LEMMA FilingNext ==
  ASSUME FilingInv, NudgeInv, DepInv, [JekyllbotNext]_jekyllbotVars
  PROVE  FilingInv'
<1>1. NudgeTypeOK /\ DepTypeOK /\ FoundAreLate
  BY DEF NudgeInv, DepInv
<1>2. CASE UNCHANGED jobs
  <2>1. IssuesTypeOK' /\ OneOpenIssue' /\ unseen' = unseen /\ opened' = opened
    BY <1>2 DEF FilingInv, IssuesTypeOK, OneOpenIssue, jobs, issueVars
  <2>2. DepReady'
    BY <1>2, <2>1, DepRests DEF FilingInv, LeavesAlone, jobs, depVars, depJob
  <2>3. QED BY <1>2, <2>1, <2>2, DepOthers DEF LeavesAlone, jobs
<1>3. CASE FmtPart(FmtNext \/ (Issues /\ UNCHANGED fmtVars))
  BY <1>1, <1>3, FmtFiling, IssuesFiling DEF FmtPart
<1>4. CASE NudgePart(NudgeNext \/ (Issues /\ UNCHANGED nudgeVars))
  BY <1>1, <1>4, NudgeFiling, IssuesFiling DEF NudgePart
<1>5. CASE DepPart(DepNext \/ (Issues /\ UNCHANGED depVars))
  BY <1>1, <1>5, DepFiling, IssuesFiling DEF DepPart
<1>6. QED BY <1>2, <1>3, <1>4, <1>5
      DEF JekyllbotNext, FreezePart, UnifyPart, DispatchPart, SmallPart, jobs, jekyllbotVars

\* Between its search and its create, a job's subject has no issue, or one is noted
\* in unseen: so much holds for any number of jobs, subjects and failing calls.
THEOREM FilingInvariance == JekyllbotSpec => []FilingInv
<1>1. JekyllbotSpec => []NudgeInv /\ []DepInv
  BY PartsCompose, NudgeInvariance, DepInvariance, PTL
<1>2. QED BY <1>1, FilingInit, FilingNext, PTL DEF JekyllbotSpec


\* Two open issues on one subject come only from a search that did not return one or
\* from two jobs that overlapped on it (failing_fmt_build.go:89-107, nudge
\* main.go:153-178, check main.go:39-48).
THEOREM OneIssuePerSubject == JekyllbotSpec => []OneOpenIssue
<1>1. FilingInv => OneOpenIssue
  BY DEF FilingInv
<1>2. QED BY <1>1, FilingInvariance, PTL

\* A fmt issue is in a repository whose own push build failed in fmt, that of master
\* or of a commit whose event names no branch, which the code takes for master, unless
\* a handler's repository replaced another one's in context.Repo while that one was
\* under way (failing_fmt_build.go:42-54, 88).
THEOREM FmtIssuesAreDue == JekyllbotSpec => []BlamedBuildFailed
<1>1. FilingInv => BlamedBuildFailed
  BY DEF FilingInv, FmtInv
<1>2. QED BY <1>1, FilingInvariance, PTL

-----------------------------------------------------------------------------
(***************************************************************************)
(* The bot as a whole: a step of any part makes at most one failing call,  *)
(* and the invariants of the parts hold together, whichever are active     *)
(***************************************************************************)
CallMade == UNCHANGED errors \/ Fail

LEMMA FmtCalls ==
  ASSUME FmtNext
  PROVE  CallMade
<1>1. ASSUME NEW e \in FmtEvents, IgnoreStatus(e) \/ SetRepo(e) \/ GetBuild(e)
      PROVE  CallMade
  BY <1>1 DEF IgnoreStatus, SetRepo, GetBuild, Applied, CallMade
<1>2. ASSUME NEW e \in FmtEvents, GetJob(e) \/ SearchFmt(e) \/ CreateFmt(e)
      PROVE  CallMade
  BY <1>2 DEF GetJob, SearchFmt, CreateFmt, Applied, CallMade
<1>3. QED BY <1>1, <1>2 DEF FmtNext, FailingFmtBuildHandler

LEMMA NudgeCalls ==
  ASSUME NudgeNext
  PROVE  CallMade
<1>1. CASE StartNudge
  BY <1>1 DEF StartNudge, CallMade
<1>2. ASSUME NEW r \in NudgeRepos, LatestRelease(r) \/ CommitsSinceRelease(r) \/ Repository(r)
      PROVE  CallMade
  BY <1>2 DEF LatestRelease, CommitsSinceRelease, Repository, CallMade
<1>3. ASSUME NEW r \in NudgeRepos, getReleaseNudgeIssue(r) \/ fileIssue(r)
      PROVE  CallMade
  BY <1>3 DEF getReleaseNudgeIssue, fileIssue, Applied, CallMade
<1>4. QED BY <1>1, <1>2, <1>3 DEF NudgeNext, NudgeStep

LEMMA DepCalls ==
  ASSUME DepNext
  PROVE  CallMade
<1>1. ASSUME NEW g \in Gems, ReleaseGem(g) \/ EditConstraint(g)
      PROVE  CallMade
  BY <1>1 DEF ReleaseGem, EditConstraint, CallMade
<1>2. ASSUME NEW c \in Checkers, StartCheck(c) \/ AllCompared(c) \/ AllFiled(c)
      PROVE  CallMade
  BY <1>2 DEF StartCheck, AllCompared, AllFiled, CallMade
<1>3. ASSUME NEW c \in Checkers, ReadGemspec(c) \/ ReadGemfile(c)
      PROVE  CallMade
  BY <1>3 DEF ReadGemspec, ReadGemfile, ReadFile, Fetched, CallMade
<1>4. ASSUME NEW c \in Checkers, IsOutdated(c) \/ SearchUpdateIssue(c) \/ FileUpdateIssue(c)
      PROVE  CallMade
  BY <1>4 DEF IsOutdated, SearchUpdateIssue, FileUpdateIssue, CallMade
<1>5. QED BY <1>1, <1>2, <1>3, <1>4 DEF DepNext, Check

LEMMA FreezeCalls ==
  ASSUME FreezeNext
  PROVE  CallMade
<1>1. ASSUME NEW f \in Freezers, FreezeRun(f)
      PROVE  CallMade
  BY <1>1 DEF FreezeRun, StartFreeze, AllTooOldIssues, LockIssue, LabelIssue, AllFrozen, CallMade
<1>2. CASE FreezeIndex \/ Year \/ \E i \in OldIssues : Act(i)
  BY <1>2 DEF FreezeIndex, Reindex, Year, Act, CallMade
<1>3. QED BY <1>1, <1>2 DEF FreezeNext

LEMMA UnifyCalls ==
  ASSUME UnifyStep
  PROVE  CallMade
BY DEF UnifyStep, UnifyRun, StartUnify, ListLabels, UnifyLabel, RepoUnified, EditLabels, CallMade

LEMMA ReleasesCalls ==
  ASSUME ReleasesNext
  PROVE  CallMade
<1>1. CASE ReleaseEnvironment
  BY <1>1 DEF ReleaseEnvironment, EditHistory, PushTag, RedeliverTag, RedeliverRelease,
              DeliverAgain, PublishByHand, EditMilestoneByHand, CallMade
<1>2. ASSUME NEW t \in Tags,
             ReadHistory(t) \/ CreateRelease(t) \/ ListMilestones(t) \/ CloseMilestones(t)
      PROVE  CallMade
  BY <1>2 DEF ReadHistory, CreateRelease, ListMilestones, CloseMilestones, Applied, CallMade
<1>3. QED BY <1>1, <1>2 DEF ReleasesNext

LEMMA LabelerCalls ==
  ASSUME LabelerNext
  PROVE  CallMade
BY DEF LabelerNext, PullRequest, PendingRebaseUnlabeler, GetMergeable, FindLabel, RemoveLabel,
       Applied, CallMade

LEMMA DispatchCalls ==
  ASSUME DispatchNext
  PROVE  CallMade
BY DEF DispatchNext, DispatchStep, LoseDelivery, ServeHTTP, HandlePayload, FireAgain,
       AnswerFired, Handle, Restart, CallMade

LEMMA DeprecateCalls ==
  ASSUME DeprecateNext
  PROVE  CallMade
BY DEF DeprecateNext, DeliverOpened, Reopen, DeprecateOldRepos, CommentOnIssue, CloseDeprecated,
       Applied, CallMade

LEMMA AutoPullCalls ==
  ASSUME AutoPullNext
  PROVE  CallMade
BY DEF AutoPullNext, PushBranch, ClosePull, RedeliverPush, IgnorePush, CreatePullRequestFromPush,
       Applied, CallMade

LEMMA IssuesCalls ==
  ASSUME Issues
  PROVE  CallMade
BY DEF Issues, IndexIssues, CloseIssue, CallMade

LEMMA BotCalls ==
  ASSUME [JekyllbotNext]_jekyllbotVars
  PROVE  CallMade /\ UNCHANGED active
<1>1. CASE UNCHANGED jekyllbotVars
  BY <1>1 DEF jekyllbotVars, CallMade
<1>2. CASE FmtPart(FmtNext \/ (Issues /\ UNCHANGED fmtVars))
  BY <1>2, FmtCalls, IssuesCalls DEF FmtPart
<1>3. CASE NudgePart(NudgeNext \/ (Issues /\ UNCHANGED nudgeVars))
  BY <1>3, NudgeCalls, IssuesCalls DEF NudgePart
<1>4. CASE DepPart(DepNext \/ (Issues /\ UNCHANGED depVars))
  BY <1>4, DepCalls, IssuesCalls DEF DepPart
<1>5. CASE FreezePart(FreezeNext)
  BY <1>5, FreezeCalls DEF FreezePart
<1>6. CASE UnifyPart(UnifyStep)
  BY <1>6, UnifyCalls DEF UnifyPart
<1>7. CASE DispatchPart(DispatchNext)
  BY <1>7, DispatchCalls DEF DispatchPart
<1>8. CASE SmallPart
  BY <1>8, ReleasesCalls, LabelerCalls, DeprecateCalls, AutoPullCalls DEF SmallPart
<1>9. QED BY <1>1, <1>2, <1>3, <1>4, <1>5, <1>6, <1>7, <1>8 DEF JekyllbotNext

\* The bound on failing calls, and the choice of the parts.
BoundInv == active \in Exercised /\ errors \in 0..MaxErrors

LEMMA BoundNext == BoundInv /\ [JekyllbotNext]_jekyllbotVars => BoundInv'
<1> SUFFICES ASSUME BoundInv, [JekyllbotNext]_jekyllbotVars
             PROVE  BoundInv'
  OBVIOUS
<1>1. CallMade /\ UNCHANGED active
  BY BotCalls
<1>2. errors' \in 0..MaxErrors
  BY <1>1, CallsAssumption DEF BoundInv, CallMade, Fail
<1>3. QED BY <1>1, <1>2 DEF BoundInv

\* The inductive invariants of all parts hold together, for any choice of parts that
\* run at the same time and any number of failing calls.
THEOREM BotInvariance == JekyllbotSpec => []JekyllbotInv
<1>1. JekyllbotInit => BoundInv
  BY CallsAssumption DEF JekyllbotInit, CallsInit, BoundInv
<1>2. JekyllbotSpec => []BoundInv
  BY <1>1, BoundNext, PTL DEF JekyllbotSpec
<1>3. AutoPullSpec => []AutoPullInv
  BY AutoPullInitInv, AutoPullNextInv, PTL DEF AutoPullSpec
<1>4. BoundInv /\ FilingInv /\ NudgeInv /\ DepInv /\ FreezeInv /\ UnifyInv /\ ReleasesInv
        /\ LabelerInv /\ DispatchInv /\ DeprecateInv /\ AutoPullInv => JekyllbotInv
  BY DEF BoundInv, JekyllbotInv
<1>5. QED
  BY <1>2, <1>3, <1>4, PartsCompose, FilingInvariance, NudgeInvariance, DepInvariance,
     FreezeInvariance, UnifyInvariance, ReleasesInvariance, LabelerInvariance,
     DispatchInvariance, DeprecateInvariance, PTL
=============================================================================
