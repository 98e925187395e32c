--------------------------------- MODULE Nudge ---------------------------------
(***************************************************************************)
(* cmd/nudge-maintainers-to-release with releases/: one goroutine per      *)
(* repository finds the latest release, counts the commits since, and      *)
(* files an issue when there are more than 100, or at least one and the    *)
(* release is two months old.  It is started again and again by cron.      *)
(***************************************************************************)
EXTENDS SearchedIssues

CONSTANTS
  NudgeRepos,
  BusyRepos,   \* bound: those with releases and commits
  OddRepos,    \* bound: those with releases whose tag is not a version
  MaxReleases  \* bound: releases of a repository

VARIABLES
  latest, \* latest[r]: the number of the release with the highest version
  since,  \* since[r][k]: commits since release k: 0, some (1), over 100 (2)
  aged,   \* aged[r]: releases that are two months old
  odd,    \* repositories with a release whose tag is not a version
  nudgePc,
  nudgeRelease, \* nudgeRelease[r]: the release its goroutine works with
  nudged  \* history: the releases that issues were filed for

nudgeVars == <<latest, since, aged, odd, nudgePc, nudgeRelease, nudged>>


Releases == 1..MaxReleases

NudgeSubject(r) == <<"nudge", r, 0>>

ASSUME NudgeAssumption ==
  MaxReleases \in Nat /\ \A r \in NudgeRepos : NudgeSubject(r) \in Subjects

NudgeInit ==
  /\ latest = [r \in NudgeRepos |-> 0]
  /\ since = [r \in NudgeRepos |-> [k \in Releases |-> 0]]
  /\ aged = [r \in NudgeRepos |-> {}]
  /\ odd = {}
  /\ nudgePc = [r \in NudgeRepos |-> "idle"]
  /\ nudgeRelease = [r \in NudgeRepos |-> 0]
  /\ nudged = {}

\* "Has there been 100 commits since this release? If so, make an issue.  Has at
\* least 1 commit been made since this release & is this release at least 2 month
\* old? If so, make an issue."  (main.go:58-59; line 113 asks for more than 100.)
Due(r, k) == since[r][k] = 2 \/ (since[r][k] = 1 /\ k \in aged[r])

(***************************************************************************)
(* The repository                                                          *)
(***************************************************************************)
Publish(r) ==
  /\ latest[r] < MaxReleases
  /\ latest' = [latest EXCEPT ![r] = @ + 1]
  /\ UNCHANGED <<since, aged, odd>>

\* A commit counts for every release before it; between 1 and 100 there are many.
CommitTo(r) ==
  /\ \E many \in BOOLEAN :
       since' = [since EXCEPT ![r] = [k \in Releases |->
                   IF k > latest[r] \/ @[k] = 2 THEN @[k] ELSE IF @[k] = 0 \/ ~many THEN 1 ELSE 2]]
  /\ UNCHANGED <<latest, aged, odd>>

TwoMonths(r) ==
  /\ aged' = [aged EXCEPT ![r] = 1..latest[r]]
  /\ UNCHANGED <<latest, since, odd>>

PublishOdd(r) ==
  /\ odd' = odd \cup {r}
  /\ UNCHANGED <<latest, since, aged>>

Repository(r) ==
  /\ \/ r \in BusyRepos /\ (Publish(r) \/ CommitTo(r) \/ TwoMonths(r))
     \/ r \in OddRepos /\ PublishOdd(r)
  /\ UNCHANGED <<nudgePc, nudgeRelease, nudged, issueVars, errors>>

(***************************************************************************)
(* The command                                                             *)
(***************************************************************************)
GotoNudge(r, from, to) == nudgePc[r] = from /\ nudgePc' = [nudgePc EXCEPT ![r] = to]

StartNudge ==
  /\ \A r \in NudgeRepos : nudgePc[r] = "idle"
  /\ nudgePc' = [r \in NudgeRepos |-> "list"]
  /\ UNCHANGED <<latest, since, aged, odd, nudgeRelease, nudged, issueVars, errors>>

\* versions[0] of no versions: the panic ends the command, for every repository.
NoVersions(r) == latest[r] = 0 /\ r \in odd

\* The goroutine of r returns.
EndNudge(r, from) ==
  /\ GotoNudge(r, from, "idle")
  /\ nudgeRelease' = [nudgeRelease EXCEPT ![r] = 0]

LatestRelease(r) ==
  /\ \/ /\ GotoNudge(r, "list", "count") /\ latest[r] # 0
        /\ nudgeRelease' = [nudgeRelease EXCEPT ![r] = latest[r]]
        /\ UNCHANGED errors
     \/ EndNudge(r, "list") /\ latest[r] = 0 /\ r \notin odd /\ UNCHANGED errors
     \/ EndNudge(r, "list") /\ Fail
     \/ /\ nudgePc[r] = "list" /\ NoVersions(r)
        /\ nudgePc' = [q \in NudgeRepos |-> "idle"]
        /\ nudgeRelease' = [q \in NudgeRepos |-> 0]
        /\ UNCHANGED errors
  /\ UNCHANGED <<latest, since, aged, odd, nudged, issueVars>>

\* Mutant of CommitsSinceRelease: the age alone decides.
CommitsSinceRelease_AgeOnly(r) ==
  /\ \/ /\ GotoNudge(r, "count", "search") /\ nudgeRelease[r] \in aged[r]
        /\ UNCHANGED nudgeRelease
     \/ EndNudge(r, "count") /\ nudgeRelease[r] \notin aged[r]
  /\ UNCHANGED <<latest, since, aged, odd, nudged, issueVars, errors>>

CommitsSinceRelease(r) ==
  /\ \/ /\ GotoNudge(r, "count", "search") /\ Due(r, nudgeRelease[r])
        /\ UNCHANGED <<nudgeRelease, errors>>
     \/ EndNudge(r, "count") /\ ~Due(r, nudgeRelease[r]) /\ UNCHANGED errors
     \/ EndNudge(r, "count") /\ Fail
  /\ UNCHANGED <<latest, since, aged, odd, nudged, issueVars>>

\* Mutant of getReleaseNudgeIssue: the query returns closed issues as well.
getReleaseNudgeIssue_AnyState(r) ==
  /\ \/ EndNudge(r, "search") /\ nudged # {}
     \/ GotoNudge(r, "search", "create") /\ nudged = {} /\ UNCHANGED nudgeRelease
  /\ GoesOn(NudgeSubject(r), SearchFinds(NudgeSubject(r)), {})
  /\ UNCHANGED <<latest, since, aged, odd, nudged, opened, indexed, closes, errors>>

\* A search that fails counts as one that finds nothing.
getReleaseNudgeIssue(r) ==
  LET s == NudgeSubject(r)
  IN /\ \/ EndNudge(r, "search") /\ SearchFinds(s) /\ UNCHANGED <<unseen, errors>>
        \/ /\ GotoNudge(r, "search", "create") /\ GoesOn(s, FALSE, {}) /\ UNCHANGED nudgeRelease
           /\ \/ ~SearchFinds(s) /\ UNCHANGED errors
              \/ Fail
     /\ UNCHANGED <<latest, since, aged, odd, nudged, opened, indexed, closes>>

fileIssue(r) ==
  /\ EndNudge(r, "create")
  /\ \/ /\ CreateIssue(NudgeSubject(r)) /\ Applied
        /\ nudged' = nudged \cup {<<r, nudgeRelease[r]>>}
     \/ Fail /\ UNCHANGED <<opened, nudged>>
  /\ UNCHANGED <<latest, since, aged, odd, indexed, closes, unseen>>

NudgeStep ==
  \/ StartNudge
  \/ \E r \in NudgeRepos :
       LatestRelease(r) \/ CommitsSinceRelease(r) \/ getReleaseNudgeIssue(r) \/ fileIssue(r)

NudgeNext == NudgeStep \/ \E r \in NudgeRepos : Repository(r)

NudgeSpec == NudgeInit /\ [][NudgeNext]_nudgeVars

(***************************************************************************)
(* The inductive invariant: a release that was due stays due.              *)
(***************************************************************************)
NudgeTypeOK ==
  /\ latest \in [NudgeRepos -> 0..MaxReleases]
  /\ since \in [NudgeRepos -> [Releases -> 0..2]]
  /\ aged \in [NudgeRepos -> SUBSET Releases]
  /\ odd \subseteq NudgeRepos
  /\ nudgePc \in [NudgeRepos -> {"idle", "list", "count", "search", "create"}]
  /\ nudgeRelease \in [NudgeRepos -> 0..MaxReleases]
  /\ nudged \subseteq NudgeRepos \X Releases

AgedAreOut == \A r \in NudgeRepos : \A k \in aged[r] : k <= latest[r]

WorksOnRelease ==
  \A r \in NudgeRepos :
    /\ nudgePc[r] \in {"count", "search", "create"} => nudgeRelease[r] \in 1..latest[r]
    /\ nudgePc[r] \in {"search", "create"} => Due(r, nudgeRelease[r])

\* A nudge names a release that was out and due when the issue was filed, although
\* releases, commits and the clock go on between the calls (main.go:97-119).
NudgedWasDue == \A n \in nudged : n[2] \in 1..latest[n[1]] /\ Due(n[1], n[2])

\* Between the search and the create there is no issue that nobody saw.
NudgeReady ==
  \A r \in NudgeRepos :
    nudgePc[r] = "create" => opened[NudgeSubject(r)] = 0 \/ NudgeSubject(r) \in unseen

NudgeInv == NudgeTypeOK /\ AgedAreOut /\ WorksOnRelease /\ NudgedWasDue

\* While the latest release of a repository is due, there is an issue about it
\* again and again, whatever failed: unless some repository has releases but no
\* version among them, which stops the command for all (releases.go:37).
DueIsNudged ==
  \A r \in NudgeRepos :
    <>[](latest[r] # 0 /\ Due(r, latest[r]) /\ \A q \in NudgeRepos : ~NoVersions(q))
      => []<>(opened[NudgeSubject(r)] > 0)
=============================================================================
