------------------------------- MODULE AutoPull -------------------------------
(***************************************************************************)
(* autopull.Handler: a push to a branch whose name begins with pull/ makes *)
(* the bot open a pull request from it.  People push again, close or merge *)
(* the pull request and delete the branch while push events are on their   *)
(* way; an event may be delivered late, or again.  That there is one pull  *)
(* request at most, and only from a branch that is ahead of its base, is   *)
(* GitHub's doing and not the bot's.                                       *)
(***************************************************************************)
EXTENDS Calls

CONSTANTS
  Branches,
  PullBranches,  \* those whose names begin with pull/
  MaxBranchPushes, \* bound: pushes to a branch
  MaxPullActs    \* bound: pull requests and branches that people close and delete

VARIABLES
  ahead,      \* ahead[b]: the branch is there, with commits that the base lacks
  branchPushes, \* branchPushes[b]: pushes to b so far
  pulls,      \* pulls[b]: open pull requests from b
  closedSince, \* history: branches whose pull request people closed or merged
              \* after the last push
  pullActs,
  pushed,     \* pushed[b][n]: what the event of the n-th push to b says
  pushPc      \* pushPc[b][n]: the handler of that event

autoPullVars == <<ahead, branchPushes, pulls, closedSince, pullActs, pushed, pushPc>>

ASSUME AutoPullAssumption == MaxBranchPushes \in Nat

AutoPullInit ==
  /\ ahead = [b \in Branches |-> FALSE]
  /\ branchPushes = [b \in Branches |-> 0]
  /\ pulls = [b \in Branches |-> 0]
  /\ closedSince = {}
  /\ pullActs = 0
  /\ pushed = [b \in Branches |-> [n \in 1..MaxBranchPushes |-> "none"]]
  /\ pushPc = [b \in Branches |-> [n \in 1..MaxBranchPushes |-> "none"]]

\* A push with commits, or one that has none of its own: it creates the branch with
\* commits that are elsewhere, takes commits back, or deletes the branch.
PushBranch(b) ==
  LET n == branchPushes[b] + 1
  IN /\ n <= MaxBranchPushes
     /\ branchPushes' = [branchPushes EXCEPT ![b] = n]
     /\ \E what \in {"commits", "no-commits"}, there \in BOOLEAN :
          /\ what = "commits" => there
          /\ pushed' = [pushed EXCEPT ![b][n] = what]
          /\ ahead' = [ahead EXCEPT ![b] = there]
          /\ pulls' = IF there THEN pulls ELSE [pulls EXCEPT ![b] = 0]
     /\ pushPc' = [pushPc EXCEPT ![b][n] = "delivered"]
     /\ closedSince' = closedSince \ {b}
     /\ UNCHANGED <<pullActs, errors>>

\* People close a pull request, or merge it, which leaves the branch with nothing new.
ClosePull(b) ==
  /\ pulls[b] > 0 /\ pullActs < MaxPullActs
  /\ pullActs' = pullActs + 1
  /\ pulls' = [pulls EXCEPT ![b] = 0]
  /\ closedSince' = closedSince \cup {b}
  /\ ahead' \in {ahead, [ahead EXCEPT ![b] = FALSE]}
  /\ UNCHANGED <<branchPushes, pushed, pushPc, errors>>

EndPush(b, n, end) == pushPc' = [pushPc EXCEPT ![b][n] = end]

RedeliverPush(b, n) ==
  /\ pushPc[b][n] \in {"opened", "refused", "failed"} /\ pullActs < MaxPullActs
  /\ pullActs' = pullActs + 1
  /\ EndPush(b, n, "delivered")
  /\ UNCHANGED <<ahead, branchPushes, pulls, closedSince, pushed, errors>>

\* Mutant of Pulls: only the push that creates the branch opens a pull request.
Pulls_FirstOnly(b, n) == b \in PullBranches /\ pushed[b][n] = "commits" /\ n = 1

\* The prefix matches, all repositories are accepted, and the push has commits.
Pulls(b, n) == b \in PullBranches /\ pushed[b][n] = "commits"

IgnorePush(b, n) ==
  /\ pushPc[b][n] = "delivered"
  /\ ~Pulls(b, n)
  /\ EndPush(b, n, "ignored")
  /\ UNCHANGED <<ahead, branchPushes, pulls, closedSince, pullActs, pushed, errors>>

\* GitHub refuses a second open pull request from a branch, and one from a branch
\* that is gone or has nothing that the base lacks.
CreatePullRequestFromPush(b, n) ==
  LET refused == ~ahead[b] \/ pulls[b] > 0
      opens   == pulls' = [pulls EXCEPT ![b] = 1]
  IN /\ pushPc[b][n] = "delivered"
     /\ Pulls(b, n)
     /\ \/ ~refused /\ opens /\ EndPush(b, n, "opened") /\ UNCHANGED errors
        \/ refused /\ EndPush(b, n, "refused") /\ UNCHANGED <<pulls, errors>>
        \/ EndPush(b, n, "failed") /\ Fail /\ (UNCHANGED pulls \/ (~refused /\ opens))
     /\ UNCHANGED <<ahead, branchPushes, closedSince, pullActs, pushed>>

AutoPullNext ==
  \E b \in Branches :
    \/ PushBranch(b) \/ ClosePull(b)
    \/ \E n \in 1..MaxBranchPushes :
         RedeliverPush(b, n) \/ IgnorePush(b, n) \/ CreatePullRequestFromPush(b, n)

AutoPullSpec == AutoPullInit /\ [][AutoPullNext]_autoPullVars

(***************************************************************************)
(* The inductive invariant                                                 *)
(***************************************************************************)
AutoPullTypeOK ==
  /\ ahead \in [Branches -> BOOLEAN]
  /\ branchPushes \in [Branches -> 0..MaxBranchPushes]
  /\ pulls \in [Branches -> Nat]
  /\ closedSince \subseteq Branches
  /\ pushed \in [Branches -> [1..MaxBranchPushes -> {"none", "commits", "no-commits"}]]
  /\ pushPc \in [Branches -> [1..MaxBranchPushes ->
                                {"none", "delivered", "ignored", "opened", "refused", "failed"}]]

\* What a push that has commits leaves: the branch is ahead until people merge it.
LastPush(b) == pushed[b][branchPushes[b]]
IsPulled(b) == pulls[b] > 0 \/ b \in closedSince

NotYetPushed ==
  \A b \in Branches, n \in 1..MaxBranchPushes : n > branchPushes[b] => pushPc[b][n] = "none"

StaysAhead ==
  \A b \in Branches :
    branchPushes[b] > 0 /\ LastPush(b) = "commits" /\ b \notin closedSince => ahead[b]

\* Once the last push to a branch of the prefix has been handled and had commits, the
\* branch has its open pull request, unless people closed or merged it after that
\* push, or the call failed: in whatever order the events of earlier pushes arrive,
\* or again, and although a push finds the pull request of an earlier one.  No other
\* branch has a pull request of the bot (autopull.go:41-53, 87-90).
PushedIsPulled ==
  \A b \in Branches :
    /\ pulls[b] > 0 => b \in PullBranches
    /\ /\ b \in PullBranches /\ branchPushes[b] > 0 /\ LastPush(b) = "commits"
       /\ pushPc[b][branchPushes[b]] \in {"ignored", "opened", "refused"}
       => IsPulled(b)

AutoPullInv == AutoPullTypeOK /\ NotYetPushed /\ StaysAhead /\ PushedIsPulled
=============================================================================
