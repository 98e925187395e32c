----------------------------- MODULE Auth_proofs -----------------------------
(***************************************************************************)
(* Proofs about Auth: what is in the shared maps was an answer of GitHub's *)
(* to the question its key asks, so that nobody is accepted who was not,   *)
(* at some time in the life of the process, a member of a team that had    *)
(* push access, for any number of handlers, teams and members.             *)
(***************************************************************************)
EXTENDS Auth, TLAPS

-----------------------------------------------------------------------------
\* The invariant, part by part: what a step does not touch, it keeps.
GitHubType   == members \in [Teams -> SUBSET Logins] /\ access \in [Teams -> Levels]
CachesType   == /\ teamsCache \in {None} \cup SUBSET Teams
                /\ teamMembershipCache \in [Teams \X Logins -> {"", "YES", "NO"}]
                /\ teamHasPushAccessCache \in [Teams -> {"", "pull", "push"}]
HandlersType == /\ pc \in [Handlers -> Steps]
                /\ rest \in [Handlers -> SUBSET Teams]
                /\ team \in [Handlers -> Teams \cup {None}]
                /\ answer \in [Handlers -> {"", "YES", "NO", "pull", "push"}]
                /\ page \in [Handlers -> SUBSET Teams]
HistoryType  == /\ joined \subseteq Teams \X Logins /\ left \subseteq Teams \X Logins
                /\ opened \subseteq Teams /\ shut \subseteq Teams
CountsType   == /\ changes \in 0..MaxChanges /\ errors \in 0..MaxErrors
                /\ crashes \in 0..MaxCrashes
Answers      == \A h \in Handlers : AnswerWasTrue(h)

Parts == /\ GitHubType /\ CachesType /\ HandlersType /\ HistoryType /\ CountsType
         /\ CachedWasTrue /\ Answers /\ NowIsHistory

LEMMA IInvParts == (IInv <=> Parts) /\ (IInv' <=> Parts')
BY DEF IInv, TypeOK, Parts, GitHubType, CachesType, HandlersType, HistoryType, CountsType,
   Answers

LEMMA Bounds ==
  MaxChanges \in Nat /\ MaxErrors \in Nat /\ MaxCrashes \in Nat
BY ConstantsAssumption

LEMMA CountUp ==
  ASSUME NEW max \in Nat, NEW n \in 0..max, n < max
  PROVE  n + 1 \in 0..max
OBVIOUS

LEMMA NowType == MembersNow \subseteq Teams \X Logins /\ PushingNow \subseteq Teams
BY DEF MembersNow, PushingNow

LEMMA MemberNow ==
  ASSUME NEW t \in Teams, NEW login \in Logins
  PROVE  <<t, login>> \in MembersNow <=> login \in members[t]
BY DEF MembersNow

\* A handler's step leaves GitHub and its history alone.
LEMMA KeepGitHub ==
  ASSUME GitHubType, HistoryType, NowIsHistory, UNCHANGED <<github, history>>
  PROVE  GitHubType' /\ HistoryType' /\ NowIsHistory'
BY DEF GitHubType, HistoryType, NowIsHistory, MembersNow, PushingNow, github, history

LEMMA KeepCaches ==
  ASSUME CachesType, CachedWasTrue, UNCHANGED <<caches, history>>
  PROVE  CachesType' /\ CachedWasTrue'
BY DEF CachesType, CachedWasTrue, cacheKeyIsTeamMember, caches, history

LEMMA KeepCounts ==
  ASSUME CountsType, UNCHANGED counts
  PROVE  CountsType'
BY DEF CountsType, counts

LEMMA FailCounts ==
  ASSUME CountsType, UNCHANGED <<changes, crashes>>, UNCHANGED errors \/ Fail
  PROVE  CountsType'
<1>1. errors' \in 0..MaxErrors
  BY CountUp, Bounds DEF CountsType, Fail
<1>2. QED BY <1>1 DEF CountsType

\* It is enough to look at the handler that took the step.
LEMMA OneAnswer ==
  ASSUME NEW h \in Handlers, Answers, UNCHANGED history, AnswerWasTrue(h)',
         \A g \in Handlers \ {h} :
           pc'[g] = pc[g] /\ team'[g] = team[g] /\ answer'[g] = answer[g]
  PROVE  Answers'
<1>1. ASSUME NEW g \in Handlers, g # h
      PROVE  AnswerWasTrue(g)'
  <2>1. pc'[g] = pc[g] /\ team'[g] = team[g] /\ answer'[g] = answer[g]
    BY <1>1
  <2>2. AnswerWasTrue(g)
    BY DEF Answers
  <2>3. QED BY <2>1, <2>2 DEF AnswerWasTrue, history
<1>2. QED BY <1>1 DEF Answers

LEMMA InitIInv == Init => IInv
<1>. SUFFICES ASSUME Init PROVE Parts
  BY IInvParts
<1>1. GitHubType /\ HistoryType /\ NowIsHistory
  BY ConstantsAssumption, NowType DEF Init, GitHubType, HistoryType, NowIsHistory
<1>2. CachesType /\ CachedWasTrue
  BY DEF Init, CachesType, CachedWasTrue, cacheKeyIsTeamMember, NoMemberships, NoAccess
<1>3. HandlersType
  BY DEF Init, HandlersType, Steps, Idle, NoTeams, NoTeam, NoAnswer
<1>4. CountsType
  BY Bounds DEF Init, CountsType
<1>5. Answers
  BY DEF Init, Answers, AnswerWasTrue, Idle
<1>6. QED BY <1>1, <1>2, <1>3, <1>4, <1>5 DEF Parts

\* The steps before a team is chosen: what is known of h is nothing.
LEMMA TeamsIInv ==
  ASSUME IInv, NEW h \in Handlers,
         Ask(h) \/ LookUpTeams(h) \/ ListTeams(h) \/ GetOrg(h) \/ StoreTeams(h)
  PROVE  IInv'
<1>1. Parts
  BY IInvParts
<1>2. /\ UNCHANGED <<github, history, teamMembershipCache, teamHasPushAccessCache,
                     team, answer>>
      /\ UNCHANGED <<changes, crashes>> /\ (UNCHANGED errors \/ Fail)
  BY DEF Ask, LookUpTeams, ListTeams, GetOrg, StoreTeams, caches, counts
<1>3. HandlersType /\ CachesType
  BY <1>1 DEF Parts
<1>4. \E p \in {"teams", "listTeams", "getOrg", "storeTeams", "next", "denied"} :
        pc' = [pc EXCEPT ![h] = p]
  BY DEF Ask, LookUpTeams, ListTeams, GetOrg, StoreTeams, Goto
<1>5. rest' \in [Handlers -> SUBSET Teams] /\ page' \in [Handlers -> SUBSET Teams]
  BY <1>3 DEF HandlersType, CachesType, Ask, LookUpTeams, ListTeams, GetOrg, StoreTeams
<1>6. HandlersType'
  BY <1>2, <1>3, <1>4, <1>5 DEF HandlersType, Steps
<1>7. teamsCache' = teamsCache \/ teamsCache' = page[h]
  BY DEF Ask, LookUpTeams, ListTeams, GetOrg, StoreTeams, caches
<1>8. CachesType'
  BY <1>2, <1>3, <1>7 DEF CachesType, HandlersType
<1>9. CachedWasTrue'
  BY <1>1, <1>2 DEF Parts, CachedWasTrue, cacheKeyIsTeamMember, history
<1>10. AnswerWasTrue(h)'
  BY <1>3, <1>4 DEF HandlersType, AnswerWasTrue
<1>11. Answers'
  BY <1>1, <1>2, <1>3, <1>4, <1>10, OneAnswer DEF Parts, HandlersType
<1>12. CountsType'
  BY <1>1, <1>2, KeepCounts, FailCounts DEF Parts
<1>13. QED
  BY <1>1, <1>2, <1>6, <1>8, <1>9, <1>11, <1>12, KeepGitHub, IInvParts DEF Parts

\* The choice of the next team and the look into the two caches.
LEMMA NextTeamIInv ==
  ASSUME IInv, NEW h \in Handlers, NextTeam(h)
  PROVE  IInv'
<1>1. Parts
  BY IInvParts
<1>2. UNCHANGED <<github, caches, answer, page, history, counts>>
  BY DEF NextTeam
<1>3. HandlersType
  BY <1>1 DEF Parts
<1>4. CASE rest[h] = {} /\ Goto(h, "next", "denied") /\ UNCHANGED <<rest, team>>
  <2>1. HandlersType' /\ AnswerWasTrue(h)'
    BY <1>2, <1>3, <1>4 DEF HandlersType, Goto, Steps, AnswerWasTrue
  <2>2. Answers'
    BY <1>1, <1>2, <1>3, <1>4, <2>1, OneAnswer DEF Parts, HandlersType, Goto
  <2>3. QED
    BY <1>1, <1>2, <2>1, <2>2, KeepGitHub, KeepCaches, KeepCounts, IInvParts DEF Parts
<1>5. ASSUME NEW t \in rest[h], Goto(h, "next", "member"),
             team' = [team EXCEPT ![h] = t], rest' = [rest EXCEPT ![h] = @ \ {t}]
      PROVE  IInv'
  <2>1. t \in Teams
    BY <1>3 DEF HandlersType
  <2>2. HandlersType' /\ AnswerWasTrue(h)'
    BY <1>2, <1>3, <1>5, <2>1 DEF HandlersType, Goto, Steps, AnswerWasTrue
  <2>3. Answers'
    BY <1>1, <1>2, <1>3, <1>5, <2>2, OneAnswer DEF Parts, HandlersType, Goto
  <2>4. QED
    BY <1>1, <1>2, <2>2, <2>3, KeepGitHub, KeepCaches, KeepCounts, IInvParts DEF Parts
<1>6. QED BY <1>4, <1>5 DEF NextTeam

LEMMA LookUpMemberIInv ==
  ASSUME IInv, NEW h \in Handlers, LookUpMember(h)
  PROVE  IInv'
<1>1. Parts
  BY IInvParts
<1>2. UNCHANGED <<github, caches, rest, team, answer, page, history, counts>>
  BY DEF LookUpMember
<1>3. HandlersType
  BY <1>1 DEF Parts
<1>4. team[h] \in Teams /\ Commenter[h] \in Logins
  BY <1>1, ConstantsAssumption DEF Parts, Answers, AnswerWasTrue, LookUpMember, Goto
<1>5. teamMembershipCache[Key(h)] = "YES" => <<team[h], Commenter[h]>> \in joined
  BY <1>1, <1>4 DEF Parts, CachedWasTrue, cacheKeyIsTeamMember, Key
<1>6. HandlersType' /\ AnswerWasTrue(h)'
  BY <1>2, <1>3, <1>4, <1>5
     DEF HandlersType, LookUpMember, Goto, Steps, AnswerWasTrue, history
<1>7. Answers'
  BY <1>1, <1>2, <1>3, <1>6, OneAnswer DEF Parts, HandlersType, LookUpMember, Goto
<1>8. QED
  BY <1>1, <1>2, <1>6, <1>7, KeepGitHub, KeepCaches, KeepCounts, IInvParts DEF Parts

LEMMA LookUpPushIInv ==
  ASSUME IInv, NEW h \in Handlers, LookUpPush(h)
  PROVE  IInv'
<1>1. Parts
  BY IInvParts
<1>2. UNCHANGED <<github, caches, rest, team, answer, page, history, counts>>
  BY DEF LookUpPush
<1>3. HandlersType
  BY <1>1 DEF Parts
<1>4. team[h] \in Teams /\ <<team[h], Commenter[h]>> \in joined
  BY <1>1 DEF Parts, Answers, AnswerWasTrue, LookUpPush, Goto
<1>5. teamHasPushAccessCache[team[h]] = "push" => team[h] \in opened
  BY <1>1, <1>4 DEF Parts, CachedWasTrue
<1>6. HandlersType' /\ AnswerWasTrue(h)'
  BY <1>2, <1>3, <1>4, <1>5
     DEF HandlersType, LookUpPush, Goto, Steps, AnswerWasTrue, history
<1>7. Answers'
  BY <1>1, <1>2, <1>3, <1>6, OneAnswer DEF Parts, HandlersType, LookUpPush, Goto
<1>8. QED
  BY <1>1, <1>2, <1>6, <1>7, KeepGitHub, KeepCaches, KeepCounts, IInvParts DEF Parts

\* The two calls: the answer is what GitHub has now, which is part of its history.
LEMMA GetMembershipIInv ==
  ASSUME IInv, NEW h \in Handlers, GetMembership(h)
  PROVE  IInv'
<1>1. Parts
  BY IInvParts
<1>2. /\ UNCHANGED <<github, caches, rest, team, page, history, changes, crashes>>
      /\ UNCHANGED errors \/ Fail
  BY DEF GetMembership
<1>3. HandlersType
  BY <1>1 DEF Parts
<1>4. team[h] \in Teams /\ Commenter[h] \in Logins
  BY <1>1, ConstantsAssumption DEF Parts, Answers, AnswerWasTrue, GetMembership, Goto
<1>5. /\ Commenter[h] \in members[team[h]] => <<team[h], Commenter[h]>> \in joined
      /\ Commenter[h] \notin members[team[h]] => <<team[h], Commenter[h]>> \in left
  BY <1>1, <1>4, MemberNow DEF Parts, NowIsHistory
<1>6. HandlersType' /\ AnswerWasTrue(h)'
  BY <1>2, <1>3, <1>4, <1>5
     DEF HandlersType, GetMembership, Goto, Steps, AnswerWasTrue, history
<1>7. Answers'
  BY <1>1, <1>2, <1>3, <1>6, OneAnswer DEF Parts, HandlersType, GetMembership, Goto
<1>8. QED
  BY <1>1, <1>2, <1>6, <1>7, KeepGitHub, KeepCaches, FailCounts, IInvParts DEF Parts

LEMMA GetTeamRepoIInv ==
  ASSUME IInv, NEW h \in Handlers, GetTeamRepo(h)
  PROVE  IInv'
<1>1. Parts
  BY IInvParts
<1>2. /\ UNCHANGED <<github, caches, rest, team, page, history, changes, crashes>>
      /\ UNCHANGED errors \/ Fail
  BY DEF GetTeamRepo
<1>3. HandlersType
  BY <1>1 DEF Parts
<1>4. /\ team[h] \in Teams /\ <<team[h], Commenter[h]>> \in joined
      /\ access[team[h]] \in {"none", "pull", "push"}
  BY <1>1 DEF Parts, Answers, AnswerWasTrue, GetTeamRepo, Goto, GitHubType, Levels
<1>5. /\ access[team[h]] = "push" => team[h] \in opened
      /\ access[team[h]] = "pull" => team[h] \in shut
  BY <1>1, <1>4 DEF Parts, NowIsHistory, PushingNow
<1>6. HandlersType' /\ AnswerWasTrue(h)'
  BY <1>2, <1>3, <1>4, <1>5
     DEF HandlersType, GetTeamRepo, Goto, Steps, AnswerWasTrue, history
<1>7. Answers'
  BY <1>1, <1>2, <1>3, <1>6, OneAnswer DEF Parts, HandlersType, GetTeamRepo, Goto
<1>8. QED
  BY <1>1, <1>2, <1>6, <1>7, KeepGitHub, KeepCaches, FailCounts, IInvParts DEF Parts

\* The two stores: the answer goes under the key of the question it answers.
LEMMA StoreMemberIInv ==
  ASSUME IInv, NEW h \in Handlers, StoreMember(h)
  PROVE  IInv'
<1>1. Parts
  BY IInvParts
<1>2. /\ UNCHANGED <<github, teamsCache, teamHasPushAccessCache, rest, team, page, history,
                     counts>>
      /\ teamMembershipCache' =
           [teamMembershipCache EXCEPT ![<<team[h], Commenter[h]>>] = answer[h]]
  BY DEF StoreMember, Key, cacheKeyIsTeamMember
<1>3. HandlersType /\ CachesType
  BY <1>1 DEF Parts
<1>4. /\ team[h] \in Teams /\ Commenter[h] \in Logins
      /\ answer[h] \in {"YES", "NO"}
      /\ answer[h] = "YES" => <<team[h], Commenter[h]>> \in joined
      /\ answer[h] = "NO"  => <<team[h], Commenter[h]>> \in left
  BY <1>1, ConstantsAssumption DEF Parts, Answers, AnswerWasTrue, StoreMember, Goto
<1>5. CachesType'
  BY <1>2, <1>3, <1>4 DEF CachesType
<1>6. CachedWasTrue'
  <2>1. ASSUME NEW t \in Teams, NEW login \in Logins
        PROVE  /\ teamMembershipCache'[<<t, login>>] = "YES" => <<t, login>> \in joined
               /\ teamMembershipCache'[<<t, login>>] = "NO"  => <<t, login>> \in left
    <3>1. CASE <<t, login>> = <<team[h], Commenter[h]>>
      BY <1>2, <1>3, <1>4, <3>1 DEF CachesType
    <3>2. CASE <<t, login>> # <<team[h], Commenter[h]>>
      BY <1>1, <1>2, <1>3, <3>2 DEF Parts, CachesType, CachedWasTrue, cacheKeyIsTeamMember
    <3>3. QED BY <3>1, <3>2
  <2>2. QED BY <1>1, <1>2, <2>1 DEF Parts, CachedWasTrue, cacheKeyIsTeamMember, history
<1>7. HandlersType' /\ AnswerWasTrue(h)'
  BY <1>2, <1>3, <1>4 DEF HandlersType, StoreMember, Goto, Steps, AnswerWasTrue, history
<1>8. Answers'
  BY <1>1, <1>2, <1>3, <1>7, OneAnswer DEF Parts, HandlersType, StoreMember, Goto
<1>9. QED
  BY <1>1, <1>2, <1>5, <1>6, <1>7, <1>8, KeepGitHub, KeepCounts, IInvParts DEF Parts

LEMMA StoreRepoIInv ==
  ASSUME IInv, NEW h \in Handlers, StoreRepo(h)
  PROVE  IInv'
<1>1. Parts
  BY IInvParts
<1>2. /\ UNCHANGED <<github, teamsCache, teamMembershipCache, rest, team, page, history,
                     counts>>
      /\ teamHasPushAccessCache' = [teamHasPushAccessCache EXCEPT ![team[h]] = answer[h]]
  BY DEF StoreRepo
<1>3. HandlersType /\ CachesType
  BY <1>1 DEF Parts
<1>4. /\ team[h] \in Teams /\ <<team[h], Commenter[h]>> \in joined
      /\ answer[h] \in {"pull", "push"}
      /\ answer[h] = "push" => team[h] \in opened
      /\ answer[h] = "pull" => team[h] \in shut
  BY <1>1 DEF Parts, Answers, AnswerWasTrue, StoreRepo, Goto
<1>5. CachesType'
  BY <1>2, <1>3, <1>4 DEF CachesType
<1>6. CachedWasTrue'
  <2>1. ASSUME NEW t \in Teams
        PROVE  /\ teamHasPushAccessCache'[t] = "push" => t \in opened
               /\ teamHasPushAccessCache'[t] = "pull" => t \in shut
    <3>1. CASE t = team[h]
      BY <1>2, <1>3, <1>4, <3>1 DEF CachesType
    <3>2. CASE t # team[h]
      BY <1>1, <1>2, <1>3, <3>2 DEF Parts, CachesType, CachedWasTrue
    <3>3. QED BY <3>1, <3>2
  <2>2. QED BY <1>1, <1>2, <2>1 DEF Parts, CachedWasTrue, cacheKeyIsTeamMember, history
<1>7. HandlersType' /\ AnswerWasTrue(h)'
  BY <1>2, <1>3, <1>4 DEF HandlersType, StoreRepo, Goto, Steps, AnswerWasTrue, history
<1>8. Answers'
  BY <1>1, <1>2, <1>3, <1>7, OneAnswer DEF Parts, HandlersType, StoreRepo, Goto
<1>9. QED
  BY <1>1, <1>2, <1>5, <1>6, <1>7, <1>8, KeepGitHub, KeepCounts, IInvParts DEF Parts

\* A new process remembers nothing, and its history begins with GitHub as it is.
LEMMA CrashIInv == ASSUME IInv, Crash PROVE IInv'
<1>1. Parts
  BY IInvParts
<1>2. GitHubType' /\ HistoryType' /\ NowIsHistory'
  BY <1>1, NowType
     DEF Parts, GitHubType, HistoryType, Crash, NowIsHistory, MembersNow, PushingNow, github
<1>3. CachesType' /\ CachedWasTrue'
  BY DEF Crash, CachesType, CachedWasTrue, cacheKeyIsTeamMember, NoMemberships, NoAccess
<1>4. HandlersType'
  BY DEF Crash, HandlersType, Steps, Idle, NoTeams, NoTeam, NoAnswer
<1>5. Answers'
  BY DEF Crash, Answers, AnswerWasTrue, Idle
<1>6. CountsType'
  <2>1. changes' = changes /\ crashes' \in 0..MaxCrashes
    BY <1>1, CountUp, Bounds DEF Parts, CountsType, Crash
  <2>2. errors' \in 0..MaxErrors
    BY <1>1, CountUp, Bounds DEF Parts, CountsType, Crash, NoResponse
  <2>3. QED BY <1>1, <2>1, <2>2 DEF Parts, CountsType
<1>7. QED BY <1>2, <1>3, <1>4, <1>5, <1>6, IInvParts DEF Parts

\* Histories grow with what GitHub changes to.
LEMMA ChangeIInv == ASSUME IInv, Change PROVE IInv'
<1>1. Parts
  BY IInvParts
<1>2. /\ MembersNow' \subseteq Teams \X Logins /\ PushingNow' \subseteq Teams
      /\ joined \subseteq joined' /\ left \subseteq left'
      /\ opened \subseteq opened' /\ shut \subseteq shut'
      /\ UNCHANGED <<caches, pc, rest, team, answer, page, errors, crashes>>
  BY DEF Change, MembersNow, PushingNow
<1>3. GitHubType'
  <2>1. GitHubType
    BY <1>1 DEF Parts
  <2>2. CASE \E t \in Teams : \E level \in Levels : /\ access' = [access EXCEPT ![t] = level]
                                                   /\ UNCHANGED members
    BY <2>1, <2>2 DEF GitHubType
  <2>3. ASSUME NEW t \in Teams, NEW login \in Logins, UNCHANGED access,
               members' = [members EXCEPT ![t] = IF login \in @ THEN @ \ {login}
                                                                ELSE @ \cup {login}]
        PROVE  GitHubType'
    <3>1. (IF login \in members[t] THEN members[t] \ {login} ELSE members[t] \cup {login})
            \in SUBSET Logins
      BY <2>1 DEF GitHubType
    <3>2. QED BY <2>1, <2>3, <3>1 DEF GitHubType
  <2>4. QED BY <2>2, <2>3 DEF Change
<1>4. HistoryType' /\ NowIsHistory'
  BY <1>1, <1>2 DEF Parts, HistoryType, NowIsHistory, Change
<1>5. CachesType' /\ HandlersType'
  BY <1>1, <1>2 DEF Parts, CachesType, HandlersType, caches
<1>6. CachedWasTrue'
  BY <1>1, <1>2 DEF Parts, CachedWasTrue, cacheKeyIsTeamMember, caches
<1>7. Answers'
  BY <1>1, <1>2 DEF Parts, Answers, AnswerWasTrue
<1>8. CountsType'
  <2>1. changes' \in 0..MaxChanges
    BY <1>1, CountUp, Bounds DEF Parts, CountsType, Change
  <2>2. QED BY <1>1, <1>2, <2>1 DEF Parts, CountsType
<1>9. QED BY <1>3, <1>4, <1>5, <1>6, <1>7, <1>8, IInvParts DEF Parts

-----------------------------------------------------------------------------
LEMMA NextIInv == IInv /\ [Next]_vars => IInv'
<1>. SUFFICES ASSUME IInv, [Next]_vars PROVE IInv'
  OBVIOUS
<1>1. CASE UNCHANGED vars
  <2>1. UNCHANGED <<github, caches, history, pc, rest, team, answer, page, counts>>
    BY <1>1 DEF vars
  <2>2. Parts
    BY IInvParts
  <2>3. HandlersType' /\ Answers'
    BY <2>1, <2>2 DEF Parts, HandlersType, Answers, AnswerWasTrue, history
  <2>4. QED
    BY <2>1, <2>2, <2>3, KeepGitHub, KeepCaches, KeepCounts, IInvParts DEF Parts
<1>2. ASSUME NEW h \in Handlers, Ask(h) \/ Handler(h)
      PROVE  IInv'
  BY <1>2, TeamsIInv, NextTeamIInv, LookUpMemberIInv, LookUpPushIInv, GetMembershipIInv,
     GetTeamRepoIInv, StoreMemberIInv, StoreRepoIInv DEF Handler
<1>3. CASE Crash
  BY <1>3, CrashIInv
<1>4. CASE Change
  BY <1>4, ChangeIInv
<1>5. QED BY <1>1, <1>2, <1>3, <1>4 DEF Next

\* Every answer in the three maps was GitHub's answer to the question of its key at
\* some time since the process started, however handlers write over each other, and
\* nothing else is ever stored (auth.go:53-118).
THEOREM Invariance == Spec => []IInv
BY InitIInv, NextIInv, PTL DEF Spec

\* An author is accepted only when one and the same team had them as a member and
\* had push access at some time since the process started (auth.go:31-41).
THEOREM Granted == Spec => []GrantWasTrue
<1>1. IInv => GrantWasTrue
  BY DEF IInv, AnswerWasTrue, GrantWasTrue, Justified
<1>2. QED BY <1>1, Invariance, PTL
=============================================================================
