--------------------------------- MODULE Auth ---------------------------------
(***************************************************************************)
(* Package auth: may the author of a comment merge?  A member of a team    *)
(* with push access may.  GitHub is asked for the teams of the             *)
(* organisation, for the membership and for the team's access to the       *)
(* repository, and its answers are kept in three maps for the life of the  *)
(* process.                                                                *)
(*                                                                         *)
(* The maps are package variables without a lock, and each webhook's       *)
(* handler is a goroutine.  A handler that is about to store is writing to *)
(* its map: when another one gets at that map, the runtime may notice and  *)
(* stop the process.  The organisation and the repository are fixed.       *)
(***************************************************************************)
EXTENDS Naturals, FiniteSets

CONSTANTS
  Handlers,
  Commenter,    \* Commenter[h]: who commented
  Logins,
  Teams,
  Members,      \* Members[t]: at first, the active members of team t
  Access,       \* Access[t]: at first, what t may do in the repository
  PerPage,      \* ListTeams is called for one page
  None,
  MaxChanges,   \* bound on changes of teams on GitHub
  MaxErrors,    \* bound on calls that fail
  MaxCrashes    \* bound on restarts

Levels == {"none", "pull", "push"}

ASSUME ConstantsAssumption ==
  /\ Commenter \in [Handlers -> Logins]
  /\ IsFiniteSet(Teams) /\ None \notin Teams /\ \A ts \in SUBSET Teams : None # ts
  /\ Members \in [Teams -> SUBSET Logins] /\ Access \in [Teams -> Levels]
  /\ PerPage \in Nat /\ MaxChanges \in Nat /\ MaxErrors \in Nat /\ MaxCrashes \in Nat

VARIABLES
  members,     \* GitHub: the active members of each team
  access,      \* GitHub: the access of each team
  teamsCache, teamMembershipCache, teamHasPushAccessCache,
  pc,          \* pc[h]: where handler h is
  rest,        \* rest[h]: the teams it has yet to try
  team,        \* team[h]: the team it is trying
  answer,      \* answer[h]: what GitHub said, before it is stored
  page,        \* page[h]: the teams GitHub listed, before they are stored
  joined, left, opened, shut,  \* history: the members and non-members, the teams with
                               \* and without push access, since the process started
  changes, errors, crashes

github  == <<members, access>>
caches  == <<teamsCache, teamMembershipCache, teamHasPushAccessCache>>
history == <<joined, left, opened, shut>>
counts  == <<changes, errors, crashes>>
vars    == <<github, caches, pc, rest, team, answer, page, history, counts>>

Steps == {"idle", "teams", "listTeams", "getOrg", "storeTeams", "next",
          "member", "getMember", "storeMember", "push", "getRepo", "storeRepo",
          "granted", "denied"}

TypeOK ==
  /\ members \in [Teams -> SUBSET Logins] /\ access \in [Teams -> Levels]
  /\ teamsCache \in {None} \cup SUBSET Teams
  /\ teamMembershipCache \in [Teams \X Logins -> {"", "YES", "NO"}]
  /\ teamHasPushAccessCache \in [Teams -> {"", "pull", "push"}]
  /\ pc \in [Handlers -> Steps]
  /\ rest \in [Handlers -> SUBSET Teams]
  /\ team \in [Handlers -> Teams \cup {None}]
  /\ answer \in [Handlers -> {"", "YES", "NO", "pull", "push"}]
  /\ page \in [Handlers -> SUBSET Teams]
  /\ joined \subseteq Teams \X Logins /\ left \subseteq Teams \X Logins
  /\ opened \subseteq Teams /\ shut \subseteq Teams
  /\ changes \in 0..MaxChanges /\ errors \in 0..MaxErrors /\ crashes \in 0..MaxCrashes

MembersNow  == { key \in Teams \X Logins : key[2] \in members[key[1]] }
PushingNow  == { t \in Teams : access[t] = "push" }

\* The memory of a process that has just started.
NoMemberships == [key \in Teams \X Logins |-> ""]
NoAccess      == [t \in Teams |-> ""]
Idle          == [h \in Handlers |-> "idle"]
NoTeams       == [h \in Handlers |-> {}]
NoTeam        == [h \in Handlers |-> None]
NoAnswer      == [h \in Handlers |-> ""]

Init ==
  /\ members = Members /\ access = Access
  /\ teamsCache = None /\ teamMembershipCache = NoMemberships
  /\ teamHasPushAccessCache = NoAccess
  /\ pc = Idle /\ rest = NoTeams /\ team = NoTeam /\ answer = NoAnswer /\ page = NoTeams
  /\ joined = MembersNow /\ left = (Teams \X Logins) \ MembersNow
  /\ opened = PushingNow /\ shut = Teams \ PushingNow
  /\ changes = 0 /\ errors = 0 /\ crashes = 0

-----------------------------------------------------------------------------
Goto(h, from, to) == pc[h] = from /\ pc' = [pc EXCEPT ![h] = to]

Fail == errors < MaxErrors /\ errors' = errors + 1

\* A webhook fires the handler.  Who was refused may ask again.
Ask(h) ==
  /\ pc[h] \in {"idle", "granted", "denied"}
  /\ pc' = [pc EXCEPT ![h] = "teams"]
  /\ UNCHANGED <<github, caches, rest, team, answer, page, history, counts>>

\* teamsForOrg: a failure gives no teams, and is not cached.
LookUpTeams(h) ==
  /\ \/ teamsCache = None /\ Goto(h, "teams", "listTeams") /\ UNCHANGED rest
     \/ /\ teamsCache # None /\ Goto(h, "teams", "next")
        /\ rest' = [rest EXCEPT ![h] = teamsCache]
  /\ UNCHANGED <<github, caches, team, answer, page, history, counts>>

\* One page of the organisation's teams, in an order that is GitHub's.
ListTeams(h) ==
  /\ \/ /\ Goto(h, "listTeams", "getOrg") /\ UNCHANGED errors
        /\ \E teams \in SUBSET Teams :
             /\ teams = Teams \/ Cardinality(teams) = PerPage
             /\ Cardinality(teams) <= PerPage
             /\ page' = [page EXCEPT ![h] = teams]
     \/ Fail /\ Goto(h, "listTeams", "denied") /\ UNCHANGED page
  /\ UNCHANGED <<github, caches, rest, team, answer, history, changes, crashes>>

GetOrg(h) ==
  /\ \/ Goto(h, "getOrg", "storeTeams") /\ UNCHANGED errors
     \/ Fail /\ Goto(h, "getOrg", "denied")
  /\ UNCHANGED <<github, caches, rest, team, answer, page, history, changes, crashes>>

\* After a store the map is read again.
StoreTeams(h) ==
  /\ Goto(h, "storeTeams", "teams")
  /\ teamsCache' = page[h]
  /\ page' = [page EXCEPT ![h] = {}]
  /\ UNCHANGED <<github, teamMembershipCache, teamHasPushAccessCache, rest, team, answer,
                 history, counts>>

\* CommenterHasPushAccess: the teams one by one, until one answers both questions.
NextTeam(h) ==
  /\ \/ rest[h] = {} /\ Goto(h, "next", "denied") /\ UNCHANGED <<rest, team>>
     \/ \E t \in rest[h] :
          /\ Goto(h, "next", "member")
          /\ team' = [team EXCEPT ![h] = t] /\ rest' = [rest EXCEPT ![h] = @ \ {t}]
  /\ UNCHANGED <<github, caches, answer, page, history, counts>>

\* Mutant of cacheKeyIsTeamMember: the key does not name the team.
cacheKeyIsTeamMember_AnyTeam(t, login) == <<CHOOSE any \in Teams : TRUE, login>>

cacheKeyIsTeamMember(t, login) == <<t, login>>

Key(h) == cacheKeyIsTeamMember(team[h], Commenter[h])

LookUpMember(h) ==
  /\ \/ Goto(h, "member", "getMember") /\ teamMembershipCache[Key(h)] = ""
     \/ Goto(h, "member", "push")      /\ teamMembershipCache[Key(h)] = "YES"
     \/ Goto(h, "member", "next")      /\ teamMembershipCache[Key(h)] = "NO"
  /\ UNCHANGED <<github, caches, rest, team, answer, page, history, counts>>

\* Mutant of GetMembership: a failed call is cached like a "404 Not Found".
GetMembership_ErrorCached(h) ==
  /\ Goto(h, "getMember", "storeMember")
  /\ \/ /\ UNCHANGED errors
        /\ answer' = [answer EXCEPT ![h] =
             IF Commenter[h] \in members[team[h]] THEN "YES" ELSE "NO"]
     \/ Fail /\ answer' = [answer EXCEPT ![h] = "NO"]
  /\ UNCHANGED <<github, caches, rest, team, page, history, changes, crashes>>

\* GetTeamMembershipByID: not found and not active are "NO"; any other error is no
\* answer at all, and is not cached.
GetMembership(h) ==
  /\ \/ /\ Goto(h, "getMember", "storeMember") /\ UNCHANGED errors
        /\ answer' = [answer EXCEPT ![h] =
             IF Commenter[h] \in members[team[h]] THEN "YES" ELSE "NO"]
     \/ Fail /\ Goto(h, "getMember", "next") /\ UNCHANGED answer
  /\ UNCHANGED <<github, caches, rest, team, page, history, changes, crashes>>

\* After a "404 Not Found" the map is not read again.
StoreMember(h) ==
  /\ \/ Goto(h, "storeMember", "member")
     \/ Goto(h, "storeMember", "next") /\ answer[h] = "NO"
  /\ teamMembershipCache' = [teamMembershipCache EXCEPT ![Key(h)] = answer[h]]
  /\ answer' = [answer EXCEPT ![h] = ""]
  /\ UNCHANGED <<github, teamsCache, teamHasPushAccessCache, rest, team, page, history, counts>>

LookUpPush(h) ==
  /\ \/ Goto(h, "push", "getRepo") /\ teamHasPushAccessCache[team[h]] = ""
     \/ Goto(h, "push", "granted") /\ teamHasPushAccessCache[team[h]] = "push"
     \/ Goto(h, "push", "next")    /\ teamHasPushAccessCache[team[h]] = "pull"
  /\ UNCHANGED <<github, caches, rest, team, answer, page, history, counts>>

\* IsTeamRepoByID: that the team has no access at all is an error like any other.
GetTeamRepo(h) ==
  /\ \/ /\ Goto(h, "getRepo", "storeRepo") /\ access[team[h]] # "none"
        /\ answer' = [answer EXCEPT ![h] = access[team[h]]]
        /\ UNCHANGED errors
     \/ /\ Goto(h, "getRepo", "next") /\ UNCHANGED answer
        /\ \/ access[team[h]] = "none" /\ UNCHANGED errors
           \/ Fail
  /\ UNCHANGED <<github, caches, rest, team, page, history, changes, crashes>>

StoreRepo(h) ==
  /\ Goto(h, "storeRepo", "push")
  /\ teamHasPushAccessCache' = [teamHasPushAccessCache EXCEPT ![team[h]] = answer[h]]
  /\ answer' = [answer EXCEPT ![h] = ""]
  /\ UNCHANGED <<github, teamsCache, teamMembershipCache, rest, team, page, history, counts>>

-----------------------------------------------------------------------------
\* Two handlers are at the same map, and one of them is writing.
Race == \E g, h \in Handlers : g # h /\
          \/ pc[g] = "storeTeams"  /\ pc[h] \in {"teams", "storeTeams"}
          \/ pc[g] = "storeMember" /\ pc[h] \in {"member", "storeMember"}
          \/ pc[g] = "storeRepo"   /\ pc[h] \in {"push", "storeRepo"}

\* The call for a membership gets no response at all: resp is nil.
NoResponse == errors < MaxErrors /\ \E h \in Handlers : pc[h] = "getMember"

\* The process stops, of one of those causes or of another, and starts again.
Crash ==
  /\ crashes < MaxCrashes /\ crashes' = crashes + 1
  /\ \/ Race /\ UNCHANGED errors
     \/ NoResponse /\ errors' = errors + 1
  /\ teamsCache' = None /\ teamMembershipCache' = NoMemberships
  /\ teamHasPushAccessCache' = NoAccess
  /\ pc' = Idle /\ rest' = NoTeams /\ team' = NoTeam /\ answer' = NoAnswer /\ page' = NoTeams
  /\ joined' = MembersNow /\ left' = (Teams \X Logins) \ MembersNow
  /\ opened' = PushingNow /\ shut' = Teams \ PushingNow
  /\ UNCHANGED <<github, changes>>

\* Somebody joins or leaves a team, or the access of a team is changed.
Change ==
  /\ changes < MaxChanges /\ changes' = changes + 1
  /\ \/ /\ \E t \in Teams : \E login \in Logins :
             members' = [members EXCEPT ![t] = IF login \in @ THEN @ \ {login}
                                                              ELSE @ \cup {login}]
        /\ UNCHANGED access
     \/ /\ \E t \in Teams : \E level \in Levels : access' = [access EXCEPT ![t] = level]
        /\ UNCHANGED members
  /\ joined' = joined \cup MembersNow'
  /\ left' = left \cup ((Teams \X Logins) \ MembersNow')
  /\ opened' = opened \cup PushingNow' /\ shut' = shut \cup (Teams \ PushingNow')
  /\ UNCHANGED <<caches, pc, rest, team, answer, page, errors, crashes>>

Handler(h) ==
  \/ LookUpTeams(h) \/ ListTeams(h) \/ GetOrg(h) \/ StoreTeams(h) \/ NextTeam(h)
  \/ LookUpMember(h) \/ GetMembership(h) \/ StoreMember(h)
  \/ LookUpPush(h) \/ GetTeamRepo(h) \/ StoreRepo(h)

Next == \/ \E h \in Handlers : Ask(h) \/ Handler(h)
        \/ Crash \/ Change

Spec == Init /\ [][Next]_vars

\* The goroutines go on, calls return, and who is refused asks again.
FairSpec == Spec /\ \A h \in Handlers : WF_vars(Handler(h)) /\ WF_vars(Ask(h))

-----------------------------------------------------------------------------
\* Whatever handlers leave in the maps for each other, and whatever GitHub changes
\* meanwhile: an author is accepted only when one and the same team had them as a
\* member and had push access, each at some time since the process started
\* (auth.go:31-41, 53-94).  Not at the same time, and not necessarily now.
Justified(h, t)  == <<t, Commenter[h]>> \in joined /\ t \in opened
GrantWasTrue     == \A h \in Handlers :
                      pc[h] = "granted" => \E t \in Teams : Justified(h, t)

\* Nothing that fails is remembered (auth.go:65-68, 83-86, 103-111): an author who
\* has been a maintainer since the process started, and who keeps asking, is
\* accepted in the end, again and again, when all teams are on the first page.
Steady(h) == /\ Cardinality(Teams) <= PerPage
             /\ \E t \in Teams : <<t, Commenter[h]>> \notin left /\ t \notin shut
MaintainersAccepted == \A h \in Handlers : []<>(pc[h] = "granted" \/ ~Steady(h))

\* The inductive invariant behind GrantWasTrue: what is cached, or on its way to a
\* cache, was GitHub's answer to the question its key asks.
CachedWasTrue ==
  /\ \A t \in Teams : \A login \in Logins :
       LET key == cacheKeyIsTeamMember(t, login)
       IN  /\ teamMembershipCache[key] = "YES" => <<t, login>> \in joined
           /\ teamMembershipCache[key] = "NO"  => <<t, login>> \in left
  /\ \A t \in Teams : /\ teamHasPushAccessCache[t] = "push" => t \in opened
                      /\ teamHasPushAccessCache[t] = "pull" => t \in shut

AnswerWasTrue(h) ==
  /\ pc[h] \in {"member", "getMember", "storeMember", "push", "getRepo", "storeRepo",
                "granted"} => team[h] \in Teams
  /\ pc[h] = "storeMember" => answer[h] \in {"YES", "NO"}
  /\ pc[h] = "storeMember" /\ answer[h] = "YES" => <<team[h], Commenter[h]>> \in joined
  /\ pc[h] = "storeMember" /\ answer[h] = "NO"  => <<team[h], Commenter[h]>> \in left
  /\ pc[h] \in {"push", "getRepo", "storeRepo", "granted"} =>
       <<team[h], Commenter[h]>> \in joined
  /\ pc[h] = "storeRepo" => answer[h] \in {"pull", "push"}
  /\ pc[h] = "storeRepo" /\ answer[h] = "push" => team[h] \in opened
  /\ pc[h] = "storeRepo" /\ answer[h] = "pull" => team[h] \in shut
  /\ pc[h] = "granted" => team[h] \in opened

NowIsHistory ==
  /\ MembersNow \subseteq joined /\ (Teams \X Logins) \ MembersNow \subseteq left
  /\ PushingNow \subseteq opened /\ Teams \ PushingNow \subseteq shut

IInv == TypeOK /\ CachedWasTrue /\ (\A h \in Handlers : AnswerWasTrue(h)) /\ NowIsHistory
=============================================================================
