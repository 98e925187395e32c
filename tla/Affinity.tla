------------------------------- MODULE Affinity -------------------------------
(***************************************************************************)
(* Package affinity and the ctx.Context it works on.                       *)
(*                                                                         *)
(* The server has one Context, which every handler of every delivery       *)
(* writes and reads: a handler puts its issue there (SetAuthor, SetIssue)  *)
(* and takes it from there when it checks the repository, picks captains   *)
(* and calls GitHub.  Handlers are goroutines and nothing orders their     *)
(* accesses; the fields of Issue are written one at a time, in any order.  *)
(* statStatus, the handler of status events, writes the same Issue.        *)
(***************************************************************************)
EXTENDS Integers, Sequences, FiniteSets

CONSTANTS
  Handlers,    \* handler invocations: one delivery may fire several
  Event,       \* Event[h]: the handler function, and what its delivery carries
  Repos,       \* repositories (owner and name)
  Enabled,     \* repositories given to AddRepo
  Logins,
  Bot,         \* the login the server is authenticated as
  Teams,       \* the affinity teams, in the order the server adds them
  Members,     \* Members[t]: the maintainers of team t
  Nobody,      \* the login "", and no user at all
  NoRepo,      \* the owner and the name ""
  MaxNum,      \* issues and pull requests are numbered 1..MaxNum
  ApiErrors    \* may calls to GitHub fail?

Nums    == 1..MaxNum
TeamIDs == { Teams[i] : i \in DOMAIN Teams }

EventType == [kind : {"assignPR", "requestReview", "assignIssue", "fromComment",
                      "statStatus"},
              repo : Repos, num : Nums, sender : Logins,
              acceptable : BOOLEAN,  \* action "opened"; of a comment: not "deleted"
              assigned : BOOLEAN,    \* the event has an assignee
              mentions : SUBSET TeamIDs]

ASSUME ConstantsAssumption ==
  /\ Event \in [Handlers -> EventType]
  /\ Enabled \subseteq Repos
  /\ Bot \in Logins /\ IsFiniteSet(Logins)
  /\ Teams \in Seq(TeamIDs)
  /\ Members \in [TeamIDs -> SUBSET Logins]
  /\ Nobody \notin Logins /\ NoRepo \notin Repos
  /\ MaxNum \in Nat /\ ApiErrors \in BOOLEAN

VARIABLES
  issue,       \* context.Issue
  authed,      \* context.currentlyAuthedGitHubUser
  teams,       \* Handler.teams: team IDs and their captains
  loaded,      \* how many of Teams the starting server has asked for
  pc,          \* pc[h]: where handler h is
  unwritten,   \* unwritten[h]: the fields its SetIssue has yet to write
  victims,     \* victims[h]: the captains it picked
  calls,       \* GitHub: the assignments and review requests it has granted
  overlapped   \* history variable: did two handlers ever overlap?

vars == <<issue, authed, teams, loaded, pc, unwritten, victims, calls, overlapped>>

Fields    == {"author", "repo", "num"}
IssueType == [author : Logins \cup {Nobody}, repo : Repos \cup {NoRepo},
              num : Nums \cup {0, -1}]

TypeOK ==
  /\ issue \in IssueType
  /\ authed \in {Nobody, Bot}
  /\ teams \in Seq([id : TeamIDs, captains : SUBSET Logins])
  /\ loaded \in 0..Len(Teams)
  /\ pc \in [Handlers -> {"idle", "author", "issue", "enabled", "sender", "pick", "call",
                          "returned", "failed"}]
  /\ unwritten \in [Handlers -> SUBSET Fields]
  /\ victims \in [Handlers -> SUBSET Logins]
  /\ calls \in SUBSET [by : Handlers, repo : Repos, num : Nums, logins : SUBSET Logins]
  /\ overlapped \in BOOLEAN

Init ==
  /\ issue = [author |-> Nobody, repo |-> NoRepo, num |-> 0]
  /\ authed = Nobody
  /\ teams = <<>> /\ loaded = 0
  /\ pc = [h \in Handlers |-> "idle"]
  /\ unwritten = [h \in Handlers |-> {}]
  /\ victims = [h \in Handlers |-> {}]
  /\ calls = {}
  /\ overlapped = FALSE

-----------------------------------------------------------------------------
\* The server starts: it asks for the teams one by one, and goes on without one
\* that it cannot get.  A captain is left out when GitHubAuthedAs answers that it
\* is the bot, which it cannot while the lookup of the bot's own login fails; a
\* failed lookup is repeated for the next captain.
AddTeam ==
  LET id == Teams[loaded + 1]
      Add(users) == teams' = Append(teams, [id |-> id, captains |-> users])
  IN  /\ loaded < Len(Teams)
      /\ loaded' = loaded + 1
      /\ \/ \E i \in DOMAIN teams : teams[i].id = id
            /\ UNCHANGED <<teams, authed>>
         \/ /\ \A i \in DOMAIN teams : teams[i].id # id
            /\ \/ /\ Add(Members[id] \ {Bot})
                  /\ authed' = IF Members[id] = {} THEN authed ELSE Bot
               \/ /\ ApiErrors /\ authed = Nobody
                  /\ Add(Members[id])
                  /\ authed' \in {Nobody} \cup IF Members[id] \ {Bot} = {} THEN {} ELSE {Bot}
               \/ ApiErrors /\ UNCHANGED <<teams, authed>>
      /\ UNCHANGED <<issue, pc, unwritten, victims, calls, overlapped>>

InFlight(h) == pc[h] \notin {"idle", "returned", "failed"}

Goto(h, from, to) == pc[h] = from /\ pc' = [pc EXCEPT ![h] = to]

\* The handler functions start when all teams have been asked for.  statStatus
\* does not set an author.
Start(h) ==
  /\ loaded = Len(Teams)
  /\ overlapped' = (overlapped \/ \E g \in Handlers : InFlight(g))
  /\ IF Event[h].kind = "statStatus"
       THEN Goto(h, "idle", "issue") /\ unwritten' = [unwritten EXCEPT ![h] = Fields]
       ELSE Goto(h, "idle", "author") /\ UNCHANGED unwritten
  /\ UNCHANGED <<issue, authed, teams, loaded, victims, calls>>

SetAuthor(h) ==
  /\ Goto(h, "author", "issue")
  /\ issue' = [issue EXCEPT !.author = Event[h].sender]
  /\ unwritten' = [unwritten EXCEPT ![h] = Fields]
  /\ UNCHANGED <<authed, teams, loaded, victims, calls, overlapped>>

\* Mutant of NewIssue: a number that is set is left alone.
NewIssue_KeepsNum(h) ==
  [author |-> Nobody, repo |-> Event[h].repo,
   num |-> IF issue.num > 0 THEN issue.num
           ELSE IF Event[h].kind = "statStatus" THEN -1 ELSE Event[h].num]

\* The struct that SetIssue stores has no author.
NewIssue(h) ==
  [author |-> Nobody, repo |-> Event[h].repo,
   num |-> IF Event[h].kind = "statStatus" THEN -1 ELSE Event[h].num]

SetIssue(h) ==
  /\ pc[h] = "issue"
  /\ \E field \in unwritten[h] :
       /\ issue' = [issue EXCEPT ![field] = NewIssue(h)[field]]
       /\ unwritten' = [unwritten EXCEPT ![h] = @ \ {field}]
       /\ IF unwritten[h] # {field} THEN UNCHANGED pc
          ELSE pc' = [pc EXCEPT ![h] = IF Event[h].kind = "statStatus" THEN "returned"
                                                                      ELSE "enabled"]
  /\ UNCHANGED <<authed, teams, loaded, victims, calls, overlapped>>

\* enabledForRepo(context.Issue.Owner, context.Issue.Repo), then the checks of the
\* event.  Only the review handler goes without the last two.
CheckEnabled(h) ==
  /\ IF issue.repo \notin Enabled \/ ~Event[h].acceptable
        \/ (Event[h].kind # "requestReview" /\ Event[h].assigned)
       THEN Goto(h, "enabled", "failed")
       ELSE Goto(h, "enabled", IF Event[h].kind = "requestReview" THEN "pick" ELSE "sender")
  /\ UNCHANGED <<issue, authed, teams, loaded, unwritten, victims, calls, overlapped>>

\* GitHubAuthedAs(sender): when the bot's login is not known it is looked up, and
\* a failure counts as "no".
CheckSender(h) ==
  /\ \/ /\ Goto(h, "sender", IF Event[h].sender = Bot THEN "failed" ELSE "pick")
        /\ authed' = Bot
     \/ /\ ApiErrors /\ authed = Nobody
        /\ Goto(h, "sender", "pick")
        /\ UNCHANGED authed
  /\ UNCHANGED <<issue, teams, loaded, unwritten, victims, calls, overlapped>>

-----------------------------------------------------------------------------
\* The choice of captains: the sets that each function may return.
RandomCaptainLogins(captains, num) ==
  IF Cardinality(captains) <= num THEN {captains}
  ELSE { s \in SUBSET captains : Cardinality(s) = num }

Shortest(a, b) == IF a <= b THEN a ELSE b

\* Of the logins that were drawn, the first count that are not the excluded one.
RandomCaptainLoginsExcluding(captains, excluded, count) ==
  IF Cardinality(captains) - 1 <= count THEN {captains \ {excluded}}
  ELSE UNION { { s \in SUBSET (drawn \ {excluded}) :
                   Cardinality(s) = Shortest(count, Cardinality(drawn \ {excluded})) }
               : drawn \in RandomCaptainLogins(captains, count + 1) }

\* findAffinityTeam: the first team that the body mentions, if it mentions any.
Mentioned(h)  == { i \in DOMAIN teams : teams[i].id \in Event[h].mentions }
FirstTeams(h) == { i \in Mentioned(h) : \A j \in Mentioned(h) : i <= j }
Wanted(h)     == IF Event[h].kind = "requestReview" THEN 2 ELSE 1

\* Mutant of PickCaptains: the last team of the server instead of the one mentioned.
PickCaptains_AnyTeam(h) ==
  /\ \/ /\ issue.repo # NoRepo /\ issue.num # 0 /\ teams # <<>>
        /\ \E chosen \in RandomCaptainLoginsExcluding(teams[Len(teams)].captains,
                                                     issue.author, Wanted(h)) :
             IF chosen = {} THEN Goto(h, "pick", "failed") /\ UNCHANGED victims
             ELSE Goto(h, "pick", "call") /\ victims' = [victims EXCEPT ![h] = chosen]
     \/ /\ issue.repo = NoRepo \/ issue.num = 0 \/ teams = <<>>
        /\ Goto(h, "pick", "failed") /\ UNCHANGED victims
  /\ UNCHANGED <<issue, authed, teams, loaded, unwritten, calls, overlapped>>

\* assignTeamCaptains and requestReviewFromTeamCaptains, up to the call.
PickCaptains(h) ==
  /\ \/ /\ issue.repo # NoRepo /\ issue.num # 0
        /\ \E i \in FirstTeams(h) :
           \E chosen \in RandomCaptainLoginsExcluding(teams[i].captains,
                                                     issue.author, Wanted(h)) :
             IF chosen = {} THEN Goto(h, "pick", "failed") /\ UNCHANGED victims
             ELSE Goto(h, "pick", "call") /\ victims' = [victims EXCEPT ![h] = chosen]
     \/ /\ issue.repo = NoRepo \/ issue.num = 0 \/ Mentioned(h) = {}
        /\ Goto(h, "pick", "failed") /\ UNCHANGED victims
  /\ UNCHANGED <<issue, authed, teams, loaded, unwritten, calls, overlapped>>

\* AddAssignees, RequestReviewers: of whatever context.Issue refers to now.
\* GitHub knows no issue -1.
CallGitHub(h) ==
  /\ \/ /\ Goto(h, "call", "returned")
        /\ issue.num \in Nums
        /\ calls' = calls \cup {[by |-> h, repo |-> issue.repo, num |-> issue.num,
                                 logins |-> victims[h]]}
     \/ /\ ApiErrors \/ issue.num \notin Nums
        /\ Goto(h, "call", "failed")
        /\ UNCHANGED calls
  /\ victims' = [victims EXCEPT ![h] = {}]
  /\ UNCHANGED <<issue, authed, teams, loaded, unwritten, overlapped>>

Handler(h) == \/ SetAuthor(h) \/ SetIssue(h) \/ CheckEnabled(h) \/ CheckSender(h)
              \/ PickCaptains(h) \/ CallGitHub(h)

Next == AddTeam \/ \E h \in Handlers : Start(h) \/ Handler(h)

Spec == Init /\ [][Next]_vars

-----------------------------------------------------------------------------
\* One after the other, handlers can share the context: each call is for the issue
\* of the handler that makes it, in an enabled repository, whatever the handlers
\* before it, statStatus among them, have left there (handler.go:78-81, 100-103,
\* 131-134, 162-165; jekyll.go:44; affinity.go:36-42, 73-79).
CallsInTurnAreOwn ==
  ~overlapped => \A c \in calls :
    c.repo = Event[c.by].repo /\ c.num = Event[c.by].num /\ c.repo \in Enabled

\* "It keeps track of information pertinent to the request" (context.go:2): a call
\* is for the issue of the request that led to it.
CallsAreOwn ==
  \A c \in calls : c.repo = Event[c.by].repo /\ c.num = Event[c.by].num

\* Whatever the context holds, the people who are asked maintain a team that the
\* text of the event mentions, are as many as the handler wants or one more, and
\* are asked only for events that call for it (affinity.go:16-97, team.go:58-111).
CallsFor(h) == /\ Event[h].acceptable
               /\ Event[h].kind = "requestReview" \/ ~Event[h].assigned

FromTeam(h, logins) == /\ logins # {} /\ Cardinality(logins) <= Wanted(h) + 1
                       /\ \E t \in Event[h].mentions : logins \subseteq Members[t]

AskedAreCaptains == \A c \in calls : CallsFor(c.by) /\ FromTeam(c.by, c.logins)

\* "team captains other than issue author" (affinity.go:33): nobody is asked to
\* look after an issue of their own.
AuthorExcluded == \A c \in calls : Event[c.by].sender \notin c.logins

\* The inductive invariant behind CallsInTurnAreOwn and AskedAreCaptains: as long
\* as nobody overlapped, the context holds what the one handler in flight has
\* written so far.
Alone == ~overlapped => \A g, h \in Handlers : InFlight(g) /\ InFlight(h) => g = h

OwnContext ==
  ~overlapped => \A h \in Handlers :
    /\ pc[h] = "issue" => \A field \in Fields \ unwritten[h] :
                            issue[field] = NewIssue(h)[field]
    /\ pc[h] \in {"enabled", "sender", "pick", "call"} =>
         issue.repo = Event[h].repo /\ issue.num = Event[h].num

Checked ==
  \A h \in Handlers :
    /\ pc[h] \in {"author", "enabled", "sender", "pick", "call"} =>
         Event[h].kind # "statStatus"
    /\ pc[h] \in {"sender", "pick", "call"} =>
         CallsFor(h) /\ (~overlapped => Event[h].repo \in Enabled)
    /\ pc[h] = "call" => issue.repo # NoRepo /\ FromTeam(h, victims[h])

CaptainsAreMembers ==
  \A i \in DOMAIN teams : teams[i].captains \subseteq Members[teams[i].id]

IInv == /\ TypeOK /\ Alone /\ OwnContext /\ Checked /\ CaptainsAreMembers
        /\ CallsInTurnAreOwn /\ AskedAreCaptains
=============================================================================
