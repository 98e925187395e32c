--------------------------- MODULE Affinity_proofs ---------------------------
(***************************************************************************)
(* Proofs about Affinity: handlers that do not overlap act on their own    *)
(* issue only, and whoever is asked maintains a team the event mentions,   *)
(* for any number of handlers, repositories, teams and members.            *)
(***************************************************************************)
EXTENDS Affinity, FiniteSetTheorems, TLAPS

-----------------------------------------------------------------------------
\* Choosing captains (team.go:58-111): those who are chosen are captains, and at
\* most one more than was asked for.
LEMMA ChosenFew ==
  ASSUME NEW captains \in SUBSET Logins, NEW excluded, NEW count \in Nat,
         NEW chosen \in RandomCaptainLoginsExcluding(captains, excluded, count)
  PROVE  chosen \subseteq captains /\ Cardinality(chosen) <= count + 1
<1>1. IsFiniteSet(captains) /\ Cardinality(captains) \in Nat
  BY ConstantsAssumption, FS_Subset, FS_CardinalityType
<1>2. CASE Cardinality(captains) - 1 <= count
  <2>1. chosen = captains \ {excluded}
    BY <1>2 DEF RandomCaptainLoginsExcluding
  <2>2. Cardinality(chosen) <= Cardinality(captains) /\ Cardinality(chosen) \in Nat
    BY <1>1, <2>1, FS_Subset, FS_CardinalityType
  <2>3. QED BY <1>1, <1>2, <2>1, <2>2
<1>3. CASE ~(Cardinality(captains) - 1 <= count)
  <2>1. PICK drawn \in RandomCaptainLogins(captains, count + 1) :
          /\ chosen \subseteq drawn \ {excluded}
          /\ Cardinality(chosen) = Shortest(count, Cardinality(drawn \ {excluded}))
    BY <1>3 DEF RandomCaptainLoginsExcluding
  <2>2. drawn \subseteq captains
    BY <2>1 DEF RandomCaptainLogins
  <2>3. Cardinality(drawn \ {excluded}) \in Nat
    BY <1>1, <2>2, FS_Subset, FS_CardinalityType
  <2>4. QED BY <2>1, <2>2, <2>3 DEF Shortest
<1>4. QED BY <1>2, <1>3

-----------------------------------------------------------------------------
LEMMA ElementOfSequence ==
  ASSUME NEW S, NEW s \in Seq(S), NEW i \in DOMAIN s
  PROVE  s[i] \in S
OBVIOUS

LEMMA InitIInv == Init => IInv
<1>. SUFFICES ASSUME Init PROVE IInv
  OBVIOUS
<1>1. TypeOK
  <2>1. Len(Teams) \in Nat
    BY ConstantsAssumption
  <2>2. issue \in IssueType
    BY DEF Init, IssueType
  <2>3. pc \in [Handlers -> {"idle", "author", "issue", "enabled", "sender", "pick", "call",
                            "returned", "failed"}]
    BY DEF Init
  <2>4. teams \in Seq([id : TeamIDs, captains : SUBSET Logins]) /\ loaded \in 0..Len(Teams)
    BY <2>1 DEF Init
  <2>5. unwritten \in [Handlers -> SUBSET Fields] /\ victims \in [Handlers -> SUBSET Logins]
    BY DEF Init
  <2>6. QED BY <2>2, <2>3, <2>4, <2>5 DEF Init, TypeOK
<1>2. Alone /\ OwnContext /\ Checked /\ CaptainsAreMembers
  BY DEF Init, Alone, InFlight, OwnContext, Checked, CaptainsAreMembers
<1>3. CallsInTurnAreOwn /\ AskedAreCaptains
  BY DEF Init, CallsInTurnAreOwn, AskedAreCaptains
<1>4. QED BY <1>1, <1>2, <1>3 DEF IInv

\* A server that starts adds members of a team only, and runs no handler.
LEMMA AddTeamIInv ==
  ASSUME IInv, AddTeam
  PROVE  IInv'
<1>. USE DEF IInv
<1>. DEFINE id == Teams[loaded + 1]
<1>0. /\ loaded + 1 \in 1..Len(Teams) /\ id \in TeamIDs
  BY ConstantsAssumption DEF TypeOK, AddTeam, TeamIDs
<1>1. /\ teams' = teams
         \/ \E users \in SUBSET Members[id] :
              teams' = Append(teams, [id |-> id, captains |-> users])
      /\ authed' \in {Nobody, Bot}
  BY DEF TypeOK, AddTeam
<1>2. Members[id] \subseteq Logins
  BY <1>0, ConstantsAssumption
<1>3. TypeOK'
  <2>1. teams' \in Seq([id : TeamIDs, captains : SUBSET Logins])
    <3>1. CASE teams' = teams
      BY <3>1 DEF TypeOK
    <3>2. CASE teams' # teams
      <4>1. PICK users \in SUBSET Members[id] :
              teams' = Append(teams, [id |-> id, captains |-> users])
        BY <1>1, <3>2
      <4>2. [id |-> id, captains |-> users] \in [id : TeamIDs, captains : SUBSET Logins]
        BY <1>0, <1>2
      <4>3. QED BY <4>1, <4>2 DEF TypeOK
    <3>3. QED BY <3>1, <3>2
  <2>2. loaded' \in 0..Len(Teams)
    BY <1>0 DEF TypeOK, AddTeam
  <2>3. QED BY <1>1, <2>1, <2>2 DEF TypeOK, AddTeam
<1>4. CaptainsAreMembers'
  <2>1. CASE teams' = teams
    BY <2>1 DEF CaptainsAreMembers
  <2>2. CASE teams' # teams
    <3>1. PICK users \in SUBSET Members[id] :
            teams' = Append(teams, [id |-> id, captains |-> users])
      BY <1>1, <2>2
    <3>2. teams \in Seq([id : TeamIDs, captains : SUBSET Logins])
      BY DEF TypeOK
    <3>3. \A i \in DOMAIN teams' :
            \/ i \in DOMAIN teams /\ teams'[i] = teams[i]
            \/ teams'[i] = [id |-> id, captains |-> users]
      BY <3>1, <3>2
    <3>4. QED BY <3>1, <3>3 DEF CaptainsAreMembers
  <2>3. QED BY <2>1, <2>2
<1>5. Alone' /\ OwnContext' /\ Checked'
  BY DEF AddTeam, Alone, InFlight, OwnContext, NewIssue, Checked
<1>6. CallsInTurnAreOwn' /\ AskedAreCaptains'
  BY DEF AddTeam, CallsInTurnAreOwn, AskedAreCaptains
<1>7. QED BY <1>3, <1>4, <1>5, <1>6

-----------------------------------------------------------------------------
\* The parts of the invariant that a step of a handler preserves when it does not
\* touch the teams or what GitHub has granted.
LEMMA NoCallStep ==
  ASSUME IInv, UNCHANGED <<teams, calls>>, overlapped => overlapped'
  PROVE  CaptainsAreMembers' /\ CallsInTurnAreOwn' /\ AskedAreCaptains'
BY DEF IInv, CaptainsAreMembers, CallsInTurnAreOwn, AskedAreCaptains

\* A handler in flight that moves on leaves no more handlers in flight.
LEMMA MoveAlone ==
  ASSUME IInv, NEW h \in Handlers, InFlight(h), NEW to, pc' = [pc EXCEPT ![h] = to],
         UNCHANGED overlapped
  PROVE  Alone'
BY DEF IInv, TypeOK, Alone, InFlight

LEMMA StartIInv ==
  ASSUME IInv, NEW h \in Handlers, Start(h)
  PROVE  IInv'
<1>. USE DEF IInv
<1>1. /\ pc[h] = "idle"
      /\ \/ Event[h].kind = "statStatus" /\ pc' = [pc EXCEPT ![h] = "issue"]
         \/ Event[h].kind # "statStatus" /\ pc' = [pc EXCEPT ![h] = "author"]
      /\ unwritten' = unwritten
         \/ unwritten' = [unwritten EXCEPT ![h] = Fields]
  BY DEF Start, Goto
<1>2. pc'[h] = "issue" => unwritten'[h] = Fields
  BY <1>1 DEF Start, Goto, TypeOK
<1>3. overlapped' = (overlapped \/ \E g \in Handlers : InFlight(g))
  BY DEF Start
<1>4. TypeOK'
  BY <1>1, <1>3 DEF Start, TypeOK
<1>5. Alone'
  BY <1>1, <1>3 DEF TypeOK, Alone, InFlight
<1>6. OwnContext'
  <2>. SUFFICES ASSUME ~overlapped', NEW g \in Handlers
       PROVE  /\ pc'[g] = "issue" => \A field \in Fields \ unwritten'[g] :
                                       issue'[field] = NewIssue(g)'[field]
              /\ pc'[g] \in {"enabled", "sender", "pick", "call"} =>
                   issue'.repo = Event[g].repo /\ issue'.num = Event[g].num
    BY DEF OwnContext
  <2>1. CASE g = h
    BY <1>1, <1>2, <2>1 DEF TypeOK
  <2>2. CASE g # h
    BY <1>1, <1>3, <2>2 DEF TypeOK, InFlight
  <2>3. QED BY <2>1, <2>2
<1>7. Checked'
  BY <1>1, <1>3 DEF Start, Checked, TypeOK
<1>8. QED BY <1>3, <1>4, <1>5, <1>6, <1>7, NoCallStep DEF Start

LEMMA SetAuthorIInv ==
  ASSUME IInv, NEW h \in Handlers, SetAuthor(h)
  PROVE  IInv'
<1>. USE DEF IInv
<1>1. /\ pc[h] = "author" /\ pc' = [pc EXCEPT ![h] = "issue"]
      /\ unwritten' = [unwritten EXCEPT ![h] = Fields]
      /\ UNCHANGED <<teams, calls, overlapped>>
  BY DEF SetAuthor, Goto
<1>2. TypeOK'
  <2>1. Event[h].sender \in Logins
    BY ConstantsAssumption DEF EventType
  <2>2. issue' \in IssueType
    BY <2>1 DEF SetAuthor, TypeOK, IssueType
  <2>3. QED BY <1>1, <2>2 DEF SetAuthor, TypeOK
<1>3. Alone'
  BY <1>1, MoveAlone DEF InFlight
<1>4. OwnContext'
  BY <1>1 DEF OwnContext, Alone, InFlight, TypeOK
<1>5. Checked'
  BY <1>1 DEF SetAuthor, Checked, TypeOK
<1>6. QED BY <1>1, <1>2, <1>3, <1>4, <1>5, NoCallStep

LEMMA SetIssueIInv ==
  ASSUME IInv, NEW h \in Handlers, SetIssue(h)
  PROVE  IInv'
<1>. USE DEF IInv
<1>1. PICK field \in unwritten[h] :
        /\ issue' = [issue EXCEPT ![field] = NewIssue(h)[field]]
        /\ unwritten' = [unwritten EXCEPT ![h] = @ \ {field}]
        /\ IF unwritten[h] # {field} THEN UNCHANGED pc
           ELSE pc' = [pc EXCEPT ![h] = IF Event[h].kind = "statStatus" THEN "returned"
                                                                       ELSE "enabled"]
  BY DEF SetIssue
<1>2. pc[h] = "issue" /\ UNCHANGED <<teams, calls, overlapped>> /\ field \in Fields
  BY DEF SetIssue, TypeOK
<1>3. \/ pc' = pc
      \/ /\ pc' = [pc EXCEPT ![h] = "returned"]
      \/ /\ pc' = [pc EXCEPT ![h] = "enabled"]
         /\ Event[h].kind # "statStatus" /\ unwritten[h] = {field}
  BY <1>1
<1>4. issue' \in IssueType
  <2>1. Event[h].repo \in Repos /\ Event[h].num \in Nums
    BY ConstantsAssumption DEF EventType
  <2>2. CASE field = "author"
    BY <1>1, <2>2 DEF NewIssue, TypeOK, IssueType
  <2>3. CASE field = "repo"
    BY <1>1, <2>1, <2>3 DEF NewIssue, TypeOK, IssueType
  <2>4. CASE field = "num"
    BY <1>1, <2>1, <2>4 DEF NewIssue, TypeOK, IssueType
  <2>5. QED BY <1>2, <2>2, <2>3, <2>4 DEF Fields
<1>5. unwritten' \in [Handlers -> SUBSET Fields]
  BY <1>1 DEF TypeOK
<1>6. TypeOK'
  BY <1>3, <1>4, <1>5 DEF SetIssue, TypeOK
<1>7. Alone'
  BY <1>2, <1>3 DEF Alone, InFlight, TypeOK
<1>8. OwnContext'
  <2>. SUFFICES ASSUME ~overlapped', NEW g \in Handlers, g = h
       PROVE  /\ pc'[g] = "issue" => \A f \in Fields \ unwritten'[g] :
                                       issue'[f] = NewIssue(g)'[f]
              /\ pc'[g] \in {"enabled", "sender", "pick", "call"} =>
                   issue'.repo = Event[g].repo /\ issue'.num = Event[g].num
    BY <1>2, <1>3 DEF OwnContext, Alone, InFlight, TypeOK
  <2>1. \A f \in Fields \ unwritten[h] : issue[f] = NewIssue(h)[f]
    BY <1>2 DEF OwnContext
  <2>2. NewIssue(h)' = NewIssue(h)
    BY DEF NewIssue
  <2>3. \A f \in Fields : issue'[f] = IF f = field THEN NewIssue(h)[f] ELSE issue[f]
    <3>1. DOMAIN issue = Fields
      BY DEF TypeOK, IssueType, Fields
    <3>2. issue' = [f \in Fields |-> IF f = field THEN NewIssue(h)[f] ELSE issue[f]]
      BY <1>1, <1>2, <3>1, Zenon
    <3>3. QED BY <3>2
  <2>4. unwritten'[h] = unwritten[h] \ {field}
    BY <1>1 DEF TypeOK
  <2>5. \A f \in Fields \ unwritten'[h] : issue'[f] = NewIssue(h)[f]
    BY <2>1, <2>3, <2>4
  <2>6. CASE pc'[h] \in {"enabled", "sender", "pick", "call"}
    <3>1. unwritten'[h] = {} /\ Event[h].kind # "statStatus"
      BY <1>2, <1>3, <2>4, <2>6 DEF TypeOK
    <3>2. issue'["repo"] = NewIssue(h)["repo"] /\ issue'["num"] = NewIssue(h)["num"]
      BY <2>5, <3>1 DEF Fields
    <3>3. QED BY <2>6, <3>1, <3>2 DEF NewIssue
  <2>7. QED BY <2>2, <2>5, <2>6
<1>9. Checked'
  <2>1. issue.repo # NoRepo => issue'.repo # NoRepo
    <3>1. Event[h].repo \in Repos /\ NoRepo \notin Repos
      BY ConstantsAssumption DEF EventType
    <3>2. issue'.repo = issue.repo \/ issue'.repo = Event[h].repo
      BY <1>1 DEF NewIssue, TypeOK, IssueType
    <3>3. QED BY <3>1, <3>2
  <2>2. victims' = victims
    BY DEF SetIssue
  <2>3. QED BY <1>2, <1>3, <2>1, <2>2 DEF Checked, CallsFor, FromTeam, Wanted, TypeOK
<1>10. QED BY <1>2, <1>6, <1>7, <1>8, <1>9, NoCallStep

LEMMA CheckEnabledIInv ==
  ASSUME IInv, NEW h \in Handlers, CheckEnabled(h)
  PROVE  IInv'
<1>. USE DEF IInv
<1>1. /\ pc[h] = "enabled" /\ UNCHANGED <<issue, unwritten, victims, teams, calls, overlapped>>
      /\ \/ pc' = [pc EXCEPT ![h] = "failed"]
         \/ /\ pc' = [pc EXCEPT ![h] = "pick"] \/ pc' = [pc EXCEPT ![h] = "sender"]
            /\ issue.repo \in Enabled /\ CallsFor(h)
  BY DEF CheckEnabled, Goto, CallsFor
<1>2. TypeOK'
  BY <1>1 DEF CheckEnabled, TypeOK
<1>3. Alone'
  BY <1>1, MoveAlone DEF InFlight
<1>4. OwnContext'
  BY <1>1 DEF OwnContext, NewIssue, TypeOK
<1>5. ~overlapped => issue.repo = Event[h].repo
  BY <1>1 DEF OwnContext
<1>6. Checked'
  BY <1>1, <1>5 DEF Checked, CallsFor, TypeOK
<1>7. QED BY <1>1, <1>2, <1>3, <1>4, <1>6, NoCallStep

LEMMA CheckSenderIInv ==
  ASSUME IInv, NEW h \in Handlers, CheckSender(h)
  PROVE  IInv'
<1>. USE DEF IInv
<1>1. /\ pc[h] = "sender" /\ UNCHANGED <<issue, unwritten, victims, teams, calls, overlapped>>
      /\ pc' = [pc EXCEPT ![h] = "failed"] \/ pc' = [pc EXCEPT ![h] = "pick"]
  BY DEF CheckSender, Goto
<1>2. TypeOK'
  BY <1>1 DEF CheckSender, TypeOK
<1>3. Alone'
  BY <1>1, MoveAlone DEF InFlight
<1>4. OwnContext'
  BY <1>1 DEF OwnContext, NewIssue, TypeOK
<1>5. Checked'
  BY <1>1 DEF Checked, TypeOK
<1>6. QED BY <1>1, <1>2, <1>3, <1>4, <1>5, NoCallStep

\* The captains that are picked maintain a team the event mentions.
LEMMA PickCaptainsIInv ==
  ASSUME IInv, NEW h \in Handlers, PickCaptains(h)
  PROVE  IInv'
<1>. USE DEF IInv
<1>1. /\ pc[h] = "pick"
      /\ UNCHANGED <<issue, authed, loaded, unwritten, teams, calls, overlapped>>
  BY DEF PickCaptains, Goto
<1>2. Wanted(h) \in Nat
  BY DEF Wanted
<1>3. \/ pc' = [pc EXCEPT ![h] = "failed"] /\ victims' = victims
      \/ /\ issue.repo # NoRepo
         /\ \E i \in FirstTeams(h) :
            \E chosen \in
                 RandomCaptainLoginsExcluding(teams[i].captains, issue.author, Wanted(h)) :
              /\ chosen # {} /\ pc' = [pc EXCEPT ![h] = "call"]
              /\ victims' = [victims EXCEPT ![h] = chosen]
  BY DEF PickCaptains, Goto
<1>4. ASSUME pc' # [pc EXCEPT ![h] = "failed"] \/ victims' # victims
      PROVE  /\ issue.repo # NoRepo /\ pc' = [pc EXCEPT ![h] = "call"]
             /\ \E chosen \in SUBSET Logins :
                  victims' = [victims EXCEPT ![h] = chosen] /\ FromTeam(h, chosen)
  <2>1. PICK i \in FirstTeams(h) :
        \E chosen \in RandomCaptainLoginsExcluding(teams[i].captains, issue.author, Wanted(h)) :
          chosen # {} /\ pc' = [pc EXCEPT ![h] = "call"]
          /\ victims' = [victims EXCEPT ![h] = chosen]
    BY <1>3, <1>4
  <2>2. PICK chosen \in
             RandomCaptainLoginsExcluding(teams[i].captains, issue.author, Wanted(h)) :
          chosen # {} /\ pc' = [pc EXCEPT ![h] = "call"]
          /\ victims' = [victims EXCEPT ![h] = chosen]
    BY <2>1
  <2>3. i \in DOMAIN teams /\ teams[i].id \in Event[h].mentions
    BY DEF FirstTeams, Mentioned
  <2>4. teams[i].captains \subseteq Logins
    <3>1. teams \in Seq([id : TeamIDs, captains : SUBSET Logins])
      BY DEF TypeOK
    <3>2. teams[i] \in [id : TeamIDs, captains : SUBSET Logins]
      BY <2>3, <3>1, ElementOfSequence, Zenon
    <3>3. QED BY <3>2
  <2>5. chosen \subseteq teams[i].captains /\ Cardinality(chosen) <= Wanted(h) + 1
    BY <1>2, <2>4, ChosenFew
  <2>6. chosen \subseteq Members[teams[i].id]
    BY <2>3, <2>5 DEF CaptainsAreMembers
  <2>7. FromTeam(h, chosen)
    BY <2>2, <2>3, <2>5, <2>6 DEF FromTeam
  <2>8. QED BY <1>3, <1>4, <2>2, <2>4, <2>5, <2>7
<1>5. TypeOK'
  <2>1. pc' \in [Handlers -> {"idle", "author", "issue", "enabled", "sender", "pick", "call",
                              "returned", "failed"}]
    BY <1>4 DEF TypeOK
  <2>2. victims' \in [Handlers -> SUBSET Logins]
    BY <1>4 DEF TypeOK
  <2>3. QED BY <1>1, <2>1, <2>2 DEF TypeOK
<1>6. pc' = [pc EXCEPT ![h] = "failed"] \/ pc' = [pc EXCEPT ![h] = "call"]
  BY <1>4
<1>7. Alone'
  BY <1>1, <1>6, MoveAlone DEF InFlight
<1>8. OwnContext'
  BY <1>1, <1>6 DEF OwnContext, NewIssue, TypeOK
<1>9. Checked'
  <2>. SUFFICES ASSUME NEW g \in Handlers
       PROVE  /\ pc'[g] \in {"author", "enabled", "sender", "pick", "call"} =>
                   Event[g].kind # "statStatus"
              /\ pc'[g] \in {"sender", "pick", "call"} =>
                   CallsFor(g) /\ (~overlapped' => Event[g].repo \in Enabled)
              /\ pc'[g] = "call" => issue'.repo # NoRepo /\ FromTeam(g, victims'[g])
    BY DEF Checked, CallsFor, FromTeam, Wanted
  <2>1. CASE g = h
    <3>1. pc'[h] = "call" => issue.repo # NoRepo /\ FromTeam(h, victims'[h])
      BY <1>4 DEF TypeOK
    <3>2. QED BY <1>1, <2>1, <3>1 DEF Checked
  <2>2. CASE g # h
    <3>1. pc'[g] = pc[g] /\ victims'[g] = victims[g]
      BY <1>4, <2>2 DEF TypeOK
    <3>2. QED BY <1>1, <3>1 DEF Checked
  <2>3. QED BY <2>1, <2>2
<1>10. QED BY <1>1, <1>5, <1>7, <1>8, <1>9, NoCallStep

\* A call on its own is for the handler's own issue, which the context holds.
LEMMA CallGitHubIInv ==
  ASSUME IInv, NEW h \in Handlers, CallGitHub(h)
  PROVE  IInv'
<1>. USE DEF IInv
<1>. DEFINE call == [by |-> h, repo |-> issue.repo, num |-> issue.num, logins |-> victims[h]]
<1>1. /\ pc[h] = "call" /\ victims' = [victims EXCEPT ![h] = {}]
      /\ UNCHANGED <<issue, authed, teams, loaded, unwritten, overlapped>>
      /\ pc' = [pc EXCEPT ![h] = "returned"] \/ pc' = [pc EXCEPT ![h] = "failed"]
      /\ calls' = calls \/ (issue.num \in Nums /\ calls' = calls \cup {call})
  BY DEF CallGitHub, Goto
<1>2. /\ CallsFor(h) /\ FromTeam(h, victims[h]) /\ issue.repo # NoRepo
      /\ ~overlapped => /\ issue.repo = Event[h].repo /\ issue.num = Event[h].num
                        /\ issue.repo \in Enabled
  BY <1>1 DEF Checked, OwnContext
<1>3. TypeOK'
  <2>1. CASE calls' = calls
    BY <1>1, <2>1 DEF TypeOK
  <2>2. CASE calls' # calls
    <3>1. issue.repo \in Repos /\ issue.num \in Nums
      BY <1>1, <1>2, <2>2 DEF TypeOK, IssueType
    <3>2. call \in [by : Handlers, repo : Repos, num : Nums, logins : SUBSET Logins]
      BY <3>1 DEF TypeOK
    <3>3. calls' \in SUBSET [by : Handlers, repo : Repos, num : Nums, logins : SUBSET Logins]
      BY <1>1, <3>2 DEF TypeOK
    <3>4. QED BY <1>1, <3>3 DEF TypeOK
  <2>3. QED BY <2>1, <2>2
<1>4. Alone'
  BY <1>1, MoveAlone DEF InFlight
<1>5. OwnContext'
  BY <1>1 DEF OwnContext, NewIssue, TypeOK
<1>6. Checked'
  BY <1>1 DEF Checked, CallsFor, FromTeam, Wanted, TypeOK
<1>7. CaptainsAreMembers'
  BY <1>1 DEF CaptainsAreMembers
<1>8. CallsInTurnAreOwn'
  BY <1>1, <1>2 DEF CallsInTurnAreOwn
<1>9. AskedAreCaptains'
  BY <1>1, <1>2 DEF AskedAreCaptains, CallsFor, FromTeam, Wanted
<1>10. QED BY <1>3, <1>4, <1>5, <1>6, <1>7, <1>8, <1>9

-----------------------------------------------------------------------------
LEMMA NextIInv == IInv /\ [Next]_vars => IInv'
<1>. SUFFICES ASSUME IInv, [Next]_vars PROVE IInv'
  OBVIOUS
<1>1. CASE UNCHANGED vars
  BY <1>1 DEF vars, IInv, TypeOK, Alone, InFlight, OwnContext, NewIssue, Checked, CallsFor,
              FromTeam, Wanted, CaptainsAreMembers, CallsInTurnAreOwn, AskedAreCaptains
<1>2. CASE AddTeam
  BY <1>2, AddTeamIInv
<1>3. ASSUME NEW h \in Handlers, Start(h) \/ Handler(h)
      PROVE  IInv'
  BY <1>3, StartIInv, SetAuthorIInv, SetIssueIInv, CheckEnabledIInv, CheckSenderIInv,
     PickCaptainsIInv, CallGitHubIInv DEF Handler
<1>4. QED BY <1>1, <1>2, <1>3 DEF Next

\* While no two handlers overlap, the one in flight finds in the shared context
\* what it has put there, and GitHub's calls come from handlers that checked their
\* event and picked members of a team it mentions.
THEOREM Invariance == Spec => []IInv
BY InitIInv, NextIInv, PTL DEF Spec

\* The shared context (handler.go:78-81, affinity.go:36-42) is harmless as long as
\* handlers run one after the other: every call is for the handler's own issue, in
\* an enabled repository.
THEOREM CallsInTurn == Spec => []CallsInTurnAreOwn
<1>1. IInv => CallsInTurnAreOwn
  BY DEF IInv
<1>2. QED BY <1>1, Invariance, PTL

\* However handlers interleave, those who are asked maintain a team the event
\* mentions, and no more of them are asked than the handler wants and one
\* (affinity.go:16-97, team.go:58-111).
THEOREM Asked == Spec => []AskedAreCaptains
<1>1. IInv => AskedAreCaptains
  BY DEF IInv
<1>2. QED BY <1>1, Invariance, PTL
=============================================================================
