-------------------------- MODULE StaleIssues_proofs --------------------------
(***************************************************************************)
(* Proofs about StaleIssues: whatever people, handlers and sweeps do, and  *)
(* however many of them there are, a sweep closes an issue only if it has  *)
(* carried a stale label for longer than DormantDuration without a comment *)
(* when the sweep lists it; and sweeps that do not overlap comment on it   *)
(* once for each time it is labelled.                                      *)
(***************************************************************************)
EXTENDS StaleIssues, FiniteSetTheorems, SequenceTheorems, TLAPS

LEMMA AgesAreNaturals == /\ Ages \subseteq Nat /\ 0 \in Ages
                         /\ DormantDuration \in Nat
BY ConstantsAssumption DEF Ages

LEMMA ElementOfSequence ==
  ASSUME NEW S, NEW s \in Seq(S), NEW k \in DOMAIN s
  PROVE  s[k] \in S
OBVIOUS

LEMMA RemoveAtType ==
  ASSUME NEW S, NEW s \in Seq(S), NEW k \in DOMAIN s
  PROVE  RemoveAt(s, k) \in Seq(S)
<1>1. SubSeq(s, 1, k - 1) \in Seq(S) /\ SubSeq(s, k + 1, Len(s)) \in Seq(S)
  OBVIOUS
<1>2. QED BY <1>1 DEF RemoveAt

-----------------------------------------------------------------------------
\* Whatever updates an issue, its age becomes the least of its times.
IssuesOK == /\ issue \in [Issues -> IssueType] /\ byUpdate \in Seq(Issues)
            /\ IssuesBumped

LEMMA UpdateOK ==
  ASSUME IssuesOK, NEW i \in Issues, NEW new \in IssueType, Update(i, new)
  PROVE  IssuesOK'
<1>. DEFINE updated == [new EXCEPT !.age = 0]
<1>1. updated \in IssueType /\ updated.age = 0 /\ updated.quiet \in Nat /\ updated.marked \in Nat
  BY AgesAreNaturals DEF IssueType
<1>2. Bumped(updated)
  BY <1>1 DEF Bumped
<1>3. issue' = [issue EXCEPT ![i] = updated]
  BY DEF Update
<1>4. issue' \in [Issues -> IssueType]
  BY <1>1, <1>3 DEF IssuesOK
<1>5. \A j \in Issues : issue'[j] = updated \/ issue'[j] = issue[j]
  BY <1>3 DEF IssuesOK
<1>6. IssuesBumped'
  BY <1>2, <1>5 DEF IssuesOK, IssuesBumped, Bumped
<1>7. byUpdate' \in Seq(Issues)
  <2>. DEFINE atEnd == IF new.open THEN <<i>> ELSE <<>>
  <2>1. atEnd \in Seq(Issues) /\ byUpdate \in Seq(Issues)
    BY DEF IssuesOK
  <2>2. \/ byUpdate' = byUpdate \o atEnd
        \/ \E k \in DOMAIN byUpdate : byUpdate' = RemoveAt(byUpdate, k) \o atEnd
    BY DEF Update
  <2>. HIDE DEF atEnd
  <2>3. \A k \in DOMAIN byUpdate : RemoveAt(byUpdate, k) \in Seq(Issues)
    BY <2>1, RemoveAtType
  <2>4. \A s \in Seq(Issues) : s \o atEnd \in Seq(Issues)
    BY <2>1
  <2>5. QED BY <2>1, <2>2, <2>3, <2>4, Zenon
<1>8. QED BY <1>4, <1>6, <1>7 DEF IssuesOK

LEMMA SameIssuesOK ==
  ASSUME IssuesOK, UNCHANGED <<issue, byUpdate>>
  PROVE  IssuesOK'
BY DEF IssuesOK, IssuesBumped, Bumped

LEMMA AddLabelOK ==
  ASSUME IssuesOK, NEW i \in Issues, NEW label \in Labels, AddLabel(i, label)
  PROVE  IssuesOK'
<1>. DEFINE old == issue[i]
            new == [old EXCEPT
              !.labels  = @ \cup {label},
              !.marked  = IF label \in StaleLabels /\ old.labels \cap StaleLabels = {}
                            THEN 0 ELSE @,
              !.notices = IF label = "stale" THEN 0 ELSE @]
<1>1. old \in IssueType
  BY DEF IssuesOK
<1>2. new \in IssueType
  <2>1. old.labels \cup {label} \in SUBSET Labels
    BY <1>1 DEF IssueType
  <2>2. /\ (IF label \in StaleLabels /\ old.labels \cap StaleLabels = {} THEN 0 ELSE old.marked)
             \in Ages
        /\ (IF label = "stale" THEN 0 ELSE old.notices) \in 0..2
    BY <1>1, AgesAreNaturals DEF IssueType
  <2>3. QED BY <1>1, <2>1, <2>2 DEF IssueType
<1>3. UNCHANGED <<issue, byUpdate>> \/ Update(i, new)
  BY DEF AddLabel
<1>. HIDE DEF new
<1>4. QED BY <1>2, <1>3, UpdateOK, SameIssuesOK

LEMMA RemoveLabelOK ==
  ASSUME IssuesOK, NEW i \in Issues, NEW label \in Labels, RemoveLabel(i, label)
  PROVE  IssuesOK'
<1>. DEFINE new == [issue[i] EXCEPT !.labels = @ \ {label}]
<1>1. new \in IssueType
  BY DEF IssuesOK, IssueType
<1>2. UNCHANGED <<issue, byUpdate>> \/ Update(i, new)
  BY DEF RemoveLabel
<1>. HIDE DEF new
<1>3. QED BY <1>1, <1>2, UpdateOK, SameIssuesOK

\* The rest of the invariant.
SweepsOK ==
  /\ pc \in [Sweeps -> {"idle", "list", "act", "notify"}]
  /\ page \in [Sweeps -> Nat \ {0}]
  /\ allIssues \in [Sweeps -> Seq(EntryType)]
  /\ ListedBumped /\ Notifying

OthersOK ==
  /\ tasks \subseteq TaskType /\ authed \in BOOLEAN
  /\ acts \in 0..MaxActs /\ errors \in 0..MaxErrors /\ overlaps \in 0..MaxOverlaps

ClosedOK == closed \in [Issues -> IssueType \cup {None}] /\ GraceKept

LEMMA Parts ==
  /\ IInv <=> IssuesOK /\ SweepsOK /\ OthersOK /\ ClosedOK
  /\ IssuesOK' /\ SweepsOK' /\ OthersOK' /\ ClosedOK' => IInv'
BY DEF IInv, TypeOK, IssuesOK, SweepsOK, OthersOK, ClosedOK

LEMMA SameSweeps ==
  ASSUME SweepsOK, UNCHANGED <<pc, page, allIssues>>
  PROVE  SweepsOK'
BY DEF SweepsOK, ListedBumped, Notifying, Bumped

LEMMA SameClosed ==
  ASSUME ClosedOK, UNCHANGED closed
  PROVE  ClosedOK'
BY DEF ClosedOK, GraceKept

LEMMA FailOK ==
  ASSUME errors \in 0..MaxErrors, Fail
  PROVE  errors' \in 0..MaxErrors
BY ConstantsAssumption DEF Fail

LEMMA DeliverOK ==
  ASSUME OthersOK, NEW handlers \in SUBSET TaskType, Deliver(handlers)
  PROVE  tasks' \subseteq TaskType /\ errors' \in 0..MaxErrors
BY FailOK DEF OthersOK, Deliver

LEMMA CommentOK ==
  ASSUME OthersOK, NEW i \in Issues, NEW byAuthor \in BOOLEAN, NEW byBot \in BOOLEAN,
         Comment(i, byAuthor, byBot)
  PROVE  tasks' \subseteq TaskType /\ errors' \in 0..MaxErrors
<1>1. [issue |-> i, label |-> "stale", byBot |-> byBot, step |-> "sender"] \in TaskType
  BY DEF TaskType, Labels, StaleLabels
<1>2. PendingFeedbackUnlabeler(i, byAuthor) \subseteq TaskType
  <2>1. [issue |-> i, label |-> "pending-feedback", byBot |-> FALSE, step |-> "lookup"]
          \in TaskType
    BY DEF TaskType, Labels, StaleLabels
  <2>2. QED BY <2>1 DEF PendingFeedbackUnlabeler
<1>3. QED BY <1>1, <1>2, DeliverOK DEF Comment

LEMMA InitIInv == Init => IInv
<1>. SUFFICES ASSUME Init PROVE IInv
  OBVIOUS
<1>1. \A at \in NewIssue : at \in IssueType /\ Bumped(at)
  <2>1. \A labels \in {{}, {"pending-feedback"}} : labels \subseteq Labels
    BY DEF Labels, StaleLabels
  <2>2. \A labels \in {{}, {"pending-feedback"}} :
          LET at == [open |-> TRUE, labels |-> labels, age |-> 0, quiet |-> 0, marked |-> 0,
                     notices |-> 0]
          IN  at \in IssueType /\ Bumped(at)
    BY <2>1, AgesAreNaturals DEF IssueType, Bumped
  <2>3. QED BY <2>2 DEF NewIssue
<1>2. issue \in [Issues -> IssueType] /\ IssuesBumped
  BY <1>1 DEF Init, IssuesBumped
<1>3. byUpdate \in Seq(Issues)
  <2>1. Cardinality(Issues) \in Nat
    BY ConstantsAssumption, FS_CardinalityType
  <2>2. QED BY <2>1 DEF Init, SetToSeqs
<1>4. SweepsOK
  BY DEF Init, SweepsOK, ListedBumped, Notifying
<1>5. OthersOK
  <2>1. 0 \in 0..MaxActs /\ 0 \in 0..MaxErrors /\ 0 \in 0..MaxOverlaps
    BY ConstantsAssumption
  <2>2. tasks \subseteq TaskType /\ authed \in BOOLEAN
    BY DEF Init
  <2>3. QED BY <2>1, <2>2 DEF Init, OthersOK
<1>6. ClosedOK
  BY DEF Init, ClosedOK, GraceKept
<1>7. QED BY <1>2, <1>3, <1>4, <1>5, <1>6, Parts DEF IssuesOK

-----------------------------------------------------------------------------
LEMMA ActIInv ==
  ASSUME IInv, NEW i \in Issues, Act(i)
  PROVE  IInv'
<1>1. IssuesOK /\ SweepsOK /\ OthersOK /\ ClosedOK
  BY Parts
<1>2. SweepsOK' /\ ClosedOK'
  BY <1>1, SameSweeps, SameClosed DEF Act
<1>3. acts' \in 0..MaxActs /\ overlaps' = overlaps /\ authed' = authed
  BY <1>1, ConstantsAssumption DEF Act, OthersOK
<1>4. issue[i] \in IssueType
  BY <1>1 DEF IssuesOK
<1>5. CASE \E byAuthor \in BOOLEAN : Comment(i, byAuthor, FALSE)
           /\ Update(i, [issue[i] EXCEPT !.quiet = 0])
  <2>1. [issue[i] EXCEPT !.quiet = 0] \in IssueType
    BY <1>4, AgesAreNaturals DEF IssueType
  <2>2. IssuesOK'
    BY <1>1, <1>5, <2>1, UpdateOK
  <2>3. tasks' \subseteq TaskType /\ errors' \in 0..MaxErrors
    BY <1>1, <1>5, CommentOK
  <2>4. QED BY <1>1, <1>2, <1>3, <2>2, <2>3, Parts DEF OthersOK
<1>6. CASE /\ \E label \in Labels : AddLabel(i, label) \/ RemoveLabel(i, label)
           /\ UNCHANGED <<tasks, errors>>
  <2>1. IssuesOK'
    BY <1>1, <1>6, AddLabelOK, RemoveLabelOK
  <2>2. QED BY <1>1, <1>2, <1>3, <1>6, <2>1, Parts DEF OthersOK
<1>7. CASE /\ Update(i, [issue[i] EXCEPT !.open = ~@, !.quiet = 0])
           /\ UNCHANGED <<tasks, errors>>
  <2>1. [issue[i] EXCEPT !.open = ~@, !.quiet = 0] \in IssueType
    BY <1>4, AgesAreNaturals DEF IssueType
  <2>2. IssuesOK'
    BY <1>1, <1>7, <2>1, UpdateOK
  <2>3. QED BY <1>1, <1>2, <1>3, <1>7, <2>2, Parts DEF OthersOK
<1>8. CASE /\ Deliver({[issue |-> i, label |-> "has-pull-request", byBot |-> FALSE,
                        step |-> "add"]})
           /\ UNCHANGED <<issue, byUpdate>>
  <2>1. [issue |-> i, label |-> "has-pull-request", byBot |-> FALSE, step |-> "add"]
          \in TaskType
    BY DEF TaskType, Labels, ExemptLabels
  <2>2. tasks' \subseteq TaskType /\ errors' \in 0..MaxErrors
    BY <1>1, <1>8, <2>1, DeliverOK
  <2>3. QED BY <1>1, <1>2, <1>3, <1>8, <2>2, Parts, SameIssuesOK DEF OthersOK
<1>9. QED BY <1>5, <1>6, <1>7, <1>8 DEF Act

\* A handler changes labels, or nothing.
LEMMA HandlerIInv ==
  ASSUME IInv, Handler
  PROVE  IInv'
<1>1. IssuesOK /\ SweepsOK /\ OthersOK /\ ClosedOK
  BY Parts
<1>2. PICK t \in tasks : StaleUnlabeler(t) \/ IssueHasLabel(t) \/ RemoveLabelIfExists(t)
                         \/ IssueHasPullRequestLabeler(t)
  BY DEF Handler
<1>3. t \in TaskType /\ t.issue \in Issues /\ t.label \in Labels
  BY <1>1 DEF OthersOK, TaskType
<1>4. SweepsOK' /\ ClosedOK'
  BY <1>1, <1>2, SameSweeps, SameClosed
     DEF StaleUnlabeler, IssueHasLabel, RemoveLabelIfExists, IssueHasPullRequestLabeler
<1>5. UNCHANGED <<acts, overlaps>>
  BY <1>2 DEF StaleUnlabeler, IssueHasLabel, RemoveLabelIfExists, IssueHasPullRequestLabeler
<1>6. IssuesOK'
  <2>1. \/ UNCHANGED <<issue, byUpdate>>
        \/ RemoveLabel(t.issue, t.label) \/ AddLabel(t.issue, t.label)
    BY <1>2 DEF StaleUnlabeler, IssueHasLabel, RemoveLabelIfExists, IssueHasPullRequestLabeler
  <2>2. QED BY <1>1, <1>3, <2>1, AddLabelOK, RemoveLabelOK, SameIssuesOK
<1>7. errors' \in 0..MaxErrors /\ authed' \in BOOLEAN
  <2>1. errors' = errors \/ Fail
    BY <1>2 DEF StaleUnlabeler, IssueHasLabel, RemoveLabelIfExists, IssueHasPullRequestLabeler
  <2>2. authed' = authed \/ authed' = TRUE
    BY <1>2 DEF StaleUnlabeler, IssueHasLabel, RemoveLabelIfExists, IssueHasPullRequestLabeler
  <2>3. QED BY <1>1, <2>1, <2>2, FailOK DEF OthersOK
<1>8. tasks' \subseteq TaskType
  <2>1. Done(t) \/ Goto(t, "lookup") \/ Goto(t, "remove")
    BY <1>2 DEF StaleUnlabeler, IssueHasLabel, RemoveLabelIfExists, IssueHasPullRequestLabeler
  <2>2. \A step \in {"lookup", "remove"} : [t EXCEPT !.step = step] \in TaskType
    BY <1>3 DEF TaskType
  <2>3. QED BY <1>1, <2>1, <2>2 DEF Done, Goto, OthersOK
<1>9. QED BY <1>1, <1>4, <1>5, <1>6, <1>7, <1>8, Parts DEF OthersOK

-----------------------------------------------------------------------------
\* Starting, giving up, and time.
LEMMA StartSweepIInv ==
  ASSUME IInv, NEW s \in Sweeps, StartSweep(s)
  PROVE  IInv'
<1>1. IssuesOK /\ SweepsOK /\ OthersOK /\ ClosedOK
  BY Parts
<1>2. IssuesOK' /\ ClosedOK'
  BY <1>1, SameIssuesOK, SameClosed DEF StartSweep
<1>3. SweepsOK'
  BY <1>1 DEF StartSweep, SweepsOK, ListedBumped, Notifying, Bumped
<1>4. OthersOK'
  BY <1>1, ConstantsAssumption DEF StartSweep, OthersOK
<1>5. QED BY <1>2, <1>3, <1>4, Parts

LEMMA AbortIInv ==
  ASSUME IInv, NEW s \in Sweeps, Abort(s)
  PROVE  IInv'
<1>1. IssuesOK /\ SweepsOK /\ OthersOK /\ ClosedOK
  BY Parts
<1>2. IssuesOK' /\ ClosedOK'
  BY <1>1, SameIssuesOK, SameClosed DEF Abort
<1>3. SweepsOK'
  BY <1>1 DEF Abort, SweepsOK, ListedBumped, Notifying, Bumped
<1>4. OthersOK'
  BY <1>1, FailOK DEF Abort, OthersOK
<1>5. QED BY <1>2, <1>3, <1>4, Parts

\* Getting older by a month keeps the order of two times.
LEMMA TickIInv ==
  ASSUME IInv, Tick
  PROVE  IInv'
<1>. DEFINE Older(a) == IF a > DormantDuration THEN a ELSE a + 1
<1>1. IssuesOK /\ SweepsOK /\ OthersOK /\ ClosedOK
  BY Parts
<1>2. SweepsOK' /\ ClosedOK' /\ OthersOK'
  BY <1>1, SameSweeps, SameClosed DEF Tick, OthersOK
<1>3. issue' = [i \in Issues |->
         [issue[i] EXCEPT !.age = Older(@), !.quiet = Older(@), !.marked = Older(@)]]
  BY DEF Tick
<1>4. \A a \in Ages : Older(a) \in Ages
  BY AgesAreNaturals DEF Ages
<1>5. \A a, b \in Ages : a <= b => Older(a) <= Older(b)
  BY AgesAreNaturals DEF Ages
<1>6. ASSUME NEW i \in Issues
      PROVE  issue'[i] \in IssueType /\ Bumped(issue'[i])
  <2>. DEFINE at == issue[i]
              older == [at EXCEPT !.age = Older(@), !.quiet = Older(@), !.marked = Older(@)]
  <2>1. at \in IssueType /\ Bumped(at)
    BY <1>1 DEF IssuesOK, IssuesBumped
  <2>2. issue'[i] = older
    BY <1>3
  <2>. HIDE DEF Older
  <2>3. /\ older \in IssueType /\ older.labels = at.labels
        /\ older.age = Older(at.age) /\ older.quiet = Older(at.quiet)
        /\ older.marked = Older(at.marked)
    BY <1>4, <2>1 DEF IssueType
  <2>4. at.age \in Ages /\ at.quiet \in Ages /\ at.marked \in Ages
    BY <2>1 DEF IssueType
  <2>. HIDE DEF older
  <2>5. Bumped(older)
    BY <1>5, <2>1, <2>3, <2>4 DEF Bumped
  <2>6. QED BY <2>2, <2>3, <2>5
<1>7. IssuesOK'
  <2>1. issue' \in [Issues -> IssueType]
    BY <1>3, <1>6
  <2>2. byUpdate' \in Seq(Issues)
    BY <1>1 DEF Tick, IssuesOK
  <2>3. QED BY <1>6, <2>1, <2>2 DEF IssuesOK, IssuesBumped, Bumped
<1>8. QED BY <1>2, <1>7, Parts

-----------------------------------------------------------------------------
\* A page is a copy of the issues.
LEMMA ListPageIInv ==
  ASSUME IInv, NEW s \in Sweeps, ListPage(s)
  PROVE  IInv'
<1>. DEFINE first == (page[s] - 1) * PerPage + 1
            last  == IF page[s] * PerPage < Len(byUpdate) THEN page[s] * PerPage
                     ELSE Len(byUpdate)
            nums  == SubSeq(byUpdate, first, last)
            entries == [k \in DOMAIN nums |-> [num |-> nums[k], at |-> issue[nums[k]]]]
<1>1. IssuesOK /\ SweepsOK /\ OthersOK /\ ClosedOK
  BY Parts
<1>2. IssuesOK' /\ ClosedOK' /\ OthersOK'
  BY <1>1, SameIssuesOK, SameClosed DEF ListPage, OthersOK
<1>3. allIssues' = [allIssues EXCEPT ![s] = @ \o entries]
  BY DEF ListPage
<1>4. nums \in Seq(Issues)
  <2>1. byUpdate \in Seq(Issues) /\ page[s] \in Nat \ {0} /\ PerPage \in Nat
    BY <1>1, ConstantsAssumption DEF IssuesOK, SweepsOK
  <2>2. \A m, n \in Nat : m * n \in Nat
    OBVIOUS
  <2>3. page[s] - 1 \in Nat /\ page[s] * PerPage \in Nat
    BY <2>1, <2>2
  <2>4. (page[s] - 1) * PerPage \in Nat
    BY <2>1, <2>2, <2>3
  <2>5. first \in Nat \ {0} /\ last \in Nat /\ last <= Len(byUpdate)
    BY <2>1, <2>3, <2>4
  <2>. HIDE DEF first, last
  <2>6. \A k \in first..last : byUpdate[k] \in Issues
    BY <2>1, <2>5
  <2>7. QED BY <2>5, <2>6, SubSeqProperties
<1>. HIDE DEF nums
<1>5. \A k \in DOMAIN nums : [num |-> nums[k], at |-> issue[nums[k]]] \in EntryType
  BY <1>1, <1>4 DEF IssuesOK, EntryType
<1>6. entries \in Seq(EntryType) /\ \A k \in DOMAIN entries : Bumped(entries[k].at)
  BY <1>1, <1>4, <1>5 DEF IssuesOK, IssuesBumped
<1>. HIDE DEF entries
<1>7. allIssues' \in [Sweeps -> Seq(EntryType)] /\ ListedBumped'
  <2>1. allIssues[s] \in Seq(EntryType) /\ \A k \in DOMAIN allIssues[s] :
                                             Bumped(allIssues[s][k].at)
    BY <1>1 DEF SweepsOK, ListedBumped
  <2>2. allIssues[s] \o entries \in Seq(EntryType)
    BY <1>6, <2>1
  <2>3. \A k \in DOMAIN (allIssues[s] \o entries) :
          \/ k \in DOMAIN allIssues[s] /\ (allIssues[s] \o entries)[k] = allIssues[s][k]
          \/ \E j \in DOMAIN entries : (allIssues[s] \o entries)[k] = entries[j]
    BY <1>6, <2>1
  <2>4. \A k \in DOMAIN (allIssues[s] \o entries) : Bumped((allIssues[s] \o entries)[k].at)
    BY <1>6, <2>1, <2>3, Zenon
  <2>5. \A r \in Sweeps : allIssues'[r] = IF r = s THEN allIssues[s] \o entries
                                                 ELSE allIssues[r]
    BY <1>1, <1>3 DEF SweepsOK
  <2>6. allIssues' \in [Sweeps -> Seq(EntryType)]
    BY <1>1, <1>3, <2>2 DEF SweepsOK
  <2>7. ListedBumped'
    BY <1>1, <2>4, <2>5 DEF SweepsOK, ListedBumped, Notifying, Bumped
  <2>8. QED BY <2>6, <2>7
<1>8. SweepsOK'
  <2>1. pc' \in [Sweeps -> {"idle", "list", "act", "notify"}]
    BY <1>1 DEF ListPage, SweepsOK
  <2>2. page' \in [Sweeps -> Nat \ {0}]
    BY <1>1 DEF ListPage, SweepsOK
  <2>3. Notifying'
    <3>1. \A r \in Sweeps : pc'[r] = "notify" => pc[r] = "notify" /\ r # s
      BY <1>1 DEF ListPage, SweepsOK
    <3>2. QED BY <1>1, <1>3, <3>1 DEF SweepsOK, Notifying
  <2>4. QED BY <1>7, <2>1, <2>2, <2>3 DEF SweepsOK
<1>9. QED BY <1>2, <1>8, Parts

-----------------------------------------------------------------------------
\* Going on to the next issue of the list.
LEMMA NextIssueOK ==
  ASSUME SweepsOK, NEW s \in Sweeps, allIssues[s] # <<>>, NextIssue(s),
         (pc[s] = "act" /\ UNCHANGED pc) \/ pc' = [pc EXCEPT ![s] = "act"], UNCHANGED page
  PROVE  SweepsOK'
<1>1. allIssues[s] \in Seq(EntryType) /\ \A k \in DOMAIN allIssues[s] :
                                           Bumped(allIssues[s][k].at)
  BY DEF SweepsOK, ListedBumped
<1>2. Tail(allIssues[s]) \in Seq(EntryType)
  BY <1>1
<1>3. \A k \in DOMAIN Tail(allIssues[s]) :
        k + 1 \in DOMAIN allIssues[s] /\ Tail(allIssues[s])[k] = allIssues[s][k + 1]
  BY <1>1
<1>4. \A r \in Sweeps : allIssues'[r] = IF r = s THEN Tail(allIssues[s]) ELSE allIssues[r]
  BY DEF NextIssue, SweepsOK
<1>5. allIssues' \in [Sweeps -> Seq(EntryType)]
  BY <1>2 DEF NextIssue, SweepsOK
<1>6. \A k \in DOMAIN Tail(allIssues[s]) : Bumped(Tail(allIssues[s])[k].at)
  BY <1>1, <1>3
<1>7. ListedBumped'
  BY <1>4, <1>6 DEF SweepsOK, ListedBumped, Notifying, Bumped
<1>8. pc' \in [Sweeps -> {"idle", "list", "act", "notify"}]
      /\ \A r \in Sweeps : pc'[r] = "notify" => pc[r] = "notify" /\ r # s
  BY DEF SweepsOK
<1>9. Notifying'
  BY <1>4, <1>8 DEF SweepsOK, Notifying
<1>10. QED BY <1>5, <1>7, <1>8, <1>9 DEF SweepsOK

\* The entry a sweep works on is one it has listed.
LEMMA EntryOK ==
  ASSUME SweepsOK, NEW s \in Sweeps, allIssues[s] # <<>>
  PROVE  Entry(s) \in EntryType /\ Bumped(Entry(s).at)
<1>1. allIssues[s] \in Seq(EntryType) /\ \A k \in DOMAIN allIssues[s] :
                                           Bumped(allIssues[s][k].at)
  BY DEF SweepsOK, ListedBumped
<1>2. 1 \in DOMAIN allIssues[s] /\ Entry(s) = allIssues[s][1]
  BY <1>1 DEF Entry
<1>3. QED BY <1>1, <1>2, ElementOfSequence

LEMMA PassOverIInv ==
  ASSUME IInv, NEW s \in Sweeps, PassOver(s)
  PROVE  IInv'
<1>1. IssuesOK /\ SweepsOK /\ OthersOK /\ ClosedOK
  BY Parts
<1>2. IssuesOK' /\ ClosedOK' /\ OthersOK'
  BY <1>1, SameIssuesOK, SameClosed DEF PassOver, OthersOK
<1>3. SweepsOK'
  <2>1. CASE allIssues[s] # <<>> /\ NextIssue(s) /\ UNCHANGED pc
    BY <1>1, <2>1, NextIssueOK DEF PassOver
  <2>2. CASE pc' = [pc EXCEPT ![s] = "idle"] /\ UNCHANGED allIssues
    BY <1>1, <2>2 DEF PassOver, SweepsOK, ListedBumped, Notifying, Bumped
  <2>3. QED BY <2>1, <2>2 DEF PassOver
<1>4. QED BY <1>2, <1>3, Parts

\* Closing: the entry is older than DormantDuration and has a stale label.
LEMMA closeIssueIInv ==
  ASSUME IInv, NEW s \in Sweeps, closeIssue(s)
  PROVE  IInv'
<1>. DEFINE i == Entry(s).num
            at == Entry(s).at
<1>1. IssuesOK /\ SweepsOK /\ OthersOK /\ ClosedOK
  BY Parts
<1>2. allIssues[s] # <<>> /\ IsStale(Entry(s)) /\ hasStaleLabel(Entry(s))
  BY DEF closeIssue, ToDo
<1>3. Entry(s) \in EntryType /\ Bumped(at)
  BY <1>1, <1>2, EntryOK
<1>4. i \in Issues /\ at \in IssueType
  BY <1>3 DEF EntryType
<1>5. /\ i \notin Pulls /\ at.labels \cap ExemptLabels = {}
      /\ at.labels \cap StaleLabels # {}
      /\ at.marked > DormantDuration /\ at.quiet > DormantDuration
  <2>1. at.age \in Nat /\ at.marked \in Nat /\ at.quiet \in Nat /\ DormantDuration \in Nat
    BY <1>4, AgesAreNaturals DEF IssueType
  <2>2. at.labels \cap StaleLabels # {} /\ ~(at.age <= DormantDuration)
    BY <1>2 DEF IsStale, isUpdatedWithinDuration, hasStaleLabel
  <2>3. at.age <= at.quiet /\ at.age <= at.marked
    BY <1>3, <2>2 DEF Bumped
  <2>4. i \notin Pulls /\ at.labels \cap ExemptLabels = {}
    BY <1>2 DEF IsStale
  <2>5. QED BY <2>1, <2>2, <2>3, <2>4
<1>6. closed' = [closed EXCEPT ![i] = at] \/ UNCHANGED closed
  BY DEF closeIssue
<1>. HIDE DEF at, i
<1>7. ClosedOK'
  <2>1. CASE UNCHANGED closed
    BY <1>1, <2>1, SameClosed
  <2>2. CASE closed' = [closed EXCEPT ![i] = at]
    <3>1. closed' \in [Issues -> IssueType \cup {None}]
      BY <1>1, <1>4, <2>2 DEF ClosedOK
    <3>2. \A j \in Issues : closed'[j] = IF j = i THEN at ELSE closed[j]
      BY <1>1, <2>2 DEF ClosedOK
    <3>3. GraceKept'
      BY <1>1, <1>5, <3>2 DEF ClosedOK, GraceKept
    <3>4. QED BY <3>1, <3>3 DEF ClosedOK
  <2>3. QED BY <1>6, <2>1, <2>2
<1>8. IssuesOK'
  <2>1. UNCHANGED <<issue, byUpdate>> \/ Update(i, [issue[i] EXCEPT !.open = FALSE])
    BY DEF closeIssue, i
  <2>2. [issue[i] EXCEPT !.open = FALSE] \in IssueType
    BY <1>1, <1>4 DEF IssuesOK, IssueType
  <2>3. QED BY <1>1, <1>4, <2>1, <2>2, UpdateOK, SameIssuesOK
<1>9. SweepsOK'
  BY <1>1, <1>2, NextIssueOK DEF closeIssue, ToDo
<1>10. OthersOK'
  BY <1>1, FailOK DEF closeIssue, OthersOK
<1>11. QED BY <1>7, <1>8, <1>9, <1>10, Parts

LEMMA markIssueIInv ==
  ASSUME IInv, NEW s \in Sweeps, markIssue(s)
  PROVE  IInv'
<1>1. IssuesOK /\ SweepsOK /\ OthersOK /\ ClosedOK
  BY Parts
<1>2. allIssues[s] # <<>>
  BY DEF markIssue, ToDo
<1>3. Entry(s).num \in Issues
  BY <1>1, <1>2, EntryOK DEF EntryType
<1>4. IssuesOK'
  <2>1. UNCHANGED <<issue, byUpdate>> \/ AddLabel(Entry(s).num, "stale")
    BY DEF markIssue
  <2>2. "stale" \in Labels
    BY DEF Labels, StaleLabels
  <2>3. QED BY <1>1, <1>3, <2>1, <2>2, AddLabelOK, SameIssuesOK
<1>5. SweepsOK'
  <2>1. CASE NextIssue(s) /\ UNCHANGED pc
    BY <1>1, <1>2, <2>1, NextIssueOK DEF markIssue, ToDo
  <2>2. CASE pc' = [pc EXCEPT ![s] = "notify"] /\ UNCHANGED allIssues
    BY <1>1, <1>2, <2>2 DEF markIssue, SweepsOK, ListedBumped, Notifying, Bumped
  <2>3. QED BY <2>1, <2>2 DEF markIssue
<1>6. ClosedOK' /\ OthersOK'
  BY <1>1, SameClosed, FailOK DEF markIssue, OthersOK
<1>7. QED BY <1>4, <1>5, <1>6, Parts

LEMMA CreateCommentIInv ==
  ASSUME IInv, NEW s \in Sweeps, CreateComment(s)
  PROVE  IInv'
<1>. DEFINE i == Entry(s).num
            new == [issue[i] EXCEPT !.notices = IF @ = 0 THEN 1 ELSE 2]
<1>1. IssuesOK /\ SweepsOK /\ OthersOK /\ ClosedOK
  BY Parts
<1>2. i \in Issues /\ allIssues[s] # <<>>
  <2>1. allIssues[s] # <<>>
    BY <1>1 DEF CreateComment, SweepsOK, Notifying
  <2>2. QED BY <1>1, <2>1, EntryOK DEF EntryType
<1>3. new \in IssueType
  BY <1>1, <1>2 DEF IssuesOK, IssueType
<1>4. \/ Update(i, new) /\ Comment(i, FALSE, TRUE)
      \/ Fail /\ UNCHANGED <<issue, byUpdate, tasks>>
  BY DEF CreateComment
<1>. HIDE DEF i, new
<1>5. IssuesOK'
  BY <1>1, <1>2, <1>3, <1>4, UpdateOK, SameIssuesOK
<1>6. OthersOK'
  <2>1. tasks' \subseteq TaskType /\ errors' \in 0..MaxErrors
    BY <1>1, <1>2, <1>4, CommentOK, FailOK DEF OthersOK
  <2>2. QED BY <1>1, <2>1 DEF CreateComment, OthersOK
<1>7. SweepsOK'
  BY <1>1, <1>2, NextIssueOK DEF CreateComment
<1>8. ClosedOK'
  BY <1>1, SameClosed DEF CreateComment
<1>9. QED BY <1>5, <1>6, <1>7, <1>8, Parts

-----------------------------------------------------------------------------
LEMMA NextIInv == IInv /\ [Next]_vars => IInv'
<1>. SUFFICES ASSUME IInv, [Next]_vars PROVE IInv'
  OBVIOUS
<1>1. CASE UNCHANGED vars
  BY <1>1, Parts, SameIssuesOK, SameSweeps, SameClosed DEF vars, OthersOK
<1>2. ASSUME NEW i \in Issues, Act(i) PROVE IInv'
  BY <1>2, ActIInv
<1>3. ASSUME NEW s \in Sweeps, StartSweep(s) \/ Sweep(s) \/ Abort(s) PROVE IInv'
  BY <1>3, StartSweepIInv, AbortIInv, ListPageIInv, PassOverIInv, closeIssueIInv,
     markIssueIInv, CreateCommentIInv DEF Sweep
<1>4. CASE Handler \/ Tick
  BY <1>4, HandlerIInv, TickIInv
<1>5. QED BY <1>1, <1>2, <1>3, <1>4 DEF Next

\* The age of an issue is the least of its times, on GitHub and in the lists of the
\* sweeps, and what was closed was closed for its age.
THEOREM Invariance == Spec => []IInv
BY InitIInv, NextIInv, PTL DEF Spec

\* A sweep closes only what had carried a stale label for longer than
\* DormantDuration without a comment when it was listed (stale.go:102-118, 157-182),
\* for any number of sweeps, issues, pages, failures and comments.
THEOREM Grace == Spec => []GraceKept
<1>1. IInv => GraceKept
  BY DEF IInv
<1>2. QED BY <1>1, Invariance, PTL

-----------------------------------------------------------------------------
(***************************************************************************)
(* One notice for each time an issue is labelled stale.                    *)
(***************************************************************************)
LEMMA EntryIsFirst ==
  ASSUME SweepsOK, NEW s \in Sweeps, allIssues[s] # <<>>
  PROVE  /\ allIssues[s] \in Seq(EntryType) /\ 1 \in DOMAIN allIssues[s]
         /\ Entry(s) = allIssues[s][1]
         /\ Tail(allIssues[s]) \in Seq(EntryType)
         /\ \A k \in DOMAIN Tail(allIssues[s]) :
              k \in Nat /\ k + 1 \in DOMAIN allIssues[s] /\ k + 1 # 1
              /\ Tail(allIssues[s])[k] = allIssues[s][k + 1]
<1>1. allIssues[s] \in Seq(EntryType)
  BY DEF SweepsOK
<1>2. QED BY <1>1 DEF Entry

\* What a step may do to the issues: those that it updates become young, the others
\* move towards the beginning of the list.
NoLater(i) == \A k \in DOMAIN byUpdate' : byUpdate'[k] = i =>
                \E j \in DOMAIN byUpdate : byUpdate[j] = i /\ k <= j
Drift == /\ OpenOnce'
         /\ \A i \in Issues : \/ issue'[i].age = 0
                              \/ issue'[i].age = issue[i].age /\ NoLater(i)

\* What it may do to labels and notices, when it is not a notification.
Mild(old, new) ==
  /\ new.notices \in {old.notices, 0}
  /\ "stale" \in new.labels => "stale" \in old.labels \/ new.notices = 0

LEMMA RemoveFrom ==
  ASSUME NEW S, NEW s \in Seq(S), NEW k \in DOMAIN s
  PROVE  /\ RemoveAt(s, k) \in Seq(S) /\ Len(RemoveAt(s, k)) = Len(s) - 1
         /\ \A j \in 1..(Len(s) - 1) :
              RemoveAt(s, k)[j] = IF j < k THEN s[j] ELSE s[j + 1]
<1>1. k \in 1..Len(s) /\ Len(s) \in Nat
  OBVIOUS
<1>2. SubSeq(s, 1, k - 1) \in Seq(S) /\ Len(SubSeq(s, 1, k - 1)) = k - 1
      /\ \A j \in 1..(k - 1) : SubSeq(s, 1, k - 1)[j] = s[j]
  BY <1>1
<1>3. SubSeq(s, k + 1, Len(s)) \in Seq(S) /\ Len(SubSeq(s, k + 1, Len(s))) = Len(s) - k
      /\ \A j \in 1..(Len(s) - k) : SubSeq(s, k + 1, Len(s))[j] = s[k + j]
  BY <1>1
<1>4. RemoveAt(s, k) = SubSeq(s, 1, k - 1) \o SubSeq(s, k + 1, Len(s))
  BY DEF RemoveAt
<1> DEFINE front == SubSeq(s, 1, k - 1)
           back  == SubSeq(s, k + 1, Len(s))
<1> HIDE DEF front, back
<1>5. front \o back \in Seq(S) /\ Len(front \o back) = Len(s) - 1
      /\ \A j \in 1..(Len(s) - 1) :
           (front \o back)[j] = IF j < k THEN front[j] ELSE back[j - (k - 1)]
  <2>1. /\ front \in Seq(S) /\ Len(front) = k - 1
        /\ back \in Seq(S) /\ Len(back) = Len(s) - k
    BY <1>2, <1>3 DEF front, back
  <2>2. /\ front \o back \in Seq(S) /\ Len(front \o back) = Len(front) + Len(back)
        /\ \A j \in 1..(Len(front) + Len(back)) :
             (front \o back)[j] = IF j <= Len(front) THEN front[j] ELSE back[j - Len(front)]
    BY <2>1, ConcatProperties
  <2>3. Len(front) + Len(back) = Len(s) - 1 /\ \A j \in Nat : j <= k - 1 <=> j < k
    BY <1>1, <2>1
  <2>4. QED BY <2>1, <2>2, <2>3
<1>6. ASSUME NEW j \in 1..(Len(s) - 1)
      PROVE  (front \o back)[j] = IF j < k THEN s[j] ELSE s[j + 1]
  <2>1. CASE j < k
    <3>1. j \in 1..(k - 1)
      BY <1>1, <2>1
    <3>2. QED BY <1>2, <1>5, <2>1, <3>1 DEF front
  <2>2. CASE ~(j < k)
    <3>1. j - (k - 1) \in 1..(Len(s) - k) /\ k + (j - (k - 1)) = j + 1
      BY <1>1, <2>2
    <3>2. back[j - (k - 1)] = s[k + (j - (k - 1))]
      BY <1>3, <3>1 DEF back
    <3>3. QED BY <1>5, <2>2, <3>1, <3>2
  <2>3. QED BY <2>1, <2>2
<1>7. QED BY <1>4, <1>5, <1>6 DEF front, back

LEMMA UpdateDrift ==
  ASSUME IssuesOK, OpenOnce, NEW i \in Issues, NEW new \in IssueType, Update(i, new)
  PROVE  Drift /\ issue'[i] = [new EXCEPT !.age = 0]
         /\ \A j \in Issues \ {i} : issue'[j] = issue[j]
<1> DEFINE atEnd == IF new.open THEN <<i>> ELSE <<>>
<1>1. /\ issue'[i] = [new EXCEPT !.age = 0] /\ \A j \in Issues \ {i} : issue'[j] = issue[j]
      /\ issue'[i].age = 0 /\ issue'[i].open = new.open
  BY DEF Update, IssuesOK, IssueType
<1>2. byUpdate \in Seq(Issues) /\ Len(byUpdate) \in Nat
  BY DEF IssuesOK
\* What is before the end is what was there, without i.
<1>3. PICK rest \in Seq(Issues) :
        /\ byUpdate' = rest \o atEnd
        /\ \A k \in 1..Len(rest) : rest[k] # i
             /\ \E j \in DOMAIN byUpdate : byUpdate[j] = rest[k] /\ k <= j
        /\ \A j, k \in 1..Len(rest) : rest[j] = rest[k] => j = k
  <2>1. CASE ~issue[i].open /\ byUpdate' = byUpdate \o atEnd
    <3>1. DOMAIN byUpdate = 1..Len(byUpdate) /\ \A k \in 1..Len(byUpdate) : k <= k
      BY <1>2
    <3>2. \A k \in 1..Len(byUpdate) : byUpdate[k] # i
      BY <2>1, <3>1 DEF OpenOnce
    <3>3. \A j, k \in 1..Len(byUpdate) : byUpdate[j] = byUpdate[k] => j = k
      BY <3>1 DEF OpenOnce
    <3> HIDE DEF atEnd
    <3>4. QED BY <1>2, <2>1, <3>1, <3>2, <3>3
  <2>2. ASSUME NEW k \in DOMAIN byUpdate, byUpdate[k] = i,
               byUpdate' = RemoveAt(byUpdate, k) \o atEnd
        PROVE  \E rest \in Seq(Issues) :
        /\ byUpdate' = rest \o atEnd
        /\ \A n \in 1..Len(rest) : rest[n] # i
             /\ \E j \in DOMAIN byUpdate : byUpdate[j] = rest[n] /\ n <= j
        /\ \A j, n \in 1..Len(rest) : rest[j] = rest[n] => j = n
    <3> DEFINE rest == RemoveAt(byUpdate, k)
    <3>1. rest \in Seq(Issues) /\ Len(rest) = Len(byUpdate) - 1
          /\ \A j \in 1..Len(rest) : rest[j] = IF j < k THEN byUpdate[j] ELSE byUpdate[j + 1]
      BY <1>2, RemoveFrom
    <3>2. k \in 1..Len(byUpdate) /\ DOMAIN byUpdate = 1..Len(byUpdate)
      BY <1>2
    <3> HIDE DEF rest
    <3>3. ASSUME NEW n \in 1..Len(rest)
          PROVE  /\ rest[n] # i
                 /\ \E j \in DOMAIN byUpdate : byUpdate[j] = rest[n] /\ n <= j
      <4>1. n \in DOMAIN byUpdate /\ n + 1 \in DOMAIN byUpdate
        BY <1>2, <3>1, <3>2
      <4>2. QED BY <2>2, <3>1, <3>2, <4>1 DEF OpenOnce
    <3>4. \A j, n \in 1..Len(rest) : rest[j] = rest[n] => j = n
      <4>1. ASSUME NEW j \in 1..Len(rest), NEW n \in 1..Len(rest), rest[j] = rest[n]
            PROVE  j = n
        <5>1. {j, j + 1, n, n + 1} \subseteq DOMAIN byUpdate
          BY <1>2, <3>1, <3>2
        <5>2. QED BY <3>1, <3>2, <4>1, <5>1 DEF OpenOnce
      <4>2. QED BY <4>1
    <3>5. QED BY <2>2, <3>1, <3>3, <3>4 DEF rest
  <2>3. QED BY <2>1, <2>2 DEF Update
<1>4. DOMAIN byUpdate' = 1..(Len(rest) + (IF new.open THEN 1 ELSE 0)) /\ Len(rest) \in Nat
      /\ \A k \in DOMAIN byUpdate' :
           \/ k \in 1..Len(rest) /\ byUpdate'[k] = rest[k]
           \/ new.open /\ k = Len(rest) + 1 /\ byUpdate'[k] = i
  BY <1>3
<1>5. OpenOnce'
  <2>1. ASSUME NEW k \in 1..Len(rest)
        PROVE  rest[k] # i /\ rest[k] \in Issues /\ issue'[rest[k]].open
    <3>1. PICK j \in DOMAIN byUpdate : byUpdate[j] = rest[k]
      BY <1>3
    <3>2. QED BY <1>1, <1>2, <1>3, <3>1 DEF OpenOnce
  <2>2. ASSUME NEW k \in DOMAIN byUpdate' PROVE issue'[byUpdate'[k]].open
    BY <1>1, <1>4, <2>1
  <2>3. ASSUME NEW j \in DOMAIN byUpdate', NEW k \in DOMAIN byUpdate',
               byUpdate'[j] = byUpdate'[k]
        PROVE  j = k
    <3>1. CASE j \in 1..Len(rest) /\ k \in 1..Len(rest)
      BY <1>3, <1>4, <2>3, <3>1
    <3>2. CASE j \notin 1..Len(rest) \/ k \notin 1..Len(rest)
      BY <1>4, <2>1, <2>3, <3>2
    <3>3. QED BY <3>1, <3>2
  <2>4. QED BY <2>2, <2>3 DEF OpenOnce
<1>6. \A j \in Issues \ {i} : NoLater(j)
  BY <1>3, <1>4 DEF NoLater
<1>7. QED BY <1>1, <1>5, <1>6 DEF Drift

LEMMA SameDrift ==
  ASSUME IssuesOK, OpenOnce, UNCHANGED <<issue, byUpdate>>
  PROVE  Drift /\ \A i \in Issues : Mild(issue[i], issue'[i])
<1>1. \A k \in DOMAIN byUpdate : k \in Nat
  BY DEF IssuesOK
<1>2. QED BY <1>1 DEF Drift, OpenOnce, NoLater, Mild

\* A change of labels, or one that leaves labels and notices alone.
LEMMA MildUpdate ==
  ASSUME IssuesOK, OpenOnce, NEW i \in Issues, NEW new \in IssueType, Mild(issue[i], new),
         Update(i, new)
  PROVE  Drift /\ \A j \in Issues : Mild(issue[j], issue'[j])
<1>1. Drift /\ issue'[i] = [new EXCEPT !.age = 0] /\ \A j \in Issues \ {i} : issue'[j] = issue[j]
  BY UpdateDrift
<1>2. issue'[i].notices = new.notices /\ issue'[i].labels = new.labels
  BY <1>1 DEF IssueType
<1>3. QED BY <1>1, <1>2 DEF Mild

LEMMA AddLabelMild ==
  ASSUME IssuesOK, OpenOnce, NEW i \in Issues, NEW label \in Labels, AddLabel(i, label)
  PROVE  /\ Drift /\ \A j \in Issues : Mild(issue[j], issue'[j])
         /\ label = "stale" => "stale" \in issue[i].labels \/ issue'[i].notices = 0
<1> DEFINE old == issue[i]
           marked == IF label \in StaleLabels /\ old.labels \cap StaleLabels = {} THEN 0 ELSE old.marked
           notices == IF label = "stale" THEN 0 ELSE old.notices
           new == [old EXCEPT !.labels = @ \cup {label}, !.marked = marked, !.notices = notices]
<1>1. old \in IssueType
  BY DEF IssuesOK
<1>2. marked \in Ages /\ notices \in 0..2
  BY <1>1, AgesAreNaturals DEF IssueType
<1>3. (label \in old.labels /\ UNCHANGED <<issue, byUpdate>>) \/ Update(i, new)
  BY <1>1 DEF AddLabel, IssueType
<1> HIDE DEF marked
<1>4. new \in IssueType /\ new.labels = old.labels \cup {label} /\ new.notices = notices
  BY <1>1, <1>2 DEF IssueType
<1> HIDE DEF new
<1>5. Mild(old, new)
  BY <1>4 DEF Mild
<1>6. CASE Update(i, new)
  <2>1. issue'[i] = [new EXCEPT !.age = 0]
    BY <1>4, <1>6, UpdateDrift
  <2>2. issue'[i].notices = notices
    BY <1>4, <2>1 DEF IssueType
  <2>3. QED BY <1>4, <1>5, <1>6, <2>2, MildUpdate
<1>7. QED BY <1>3, <1>6, SameDrift

LEMMA RemoveLabelMild ==
  ASSUME IssuesOK, OpenOnce, NEW i \in Issues, NEW label \in Labels, RemoveLabel(i, label)
  PROVE  Drift /\ \A j \in Issues : Mild(issue[j], issue'[j])
<1> DEFINE new == [issue[i] EXCEPT !.labels = @ \ {label}]
<1>1. new \in IssueType /\ new.labels = issue[i].labels \ {label} /\ new.notices = issue[i].notices
  BY DEF IssuesOK, IssueType
<1>2. UNCHANGED <<issue, byUpdate>> \/ Update(i, new)
  BY DEF RemoveLabel
<1> HIDE DEF new
<1>3. QED BY <1>1, <1>2, MildUpdate, SameDrift DEF Mild


\* A sweep that lists nothing: what it keeps of its list it has had, and it goes to the
\* comment with an entry whose label starts the notices anew.
Shorter(r) == \E d \in {0, 1} : \A k \in DOMAIN allIssues'[r] :
                /\ k \in Nat /\ k + d \in DOMAIN allIssues[r]
                /\ allIssues'[r][k] = allIssues[r][k + d]
SweepStep(r) ==
  /\ Shorter(r)
  /\ pc'[r] = "idle" => allIssues'[r] = <<>>
  /\ pc'[r] = "list" => page'[r] = page[r] /\ (pc[r] = "list" \/ allIssues'[r] = <<>>)
  /\ pc'[r] = "notify" => \/ pc[r] = "notify" /\ allIssues'[r] = allIssues[r]
                          \/ overlaps' = 0 => ToMark(Entry(r)') /\ issue'[Entry(r)'.num].notices = 0

LEMMA ShorterList ==
  ASSUME SweepsOK, NEW r \in Sweeps,
         \/ allIssues'[r] = allIssues[r]
         \/ allIssues[r] # <<>> /\ allIssues'[r] = Tail(allIssues[r])
         \/ allIssues'[r] = <<>>
  PROVE  Shorter(r)
<1>1. CASE allIssues'[r] = allIssues[r]
  <2>1. allIssues[r] \in Seq(EntryType)
    BY DEF SweepsOK
  <2>2. \A k \in DOMAIN allIssues[r] : k \in Nat /\ k + 0 = k
    BY <2>1
  <2>3. QED BY <1>1, <2>2 DEF Shorter
<1>2. CASE allIssues[r] # <<>> /\ allIssues'[r] = Tail(allIssues[r])
  BY <1>2, EntryIsFirst DEF Shorter
<1>3. CASE allIssues'[r] = <<>>
  BY <1>3 DEF Shorter
<1>4. QED BY <1>1, <1>2, <1>3

LEMMA OnceStep ==
  ASSUME IssuesOK, IssuesOK', SweepsOK, SweepsOK', OnceInv, Drift,
         \A i \in Issues : Mild(issue[i], issue'[i]),
         \A r \in Sweeps : SweepStep(r),
         overlaps' = 0 => overlaps = 0 /\ OneByOne'
  PROVE  OnceInv'
<1>1. IdleIsEmpty' /\ OpenOnce'
  BY DEF SweepStep, IdleIsEmpty, Drift
<1> SUFFICES ASSUME overlaps' = 0
             PROVE  Listing' /\ MarkedOnce' /\ LabelledAnew' /\ Unnotified' /\ NotifiedOnce'
  BY <1>1 DEF OnceInv
<1>2. overlaps = 0 /\ Listing /\ MarkedOnce /\ LabelledAnew /\ Unnotified /\ NotifiedOnce
  BY DEF OnceInv
\* What becomes of an entry.
<1>3. ASSUME NEW r \in Sweeps, NEW k \in DOMAIN allIssues[r]
      PROVE  allIssues[r][k].num \in Issues
  <2>1. allIssues[r] \in Seq(EntryType)
    BY DEF SweepsOK
  <2>2. allIssues[r][k] \in EntryType
    BY <2>1, ElementOfSequence
  <2>3. QED BY <2>2 DEF EntryType
<1>4. Listing'
  <2> SUFFICES ASSUME NEW r \in Sweeps, pc'[r] = "list", NEW k \in DOMAIN allIssues'[r],
                      ToMark(allIssues'[r][k])
               PROVE  LET i == allIssues'[r][k].num
                      IN  \/ issue'[i].age <= DormantDuration
                          \/ \A j \in DOMAIN byUpdate' :
                               byUpdate'[j] = i => j <= (page'[r] - 1) * PerPage
    BY DEF Listing, PassedBy
  <2> DEFINE i == allIssues'[r][k].num
  <2>1. pc[r] = "list" /\ page'[r] = page[r]
    BY DEF SweepStep
  <2>2. PICK m \in DOMAIN allIssues[r] : allIssues'[r][k] = allIssues[r][m]
    BY DEF SweepStep, Shorter
  <2>3. i \in Issues /\ PassedBy(r, i)
    BY <1>2, <1>3, <2>1, <2>2 DEF Listing
  <2> HIDE DEF i
  <2>4. CASE issue'[i].age = 0
    BY <2>4, AgesAreNaturals DEF i
  <2>5. CASE issue'[i].age = issue[i].age /\ NoLater(i)
    <3>1. CASE issue[i].age <= DormantDuration
      BY <2>5, <3>1 DEF i
    <3>2. CASE \A j \in DOMAIN byUpdate : byUpdate[j] = i => j <= (page[r] - 1) * PerPage
      <4>1. page[r] - 1 \in Nat /\ PerPage \in Nat
        BY ConstantsAssumption DEF SweepsOK
      <4>2. (page[r] - 1) * PerPage \in Nat
        BY <4>1
      <4> DEFINE seen == (page[r] - 1) * PerPage
      <4> HIDE DEF seen
      <4>3. DOMAIN byUpdate \subseteq Nat
        BY DEF IssuesOK
      <4>4. DOMAIN byUpdate' \subseteq Nat
        BY DEF IssuesOK
      <4>5. \A j \in DOMAIN byUpdate' : byUpdate'[j] = i => j <= seen
        BY <2>5, <3>2, <4>2, <4>3, <4>4 DEF NoLater, seen
      <4>6. QED BY <2>1, <4>5 DEF i, seen
    <3>3. QED BY <2>3, <3>1, <3>2 DEF PassedBy
  <2>6. QED BY <2>3, <2>4, <2>5 DEF Drift
<1>5. MarkedOnce'
  <2> SUFFICES ASSUME NEW r \in Sweeps, NEW j \in DOMAIN allIssues'[r],
                      NEW k \in DOMAIN allIssues'[r],
                      ToMark(allIssues'[r][j]), ToMark(allIssues'[r][k]),
                      allIssues'[r][j].num = allIssues'[r][k].num
               PROVE  j = k
    BY DEF MarkedOnce
  <2>1. PICK d \in {0, 1} : \A m \in DOMAIN allIssues'[r] :
          /\ m \in Nat /\ m + d \in DOMAIN allIssues[r]
          /\ allIssues'[r][m] = allIssues[r][m + d]
    BY DEF SweepStep, Shorter
  <2>2. j + d = k + d
    BY <1>2, <2>1 DEF MarkedOnce
  <2>3. QED BY <2>1, <2>2
<1>6. LabelledAnew'
  <2> SUFFICES ASSUME NEW r \in Sweeps, NEW k \in DOMAIN allIssues'[r],
                      ToMark(allIssues'[r][k]),
                      "stale" \in issue'[allIssues'[r][k].num].labels
               PROVE  issue'[allIssues'[r][k].num].notices = 0
    BY DEF LabelledAnew
  <2>1. PICK m \in DOMAIN allIssues[r] : allIssues'[r][k] = allIssues[r][m]
    BY DEF SweepStep, Shorter
  <2>2. QED BY <1>2, <1>3, <2>1 DEF LabelledAnew, Mild
<1>7. Unnotified'
  <2> SUFFICES ASSUME NEW r \in Sweeps, pc'[r] = "notify"
               PROVE  ToMark(Entry(r)') /\ issue'[Entry(r)'.num].notices = 0
    BY DEF Unnotified
  <2>1. CASE pc[r] = "notify" /\ allIssues'[r] = allIssues[r]
    <3>1. Entry(r)' = Entry(r)
      BY <2>1 DEF Entry
    <3>2. Entry(r).num \in Issues
      BY <2>1, EntryOK DEF SweepsOK, Notifying, EntryType
    <3>3. QED BY <1>2, <2>1, <3>1, <3>2 DEF Unnotified, Mild
  <2>2. QED BY <2>1 DEF SweepStep
<1>8. NotifiedOnce'
  BY <1>2 DEF NotifiedOnce, Mild
<1>9. QED BY <1>4, <1>5, <1>6, <1>7, <1>8

\* A step that leaves the sweeps alone.
LEMMA OutsideStep ==
  ASSUME IssuesOK, SweepsOK, OnceInv, Drift, \A i \in Issues : Mild(issue[i], issue'[i]),
         IssuesOK', UNCHANGED <<pc, page, allIssues, overlaps>>
  PROVE  OnceInv'
<1>1. SweepsOK'
  BY SameSweeps
<1>2. ASSUME NEW r \in Sweeps PROVE SweepStep(r)
  BY ShorterList DEF SweepStep, OnceInv, IdleIsEmpty
<1>3. overlaps' = 0 => overlaps = 0 /\ OneByOne'
  BY DEF OnceInv, OneByOne
<1>4. QED BY <1>1, <1>2, <1>3, OnceStep


-----------------------------------------------------------------------------
LEMMA ActOnce ==
  ASSUME IInv, IInv', OnceInv, NEW i \in Issues, Act(i)
  PROVE  OnceInv'
<1>1. IssuesOK /\ IssuesOK' /\ SweepsOK /\ OpenOnce
  BY Parts DEF IInv, TypeOK, IssuesOK, OnceInv
<1>2. UNCHANGED <<pc, page, allIssues, overlaps>>
  BY DEF Act
<1>3. Drift /\ \A j \in Issues : Mild(issue[j], issue'[j])
  <2>1. issue[i] \in IssueType
    BY <1>1 DEF IssuesOK
  <2>2. /\ [issue[i] EXCEPT !.quiet = 0] \in IssueType
        /\ Mild(issue[i], [issue[i] EXCEPT !.quiet = 0])
        /\ [issue[i] EXCEPT !.open = ~@, !.quiet = 0] \in IssueType
        /\ Mild(issue[i], [issue[i] EXCEPT !.open = ~@, !.quiet = 0])
    BY <2>1, AgesAreNaturals DEF IssueType, Mild
  <2>3. \/ Update(i, [issue[i] EXCEPT !.quiet = 0])
        \/ \E label \in Labels : AddLabel(i, label) \/ RemoveLabel(i, label)
        \/ Update(i, [issue[i] EXCEPT !.open = ~@, !.quiet = 0])
        \/ UNCHANGED <<issue, byUpdate>>
    BY DEF Act
  <2>4. QED BY <1>1, <2>2, <2>3, MildUpdate, AddLabelMild, RemoveLabelMild, SameDrift
<1>4. QED BY <1>1, <1>2, <1>3, OutsideStep

LEMMA HandlerOnce ==
  ASSUME IInv, IInv', OnceInv, Handler
  PROVE  OnceInv'
<1>1. IssuesOK /\ IssuesOK' /\ SweepsOK /\ OpenOnce /\ OthersOK
  BY Parts DEF IInv, TypeOK, IssuesOK, OnceInv
<1>2. PICK t \in tasks : StaleUnlabeler(t) \/ IssueHasLabel(t) \/ RemoveLabelIfExists(t)
                         \/ IssueHasPullRequestLabeler(t)
  BY DEF Handler
<1>3. t.issue \in Issues /\ t.label \in Labels
  BY <1>1 DEF OthersOK, TaskType
<1>4. /\ UNCHANGED <<pc, page, allIssues, overlaps>>
      /\ \/ UNCHANGED <<issue, byUpdate>>
         \/ RemoveLabel(t.issue, t.label) \/ AddLabel(t.issue, t.label)
  BY <1>2 DEF StaleUnlabeler, IssueHasLabel, RemoveLabelIfExists, IssueHasPullRequestLabeler
<1>5. Drift /\ \A j \in Issues : Mild(issue[j], issue'[j])
  BY <1>1, <1>3, <1>4, AddLabelMild, RemoveLabelMild, SameDrift
<1>6. QED BY <1>1, <1>4, <1>5, OutsideStep

LEMMA StartSweepOnce ==
  ASSUME IInv, IInv', OnceInv, NEW s \in Sweeps, StartSweep(s)
  PROVE  OnceInv'
<1>1. IssuesOK /\ IssuesOK' /\ SweepsOK /\ SweepsOK' /\ OpenOnce /\ OthersOK
  BY Parts DEF IInv, TypeOK, IssuesOK, OnceInv, SweepsOK, ListedBumped, Notifying, Bumped
<1>2. Drift /\ \A i \in Issues : Mild(issue[i], issue'[i])
  BY <1>1, SameDrift DEF StartSweep
<1>3. ASSUME NEW r \in Sweeps PROVE SweepStep(r)
  <2>1. Shorter(r) /\ page'[r] = page[r]
    BY <1>1, ShorterList DEF StartSweep
  <2>2. r # s => pc'[r] = pc[r]
    BY <1>1 DEF StartSweep, SweepsOK
  <2>3. allIssues[s] = <<>> /\ pc'[s] = "list"
    BY <1>1 DEF StartSweep, SweepsOK, OnceInv, IdleIsEmpty
  <2>4. QED BY <2>1, <2>2, <2>3 DEF StartSweep, SweepStep, OnceInv, IdleIsEmpty
<1>4. overlaps' = 0 => overlaps = 0 /\ OneByOne'
  <2>1. overlaps \in Nat
    BY <1>1, ConstantsAssumption DEF OthersOK
  <2>2. CASE \A r \in Sweeps : pc[r] = "idle"
    BY <1>1, <2>2 DEF StartSweep, OneByOne, SweepsOK
  <2>3. CASE ~\A r \in Sweeps : pc[r] = "idle"
    BY <2>1, <2>3 DEF StartSweep
  <2>4. QED BY <2>2, <2>3
<1>5. QED BY <1>1, <1>2, <1>3, <1>4, OnceStep

LEMMA AbortOnce ==
  ASSUME IInv, IInv', OnceInv, NEW s \in Sweeps, Abort(s)
  PROVE  OnceInv'
<1>1. IssuesOK /\ IssuesOK' /\ SweepsOK /\ SweepsOK' /\ OpenOnce
  BY Parts DEF IInv, TypeOK, IssuesOK, OnceInv, SweepsOK, ListedBumped, Notifying, Bumped
<1>2. Drift /\ \A i \in Issues : Mild(issue[i], issue'[i])
  BY <1>1, SameDrift DEF Abort
<1>3. ASSUME NEW r \in Sweeps PROVE SweepStep(r)
  <2>1. CASE r = s
    <3>1. pc'[r] = "idle" /\ allIssues'[r] = <<>>
      BY <1>1, <2>1 DEF Abort, SweepsOK
    <3>2. QED BY <1>1, <3>1, ShorterList DEF SweepStep
  <2>2. CASE r # s
    <3>1. pc'[r] = pc[r] /\ allIssues'[r] = allIssues[r] /\ page'[r] = page[r]
      BY <1>1, <2>2 DEF Abort, SweepsOK
    <3>2. QED BY <1>1, <3>1, ShorterList DEF SweepStep, OnceInv, IdleIsEmpty
  <2>3. QED BY <2>1, <2>2
<1>4. overlaps' = 0 => overlaps = 0 /\ OneByOne'
  BY <1>1 DEF Abort, OnceInv, OneByOne, SweepsOK
<1>5. QED BY <1>1, <1>2, <1>3, <1>4, OnceStep

-----------------------------------------------------------------------------
\* The sweep s goes on with its list: every other one stays where it is.
LEMMA SweepOn ==
  ASSUME SweepsOK, SweepsOK', OnceInv, NEW s \in Sweeps,
         \/ NextIssue(s) /\ allIssues[s] # <<>>
         \/ UNCHANGED allIssues,
         UNCHANGED page,
         \A r \in Sweeps \ {s} : pc'[r] = pc[r], pc[s] # "idle",
         \/ pc'[s] = "act"
         \/ pc'[s] = "idle" /\ allIssues[s] = <<>> /\ UNCHANGED allIssues
         \/ /\ pc'[s] = "notify" /\ UNCHANGED allIssues
            /\ overlaps' = 0 => ToMark(Entry(s)) /\ issue'[Entry(s).num].notices = 0,
         UNCHANGED overlaps
  PROVE  /\ \A r \in Sweeps : SweepStep(r)
         /\ overlaps' = 0 => overlaps = 0 /\ OneByOne'
<1>1. ASSUME NEW r \in Sweeps PROVE SweepStep(r)
  <2>1. \/ allIssues'[r] = allIssues[r]
        \/ r = s /\ allIssues[r] # <<>> /\ allIssues'[r] = Tail(allIssues[r])
    BY DEF NextIssue, SweepsOK
  <2>2. Shorter(r)
    BY <2>1, ShorterList
  <2>3. CASE r = s
    BY <2>2, <2>3 DEF SweepStep, Entry
  <2>4. CASE r # s
    BY <2>1, <2>2, <2>4 DEF SweepStep, OnceInv, IdleIsEmpty
  <2>5. QED BY <2>3, <2>4
<1>2. overlaps' = 0 => overlaps = 0 /\ OneByOne'
  BY DEF OnceInv, OneByOne
<1>3. QED BY <1>1, <1>2

LEMMA PassOverOnce ==
  ASSUME IInv, IInv', OnceInv, NEW s \in Sweeps, PassOver(s)
  PROVE  OnceInv'
<1>1. IssuesOK /\ IssuesOK' /\ SweepsOK /\ SweepsOK' /\ OpenOnce
  BY Parts DEF IInv, TypeOK, IssuesOK, OnceInv, SweepsOK, ListedBumped, Notifying, Bumped
<1>2. Drift /\ \A i \in Issues : Mild(issue[i], issue'[i])
  BY <1>1, SameDrift DEF PassOver
<1>3. (\A r \in Sweeps : SweepStep(r)) /\ (overlaps' = 0 => overlaps = 0 /\ OneByOne')
  BY <1>1, SweepOn DEF PassOver, SweepsOK
<1>4. QED BY <1>1, <1>2, <1>3, OnceStep

LEMMA closeIssueOnce ==
  ASSUME IInv, IInv', OnceInv, NEW s \in Sweeps, closeIssue(s)
  PROVE  OnceInv'
<1> DEFINE i == Entry(s).num
           new == [issue[i] EXCEPT !.open = FALSE]
<1>1. IssuesOK /\ IssuesOK' /\ SweepsOK /\ SweepsOK' /\ OpenOnce
  BY Parts DEF IInv, TypeOK, IssuesOK, OnceInv, SweepsOK, ListedBumped, Notifying, Bumped
<1>2. i \in Issues
  BY <1>1, EntryOK DEF closeIssue, ToDo, EntryType
<1>3. Drift /\ \A j \in Issues : Mild(issue[j], issue'[j])
  <2>1. new \in IssueType /\ Mild(issue[i], new)
    BY <1>1, <1>2 DEF IssuesOK, IssueType, Mild
  <2>2. Update(i, new) \/ UNCHANGED <<issue, byUpdate>>
    BY DEF closeIssue
  <2>3. QED BY <1>1, <1>2, <2>1, <2>2, MildUpdate, SameDrift
<1>4. (\A r \in Sweeps : SweepStep(r)) /\ (overlaps' = 0 => overlaps = 0 /\ OneByOne')
  BY <1>1, SweepOn DEF closeIssue, ToDo, SweepsOK
<1>5. QED BY <1>1, <1>3, <1>4, OnceStep

\* The label is new, or whoever put it on in the meantime has started the notices anew.
LEMMA markIssueOnce ==
  ASSUME IInv, IInv', OnceInv, NEW s \in Sweeps, markIssue(s)
  PROVE  OnceInv'
<1> DEFINE i == Entry(s).num
<1>1. IssuesOK /\ IssuesOK' /\ SweepsOK /\ SweepsOK' /\ OpenOnce
  BY Parts DEF IInv, TypeOK, IssuesOK, OnceInv, SweepsOK, ListedBumped, Notifying, Bumped
<1>2. i \in Issues /\ ToMark(Entry(s)) /\ allIssues[s] # <<>> /\ pc[s] = "act"
  BY <1>1, EntryOK DEF markIssue, ToDo, ToMark, EntryType
<1>3. "stale" \in Labels
  BY DEF Labels, StaleLabels
<1>4. Drift /\ \A j \in Issues : Mild(issue[j], issue'[j])
  BY <1>1, <1>2, <1>3, AddLabelMild, SameDrift DEF markIssue
<1>5. UNCHANGED <<page, overlaps>>
  BY DEF markIssue
<1>6. CASE /\ AddLabel(i, "stale") /\ UNCHANGED allIssues
           /\ pc' = [pc EXCEPT ![s] = "notify"]
  <2>1. "stale" \in issue[i].labels \/ issue'[i].notices = 0
    BY <1>1, <1>2, <1>3, <1>6, AddLabelMild
  <2>2. overlaps = 0 => issue'[i].notices = 0
    <3>1. 1 \in DOMAIN allIssues[s] /\ Entry(s) = allIssues[s][1]
      BY <1>1, <1>2, EntryIsFirst
    <3>2. overlaps = 0 /\ "stale" \in issue[i].labels => issue[i].notices = 0
      BY <1>2, <3>1 DEF OnceInv, LabelledAnew
    <3>3. QED BY <1>2, <1>4, <2>1, <3>2 DEF Mild
  <2>3. (\A r \in Sweeps : SweepStep(r)) /\ (overlaps' = 0 => overlaps = 0 /\ OneByOne')
    BY <1>1, <1>2, <1>5, <1>6, <2>2, SweepOn DEF SweepsOK
  <2>4. QED BY <1>1, <1>4, <2>3, OnceStep
<1>7. CASE NextIssue(s) /\ UNCHANGED pc
  <2>1. (\A r \in Sweeps : SweepStep(r)) /\ (overlaps' = 0 => overlaps = 0 /\ OneByOne')
    BY <1>1, <1>2, <1>5, <1>7, SweepOn DEF SweepsOK
  <2>2. QED BY <1>1, <1>4, <2>1, OnceStep
<1>8. QED BY <1>6, <1>7 DEF markIssue


\* The notification: no entry that this sweep has still to mark is of the same issue.
LEMMA CreateCommentOnce ==
  ASSUME IInv, IInv', OnceInv, NEW s \in Sweeps, CreateComment(s)
  PROVE  OnceInv'
<1> DEFINE i == Entry(s).num
           notices == IF issue[i].notices = 0 THEN 1 ELSE 2
           new == [issue[i] EXCEPT !.notices = notices]
<1>1. IssuesOK /\ IssuesOK' /\ SweepsOK /\ SweepsOK' /\ OpenOnce /\ OthersOK
  BY Parts DEF IInv, TypeOK, IssuesOK, OnceInv, SweepsOK, ListedBumped, Notifying, Bumped
<1>2. allIssues[s] # <<>> /\ pc[s] = "notify" /\ i \in Issues
  <2>1. pc[s] = "notify" /\ allIssues[s] # <<>>
    BY <1>1 DEF CreateComment, SweepsOK, Notifying
  <2>2. QED BY <1>1, <2>1, EntryOK DEF EntryType
<1>3. UNCHANGED <<page, overlaps>> /\ pc' = [pc EXCEPT ![s] = "act"] /\ NextIssue(s)
  BY DEF CreateComment
<1>4. (\A r \in Sweeps : SweepStep(r)) /\ (overlaps' = 0 => overlaps = 0 /\ OneByOne')
  BY <1>1, <1>2, <1>3, SweepOn DEF SweepsOK
<1>5. CASE UNCHANGED <<issue, byUpdate>>
  BY <1>1, <1>4, <1>5, OnceStep, SameDrift
<1>6. CASE Update(i, new)
  <2>1. new \in IssueType /\ new.notices = notices
    <3>1. issue[i] \in IssueType /\ notices \in 0..2
      BY <1>1, <1>2 DEF IssuesOK
    <3> HIDE DEF notices
    <3>2. QED BY <3>1 DEF IssueType
  <2>2. Drift /\ issue'[i] = [new EXCEPT !.age = 0] /\ \A j \in Issues \ {i} : issue'[j] = issue[j]
    BY <1>1, <1>2, <1>6, <2>1, UpdateDrift
  <2>3. issue'[i].notices = new.notices
    BY <2>1, <2>2 DEF IssueType
  <2> HIDE DEF i, new
  <2>4. IdleIsEmpty' /\ OpenOnce'
    BY <1>4, <2>2 DEF Drift, SweepStep, IdleIsEmpty
  <2> SUFFICES ASSUME overlaps' = 0
               PROVE  OneByOne' /\ Listing' /\ MarkedOnce' /\ LabelledAnew' /\ Unnotified'
                      /\ NotifiedOnce'
    BY <2>4 DEF OnceInv
  <2>5. OneByOne /\ MarkedOnce /\ LabelledAnew /\ Unnotified /\ NotifiedOnce /\ OneByOne'
    BY <1>4 DEF OnceInv
  <2>6. ToMark(Entry(s)) /\ issue'[i].notices = 1
    BY <1>2, <2>1, <2>3, <2>5 DEF Unnotified, i
  <2>7. \A r \in Sweeps : r # s => pc'[r] = "idle" /\ allIssues'[r] = <<>>
    BY <1>1, <1>2, <1>3, <2>4, <2>5 DEF OneByOne, IdleIsEmpty, SweepsOK
  <2>8. pc'[s] = "act" /\ allIssues'[s] = Tail(allIssues[s])
    BY <1>1, <1>3 DEF NextIssue, SweepsOK
  <2>15. \A r \in Sweeps : \A k \in DOMAIN allIssues'[r] : r = s
    BY <2>7
  <2>9. Listing' /\ Unnotified'
    <3>1. \A r \in Sweeps : pc'[r] # "list" /\ pc'[r] # "notify"
      BY <2>7, <2>8
    <3>2. QED BY <3>1 DEF Listing, Unnotified
  <2>10. /\ 1 \in DOMAIN allIssues[s] /\ Entry(s) = allIssues[s][1]
         /\ Tail(allIssues[s]) \in Seq(EntryType)
         /\ \A k \in DOMAIN Tail(allIssues[s]) :
              /\ k \in Nat /\ k + 1 \in DOMAIN allIssues[s] /\ k + 1 # 1
              /\ Tail(allIssues[s])[k] = allIssues[s][k + 1]
    BY <1>1, <1>2, EntryIsFirst
  <2>11. MarkedOnce'
    <3>1. \A j, k \in DOMAIN Tail(allIssues[s]) :
            /\ ToMark(Tail(allIssues[s])[j]) /\ ToMark(Tail(allIssues[s])[k])
            /\ Tail(allIssues[s])[j].num = Tail(allIssues[s])[k].num
            => j = k
      <4> SUFFICES ASSUME NEW j \in DOMAIN Tail(allIssues[s]), NEW k \in DOMAIN Tail(allIssues[s]),
                          ToMark(Tail(allIssues[s])[j]), ToMark(Tail(allIssues[s])[k]),
                          Tail(allIssues[s])[j].num = Tail(allIssues[s])[k].num
                   PROVE  j = k
        OBVIOUS
      <4>1. j + 1 = k + 1
        BY <2>5, <2>10 DEF MarkedOnce
      <4>2. QED BY <2>10, <4>1
    <3>2. QED BY <2>8, <2>15, <3>1 DEF MarkedOnce
  <2>12. LabelledAnew'
    <3>1. ASSUME NEW k \in DOMAIN Tail(allIssues[s]), ToMark(Tail(allIssues[s])[k]),
                 "stale" \in issue'[Tail(allIssues[s])[k].num].labels
          PROVE  issue'[Tail(allIssues[s])[k].num].notices = 0
      <4>1. Tail(allIssues[s])[k] = allIssues[s][k + 1] /\ k + 1 \in DOMAIN allIssues[s]
            /\ k + 1 # 1
        BY <2>10
      <4>2. allIssues[s][k + 1].num # i
        BY <2>5, <2>6, <2>10, <3>1, <4>1 DEF MarkedOnce, i
      <4>3. allIssues[s][k + 1].num \in Issues
        <5>1. Tail(allIssues[s])[k] \in EntryType
          BY <2>10, ElementOfSequence
        <5>2. QED BY <4>1, <5>1 DEF EntryType
      <4>4. QED BY <2>2, <2>5, <3>1, <4>1, <4>2, <4>3 DEF LabelledAnew
    <3>2. QED BY <2>8, <2>15, <3>1 DEF LabelledAnew
  <2>13. NotifiedOnce'
    <3>1. \A j \in Issues : issue[j].notices <= 1
      BY <1>4, <2>5 DEF NotifiedOnce
    <3>2. \A j \in Issues : issue'[j].notices = 1 \/ issue'[j] = issue[j]
      BY <2>2, <2>6
    <3>3. QED BY <3>1, <3>2 DEF NotifiedOnce
  <2>14. QED BY <2>5, <2>9, <2>11, <2>12, <2>13
<1>7. QED BY <1>5, <1>6 DEF CreateComment

-----------------------------------------------------------------------------
\* A page: what it shows and was listed before has been updated in between, so that it
\* is too young to be marked.
LEMMA ListPageOnce ==
  ASSUME IInv, IInv', OnceInv, NEW s \in Sweeps, ListPage(s)
  PROVE  OnceInv'
<1> DEFINE seen  == (page[s] - 1) * PerPage
           first == seen + 1
           upto  == page[s] * PerPage
           last  == IF upto < Len(byUpdate) THEN upto ELSE Len(byUpdate)
           nums  == SubSeq(byUpdate, first, last)
           entries == [k \in DOMAIN nums |-> [num |-> nums[k], at |-> issue[nums[k]]]]
           old   == allIssues[s]
<1>1. IssuesOK /\ IssuesOK' /\ SweepsOK /\ SweepsOK' /\ OpenOnce
  BY Parts DEF IInv, TypeOK, IssuesOK, OnceInv, SweepsOK, ListedBumped, Notifying, Bumped
<1>2. /\ pc[s] = "list" /\ UNCHANGED <<issue, byUpdate, overlaps>>
      /\ \A r \in Sweeps \ {s} : pc'[r] = pc[r] /\ allIssues'[r] = allIssues[r]
      /\ allIssues'[s] = old \o entries
      /\ \/ last < Len(byUpdate) /\ pc'[s] = "list" /\ page'[s] = page[s] + 1
         \/ pc'[s] = "act"
  BY <1>1 DEF ListPage, SweepsOK
<1>3. IdleIsEmpty' /\ OpenOnce'
  BY <1>1, <1>2 DEF OnceInv, IdleIsEmpty, OpenOnce
<1> SUFFICES ASSUME overlaps = 0
             PROVE  OneByOne' /\ Listing' /\ MarkedOnce' /\ LabelledAnew' /\ Unnotified'
                    /\ NotifiedOnce'
  BY <1>2, <1>3 DEF OnceInv
<1>4. OneByOne /\ Listing /\ MarkedOnce /\ LabelledAnew /\ NotifiedOnce
  BY DEF OnceInv
<1>5. \A r \in Sweeps : r # s => pc'[r] = "idle" /\ allIssues'[r] = <<>>
  BY <1>1, <1>2, <1>3, <1>4 DEF OneByOne, IdleIsEmpty, SweepsOK
<1>16. \A r \in Sweeps : \A k \in DOMAIN allIssues'[r] : r = s
  BY <1>5
<1>6. /\ seen \in Nat /\ last \in Nat /\ last <= Len(byUpdate) /\ first \in Nat \ {0}
      /\ seen <= page[s] * PerPage /\ last <= page[s] * PerPage /\ page[s] * PerPage \in Nat
      /\ page[s] \in Nat \ {0} /\ byUpdate \in Seq(Issues)
  <2>1. page[s] \in Nat \ {0} /\ PerPage \in Nat /\ byUpdate \in Seq(Issues)
    BY <1>1, ConstantsAssumption DEF IssuesOK, SweepsOK
  <2>2. \A m, n \in Nat : m * n \in Nat
    OBVIOUS
  <2>3. page[s] - 1 \in Nat /\ page[s] * PerPage \in Nat
    BY <2>1, <2>2
  <2>4. seen \in Nat
    BY <2>1, <2>2, <2>3
  <2>5. page[s] * PerPage = seen + PerPage
    <3>1. \A m, n \in Int : m * n = (m - 1) * n + n
      OBVIOUS
    <3>2. page[s] \in Int /\ PerPage \in Int
      BY <2>1
    <3>3. page[s] * PerPage = (page[s] - 1) * PerPage + PerPage
      BY <3>1, <3>2, Zenon
    <3>4. QED BY <3>3
  <2>6. Len(byUpdate) \in Nat
    BY <2>1
  <2> HIDE DEF seen, upto
  <2>7. seen <= upto
    BY <2>1, <2>3, <2>4, <2>5 DEF upto
  <2>8. last \in Nat /\ last <= Len(byUpdate) /\ last <= upto
    BY <2>3, <2>6 DEF upto
  <2>9. QED BY <2>1, <2>3, <2>4, <2>7, <2>8 DEF upto
<1> HIDE DEF seen, last
\* What is new stands where this page begins, or later.
<1>7. /\ entries \in Seq(EntryType)
      /\ \A m \in DOMAIN entries :
           /\ m \in Nat /\ seen + m \in DOMAIN byUpdate /\ seen < seen + m /\ seen + m <= last
           /\ entries[m].num = byUpdate[seen + m] /\ entries[m].num \in Issues
           /\ entries[m].at = issue[entries[m].num]
  <2>1. \A k \in first..last : byUpdate[k] \in Issues
    BY <1>6
  <2>2. nums \in Seq(Issues) /\ \A m \in DOMAIN nums : m \in 1..(last - first + 1)
                                                       /\ nums[m] = byUpdate[first + m - 1]
    BY <1>6, <2>1, SubSeqProperties
  <2> HIDE DEF nums
  <2>3. \A m \in DOMAIN nums : entries[m] \in EntryType
    BY <1>1, <2>2 DEF IssuesOK, EntryType
  <2>4. DOMAIN entries = DOMAIN nums /\ entries \in Seq(EntryType)
    BY <2>2, <2>3
  <2>5. ASSUME NEW m \in DOMAIN nums
        PROVE  /\ m \in Nat /\ seen + m \in DOMAIN byUpdate /\ seen < seen + m /\ seen + m <= last
               /\ nums[m] = byUpdate[seen + m] /\ nums[m] \in Issues
    <3>1. m \in 1..(last - first + 1) /\ nums[m] = byUpdate[first + m - 1] /\ nums[m] \in Issues
      BY <2>2, ElementOfSequence
    <3>2. first + m - 1 = seen + m
      BY <1>6, <3>1
    <3>3. QED BY <1>6, <3>1, <3>2
  <2>6. QED BY <2>4, <2>5
<1> HIDE DEF entries
<1>8. old \in Seq(EntryType)
  BY <1>1 DEF SweepsOK
<1>9. \A k \in DOMAIN (old \o entries) :
        \/ k \in DOMAIN old /\ (old \o entries)[k] = old[k] /\ old[k].num \in Issues
        \/ \E m \in DOMAIN entries : k = Len(old) + m /\ (old \o entries)[k] = entries[m]
  <2> SUFFICES ASSUME NEW k \in DOMAIN (old \o entries)
               PROVE  \/ k \in DOMAIN old /\ (old \o entries)[k] = old[k] /\ old[k].num \in Issues
                      \/ \E m \in DOMAIN entries : k = Len(old) + m
                                                   /\ (old \o entries)[k] = entries[m]
    OBVIOUS
  <2>1. /\ Len(old \o entries) = Len(old) + Len(entries) /\ old \o entries \in Seq(EntryType)
        /\ k \in 1..(Len(old) + Len(entries))
        /\ (old \o entries)[k] = IF k <= Len(old) THEN old[k] ELSE entries[k - Len(old)]
    BY <1>7, <1>8, ConcatProperties
  <2>2. CASE k <= Len(old)
    <3>1. k \in DOMAIN old
      BY <1>8, <2>1, <2>2
    <3>2. old[k] \in EntryType
      BY <1>8, <3>1, ElementOfSequence
    <3>3. QED BY <2>1, <2>2, <3>1, <3>2 DEF EntryType
  <2>3. CASE ~(k <= Len(old))
    <3>1. k - Len(old) \in DOMAIN entries /\ k = Len(old) + (k - Len(old))
      BY <1>7, <1>8, <2>1, <2>3
    <3>2. QED BY <2>1, <2>3, <3>1
  <2>4. QED BY <2>2, <2>3
\* An issue listed before and listed again is not to be marked twice.
<1>10. ASSUME NEW k \in DOMAIN old, NEW m \in DOMAIN entries,
              ToMark(old[k]), ToMark(entries[m])
       PROVE  old[k].num # entries[m].num
  <2> SUFFICES ASSUME old[k].num = entries[m].num PROVE FALSE
    OBVIOUS
  <2>1. PassedBy(s, entries[m].num)
    BY <1>2, <1>4, <1>10 DEF Listing
  <2>2. ~(issue[entries[m].num].age <= DormantDuration)
    BY <1>7, <1>10 DEF ToMark, IsStale, isUpdatedWithinDuration
  <2>3. seen + m <= seen /\ seen < seen + m /\ m \in Nat
    BY <1>7, <2>1, <2>2 DEF PassedBy, seen
  <2>4. QED BY <1>6, <2>3
<1>11. MarkedOnce'
  <2>1. ASSUME NEW j \in DOMAIN (old \o entries), NEW k \in DOMAIN (old \o entries),
               ToMark((old \o entries)[j]), ToMark((old \o entries)[k]),
               (old \o entries)[j].num = (old \o entries)[k].num
        PROVE  j = k
    <3>1. CASE j \in DOMAIN old /\ (old \o entries)[j] = old[j]
      <4>1. ~\E m \in DOMAIN entries : (old \o entries)[k] = entries[m]
        BY <1>10, <2>1, <3>1
      <4>2. k \in DOMAIN old /\ (old \o entries)[k] = old[k]
        BY <1>9, <4>1
      <4>3. QED BY <1>4, <2>1, <3>1, <4>2 DEF MarkedOnce
    <3>2. ASSUME NEW m \in DOMAIN entries, j = Len(old) + m, (old \o entries)[j] = entries[m]
          PROVE  j = k
      <4>1. PICK n \in DOMAIN entries : k = Len(old) + n /\ (old \o entries)[k] = entries[n]
        BY <1>9, <1>10, <2>1, <3>2
      <4>2. byUpdate[seen + m] = byUpdate[seen + n]
        BY <1>7, <2>1, <3>2, <4>1
      <4>3. seen + m = seen + n
        BY <1>1, <1>7, <4>2 DEF OpenOnce
      <4>4. QED BY <1>6, <1>7, <3>2, <4>1, <4>3
    <3>3. QED BY <1>9, <3>1, <3>2
  <2>2. QED BY <1>2, <1>16, <2>1 DEF MarkedOnce
<1>12. LabelledAnew'
  <2>1. ASSUME NEW k \in DOMAIN (old \o entries), ToMark((old \o entries)[k]),
               "stale" \in issue[(old \o entries)[k].num].labels
        PROVE  issue[(old \o entries)[k].num].notices = 0
    <3>1. CASE k \in DOMAIN old /\ (old \o entries)[k] = old[k]
      BY <1>4, <2>1, <3>1 DEF LabelledAnew
    <3>2. ASSUME NEW m \in DOMAIN entries, (old \o entries)[k] = entries[m]
          PROVE  FALSE
      BY <1>7, <2>1, <3>2 DEF ToMark, hasStaleLabel, StaleLabels
    <3>3. QED BY <1>9, <3>1, <3>2
  <2>2. QED BY <1>2, <1>16, <2>1 DEF LabelledAnew
<1>13. Listing'
  <2>1. ASSUME pc'[s] = "list", NEW k \in DOMAIN (old \o entries), ToMark((old \o entries)[k])
        PROVE  LET i == (old \o entries)[k].num
               IN  \/ issue[i].age <= DormantDuration
                   \/ \A j \in DOMAIN byUpdate :
                        byUpdate[j] = i => j <= (page'[s] - 1) * PerPage
    <3> DEFINE i == (old \o entries)[k].num
    <3>1. page'[s] - 1 = page[s]
      BY <1>2, <1>6, <2>1
    <3>2. CASE k \in DOMAIN old /\ (old \o entries)[k] = old[k]
      <4>1. PassedBy(s, i)
        BY <1>2, <1>4, <2>1, <3>2 DEF Listing
      <4>2. CASE issue[i].age <= DormantDuration
        BY <4>2
      <4>3. CASE \A j \in DOMAIN byUpdate : byUpdate[j] = i => j <= seen
        <5>1. \A j \in DOMAIN byUpdate : j \in Nat
          BY <1>6
        <5>2. \A j \in DOMAIN byUpdate : byUpdate[j] = i => j <= page[s] * PerPage
          BY <1>6, <4>3, <5>1
        <5>3. QED BY <3>1, <5>2
      <4>4. QED BY <4>1, <4>2, <4>3 DEF PassedBy, seen
    <3>3. ASSUME NEW m \in DOMAIN entries, (old \o entries)[k] = entries[m]
          PROVE  \A j \in DOMAIN byUpdate : byUpdate[j] = i => j <= page[s] * PerPage
      <4>1. \A j \in DOMAIN byUpdate : byUpdate[j] = i => j = seen + m
        BY <1>1, <1>7, <3>3 DEF OpenOnce
      <4>2. seen + m <= page[s] * PerPage
        BY <1>6, <1>7
      <4>3. QED BY <4>1, <4>2
    <3>4. QED BY <1>9, <3>1, <3>2, <3>3
  <2>2. ASSUME NEW r \in Sweeps, pc'[r] = "list", NEW k \in DOMAIN allIssues'[r],
               ToMark(allIssues'[r][k])
        PROVE  LET i == allIssues'[r][k].num
               IN  \/ issue'[i].age <= DormantDuration
                   \/ \A j \in DOMAIN byUpdate' :
                        byUpdate'[j] = i => j <= (page'[r] - 1) * PerPage
    <3>1. r = s /\ allIssues'[r] = old \o entries
      BY <1>2, <1>16, <2>2
    <3>2. QED BY <1>2, <2>1, <2>2, <3>1
  <2>3. QED BY <2>2 DEF Listing, PassedBy
<1>14. OneByOne' /\ Unnotified' /\ NotifiedOnce'
  <2>1. \A r \in Sweeps : pc'[r] # "notify"
    BY <1>2, <1>5
  <2>2. QED BY <1>2, <1>4, <1>5, <2>1 DEF OneByOne, Unnotified, NotifiedOnce
<1>15. QED BY <1>11, <1>12, <1>13, <1>14


-----------------------------------------------------------------------------
\* While time passes there is no list.
LEMMA TickOnce ==
  ASSUME IInv, IInv', OnceInv, Tick
  PROVE  OnceInv'
<1> DEFINE Older(a) == IF a > DormantDuration THEN a ELSE a + 1
<1>1. IssuesOK /\ IssuesOK' /\ SweepsOK
  BY Parts DEF IInv, TypeOK, IssuesOK
<1>2. \A i \in Issues : /\ issue'[i].open = issue[i].open
                        /\ issue'[i].notices = issue[i].notices
  <2> SUFFICES ASSUME NEW i \in Issues
               PROVE  issue'[i].open = issue[i].open /\ issue'[i].notices = issue[i].notices
    OBVIOUS
  <2>1. issue'[i] = [issue[i] EXCEPT !.age = Older(@), !.quiet = Older(@), !.marked = Older(@)]
    BY DEF Tick
  <2>2. issue[i] \in IssueType
    BY <1>1 DEF IssuesOK
  <2> HIDE DEF Older
  <2>3. QED BY <2>1, <2>2 DEF IssueType
<1>3. UNCHANGED <<byUpdate, pc, allIssues, overlaps>>
  BY DEF Tick
<1>4. IdleIsEmpty'
  BY <1>3 DEF OnceInv, IdleIsEmpty
<1>5. \A r \in Sweeps : pc'[r] = "idle" /\ allIssues'[r] = <<>>
  BY <1>3, <1>4 DEF Tick, IdleIsEmpty
<1>6. OpenOnce'
  <2>1. \A k \in DOMAIN byUpdate : byUpdate[k] \in Issues
    BY <1>1 DEF IssuesOK
  <2>2. QED BY <1>2, <1>3, <2>1 DEF OnceInv, OpenOnce
<1>7. Listing' /\ MarkedOnce' /\ LabelledAnew' /\ Unnotified' /\ OneByOne'
  BY <1>5 DEF Listing, MarkedOnce, LabelledAnew, Unnotified, OneByOne
<1>8. overlaps' = 0 => NotifiedOnce'
  BY <1>2, <1>3 DEF OnceInv, NotifiedOnce
<1>9. QED BY <1>4, <1>6, <1>7, <1>8 DEF OnceInv

LEMMA InitOnce == Init => OnceInv
<1> SUFFICES ASSUME Init PROVE OnceInv
  OBVIOUS
<1>1. OpenOnce
  <2>1. Cardinality(Issues) \in Nat
    BY ConstantsAssumption, FS_CardinalityType
  <2>2. /\ byUpdate \in [1..Cardinality(Issues) -> Issues]
        /\ \A j, k \in 1..Cardinality(Issues) : j # k => byUpdate[j] # byUpdate[k]
    BY <2>1 DEF Init, SetToSeqs
  <2>3. \A i \in Issues : issue[i].open
    BY DEF Init, NewIssue
  <2>4. QED BY <2>2, <2>3 DEF OpenOnce
<1>2. \A i \in Issues : issue[i].notices = 0
  BY DEF Init, NewIssue
<1>3. \A s \in Sweeps : pc[s] = "idle" /\ allIssues[s] = <<>>
  BY DEF Init
<1>4. QED BY <1>1, <1>2, <1>3
          DEF OnceInv, IdleIsEmpty, OneByOne, Listing, MarkedOnce, LabelledAnew, Unnotified,
              NotifiedOnce

LEMMA NextOnce == IInv /\ IInv' /\ OnceInv /\ [Next]_vars => OnceInv'
<1> SUFFICES ASSUME IInv, IInv', OnceInv, [Next]_vars PROVE OnceInv'
  OBVIOUS
<1>1. CASE UNCHANGED vars
  <2>1. IssuesOK /\ IssuesOK' /\ SweepsOK /\ OpenOnce
    BY Parts DEF IInv, TypeOK, IssuesOK, OnceInv
  <2>2. UNCHANGED <<pc, page, allIssues, overlaps>> /\ UNCHANGED <<issue, byUpdate>>
    BY <1>1 DEF vars
  <2>3. QED BY <2>1, <2>2, OutsideStep, SameDrift
<1>2. ASSUME NEW i \in Issues, Act(i) PROVE OnceInv'
  BY <1>2, ActOnce
<1>3. ASSUME NEW s \in Sweeps, StartSweep(s) PROVE OnceInv'
  BY <1>3, StartSweepOnce
<1>4. ASSUME NEW s \in Sweeps, Sweep(s) PROVE OnceInv'
  BY <1>4, ListPageOnce, PassOverOnce, closeIssueOnce, markIssueOnce, CreateCommentOnce DEF Sweep
<1>5. ASSUME NEW s \in Sweeps, Abort(s) PROVE OnceInv'
  BY <1>5, AbortOnce
<1>6. CASE Handler
  BY <1>6, HandlerOnce
<1>7. CASE Tick
  BY <1>7, TickOnce
<1>8. QED BY <1>1, <1>2, <1>3, <1>4, <1>5, <1>6, <1>7 DEF Next

\* A sweep that runs alone lists an issue that it will mark once, however the issues
\* move between its pages (stale.go:44-66), and the issue has not been notified since
\* it was labelled when the sweep comes to comment on it.
THEOREM SweepInvariance == Spec => []SweepInv
<1>1. Init => SweepInv
  BY InitIInv, InitOnce DEF SweepInv
<1>2. SweepInv /\ [Next]_vars => SweepInv'
  BY NextIInv, NextOnce DEF SweepInv
<1>3. QED BY <1>1, <1>2, PTL DEF Spec

\* One notice for each time an issue is labelled stale, whatever fails or is killed, as
\* long as sweeps do not overlap (stale.go:137-155).
THEOREM OneNotice == Spec => []NotifiedOnce
<1>1. SweepInv => NotifiedOnce
  BY DEF SweepInv, OnceInv, NotifiedOnce
<1>2. QED BY <1>1, SweepInvariance, PTL
=============================================================================
