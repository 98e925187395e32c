----------------------------- MODULE Lgtm_proofs -----------------------------
(***************************************************************************)
(* Proofs about Lgtm: an approval stays with the commit of the object it   *)
(* was counted in, for any number of comments, commits, handlers in flight *)
(* and restarts; and while deliveries are handled in order it counts once  *)
(* and is kept, unless a list of statuses did not reach the bot's.         *)
(***************************************************************************)
EXTENDS Lgtm, FiniteSetTheorems, SequenceTheorems, TLAPS

LEMMA SomeCommit == 0 \in Commits /\ Commits \subseteq Deliveries /\ Comments \subseteq Deliveries
<1>1. MaxHead \in Nat
  BY ConstantsAssumption
<1>2. QED BY <1>1 DEF Commits, Deliveries

LEMMA NobodyFresh == Nobody \notin Deliveries
BY ConstantsAssumption

LEMMA InitIInv == Init => IInv
<1> SUFFICES ASSUME Init PROVE IInv
  OBVIOUS
<1>1. TypeOK
  <2>1. <<>> \in Seq(Users)
    OBVIOUS
  <2>2. info \in [Deliveries -> InfoType] /\ slice \in [Comments -> Seq(Users)]
    BY <2>1, SomeCommit DEF Init, NoInfo, NoSlice, NewInfo, InfoType
  <2>3. status \in [Commits -> StatusType]
    BY <2>1 DEF Init, NoStatus, StatusType
  <2>4. QED
    BY <2>2, <2>3, SomeCommit DEF Init, TypeOK, Steps, NoPointer
<1>2. StatusApproved /\ InfoApproved /\ SliceApproved
  BY DEF Init, StatusApproved, InfoApproved, SliceApproved, AllApproved, NoInfo,
         NewInfo, NoStatus, Deliveries
<1>3. PointerHeld /\ UnsharedYet
  BY NobodyFresh DEF Init, PointerHeld, UnsharedYet, NoPointer
<1>4. EmptyYet
  BY DEF Init, EmptyYet, NoInfo, NewInfo
<1>5. QED BY <1>1, <1>2, <1>3, <1>4 DEF IInv

\* A step that only moves handlers and their pointers.
LEMMA QuietStep ==
  ASSUME IInv, TypeOK', PointerHeld', UnsharedYet',
         UNCHANGED <<status, approved, info, slice>>,
         \A d \in Deliveries : Fresh(d)' => Fresh(d),
         \A c \in Comments : pc'[c] = "write" => pc[c] = "write" /\ ptr'[c] = ptr[c]
  PROVE  IInv'
BY DEF IInv, StatusApproved, InfoApproved, SliceApproved, AllApproved, EmptyYet

\* Nobody points to an object before its commit is known.
LEMMA NotShared ==
  ASSUME IInv, NEW d \in Deliveries, Fresh(d), NEW c \in Comments
  PROVE  ptr[c] # d /\ cached # d
BY DEF IInv, UnsharedYet, Deliveries

\* A step that allocates or fills the object of d with approvals of its commit.
LEMMA FillStep ==
  ASSUME IInv, TypeOK', PointerHeld', UnsharedYet', NEW d \in Deliveries,
         UNCHANGED <<status, approved, slice>>, ~Fresh(d)',
         \A e \in Deliveries : e # d /\ Fresh(e)' => Fresh(e),
         \A e \in Deliveries : e # d => info'[e] = info[e],
         AllApproved(info[d].lgtmers, info[d].sha)',
         \A c \in Comments : ptr[c] = d => info'[d].sha = info[d].sha,
         \A c \in Comments : pc'[c] = "write" => pc[c] = "write" /\ ptr'[c] = ptr[c]
  PROVE  IInv'
<1>1. StatusApproved'
  BY DEF IInv, StatusApproved, AllApproved
<1>2. InfoApproved'
  <2>1. ASSUME NEW e \in Deliveries, e # d
        PROVE  AllApproved(info[e].lgtmers, info[e].sha)'
    <3>1. info'[e] = info[e] /\ approved' = approved
      BY <2>1
    <3>2. AllApproved(info[e].lgtmers, info[e].sha)
      BY DEF IInv, InfoApproved
    <3>3. QED BY <3>1, <3>2 DEF AllApproved
  <2>2. QED BY <2>1 DEF InfoApproved
<1>3. ASSUME NEW c \in Comments, pc'[c] = "write"
      PROVE  info'[ptr'[c]].sha = info[ptr[c]].sha
  <2>1. ptr'[c] = ptr[c] /\ ptr[c] \in Deliveries
    BY <1>3 DEF IInv, TypeOK, Steps, PointerHeld, Deliveries
  <2>2. QED BY <2>1
<1>4. SliceApproved'
  BY <1>3 DEF IInv, SliceApproved, AllApproved
<1>5. EmptyYet'
  BY DEF IInv, EmptyYet
<1>6. QED BY <1>1, <1>2, <1>4, <1>5 DEF IInv

LEMMA ReceiveCommentIInv ==
  ASSUME IInv, NEW c \in Comments, ReceiveComment(c) PROVE IInv'
<1>1. TypeOK'
  BY DEF IInv, TypeOK, Steps, ReceiveComment, Goto, Overlap, Deliveries
<1>2. PointerHeld' /\ UnsharedYet'
  BY DEF IInv, TypeOK, Steps, PointerHeld, UnsharedYet, Fresh, ReceiveComment, Goto, Deliveries
<1>3. QED
  BY <1>1, <1>2, QuietStep DEF IInv, TypeOK, Steps, Fresh, ReceiveComment, Goto, Deliveries

LEMMA LookInCacheIInv ==
  ASSUME IInv, NEW c \in Comments, LookInCache(c) PROVE IInv'
<1>1. TypeOK'
  <2>1. pc' \in [Deliveries -> Steps]
    BY DEF IInv, TypeOK, Steps, LookInCache, Goto
  <2>2. ptr' \in [Deliveries -> Deliveries \cup {Nobody}]
    BY DEF IInv, TypeOK, LookInCache
  <2>3. UNCHANGED <<info, slice, cached, head, status, approved, disorder, overlooked, crashes>>
    BY DEF LookInCache
  <2>4. QED BY <2>1, <2>2, <2>3 DEF IInv, TypeOK
<1>2. PointerHeld' /\ UnsharedYet'
  BY DEF IInv, TypeOK, Steps, PointerHeld, UnsharedYet, Fresh, LookInCache, Goto, Deliveries
<1>3. QED
  BY <1>1, <1>2, QuietStep DEF IInv, TypeOK, Steps, Fresh, LookInCache, Goto, Deliveries

\* Moving on, or letting go of the object at the end, shares nothing.
LEMMA MoveStep ==
  ASSUME IInv, NEW d \in Deliveries, UNCHANGED cached,
         NEW from \in {"list", "postEmpty", "check", "post"},
         NEW to \in {"postEmpty", "keepEmpty", "store", "read", "keep", "failed"},
         GotoFree(d, from, to)
  PROVE  /\ pc' \in [Deliveries -> Steps]
         /\ ptr' \in [Deliveries -> Deliveries \cup {Nobody}]
         /\ PointerHeld' /\ UnsharedYet'
         /\ \A e \in Deliveries : Fresh(e)' => Fresh(e)
         /\ \A c \in Comments : pc'[c] = "write" => pc[c] = "write" /\ ptr'[c] = ptr[c]
<1>1. /\ pc' = [pc EXCEPT ![d] = to] /\ pc[d] = from
      /\ ptr' = IF to = "failed" THEN [ptr EXCEPT ![d] = Nobody] ELSE ptr
  BY DEF GotoFree, Goto
<1>2. /\ pc' \in [Deliveries -> Steps]
      /\ ptr' \in [Deliveries -> Deliveries \cup {Nobody}]
  BY <1>1 DEF IInv, TypeOK, Steps
<1>3. PointerHeld'
  BY <1>1, <1>2 DEF IInv, TypeOK, Steps, PointerHeld
<1>4. UnsharedYet'
  BY <1>1, <1>2, NobodyFresh DEF IInv, TypeOK, Steps, UnsharedYet, Fresh
<1>5. QED
  BY <1>1, <1>2, <1>3, <1>4 DEF IInv, TypeOK, Steps, Fresh, Deliveries

LEMMA CheckDuplicateIInv ==
  ASSUME IInv, NEW c \in Comments, CheckDuplicate(c) PROVE IInv'
<1>1. c \in Deliveries /\ \E to \in {"read", "failed"} : GotoFree(c, "check", to)
  BY DEF CheckDuplicate, Deliveries
<1>2. TypeOK'
  BY <1>1, MoveStep DEF IInv, TypeOK, Steps, CheckDuplicate
<1>3. QED
  BY <1>1, <1>2, MoveStep, QuietStep DEF CheckDuplicate

LEMMA PushIInv == ASSUME IInv, Push PROVE IInv'
<1>1. TypeOK'
  BY ConstantsAssumption DEF IInv, TypeOK, Steps, Push, Commits
<1>2. PointerHeld' /\ UnsharedYet'
  BY DEF IInv, PointerHeld, UnsharedYet, Fresh, Push
<1>3. QED BY <1>1, <1>2, QuietStep DEF Fresh, Push

\* What is cached is the object of a handler that is past the allocation.
LEMMA RememberStep ==
  ASSUME IInv, NEW d \in Deliveries, NEW from \in {"keepEmpty", "store", "keep"},
         NEW to \in {"store", "check", "done"}, Remember(d, from, to)
  PROVE  /\ pc' \in [Deliveries -> Steps]
         /\ ptr' \in [Deliveries -> Deliveries \cup {Nobody}]
         /\ cached' \in Deliveries
         /\ PointerHeld' /\ UnsharedYet'
         /\ \A e \in Deliveries : Fresh(e)' => Fresh(e)
         /\ \A c \in Comments : pc'[c] = "write" => pc[c] = "write" /\ ptr'[c] = ptr[c]
<1>1. ptr[d] \in Deliveries /\ ~Fresh(ptr[d])
  BY DEF IInv, TypeOK, Steps, PointerHeld, UnsharedYet, Remember, GotoFree, Goto
<1>2. pc' \in [Deliveries -> Steps]
  BY DEF IInv, TypeOK, Steps, Remember, GotoFree, Goto
<1>3. ptr' \in [Deliveries -> Deliveries \cup {Nobody}] /\ cached' \in Deliveries
  BY <1>1 DEF IInv, TypeOK, Steps, Remember, GotoFree, Goto
<1>4. PointerHeld'
  BY DEF IInv, TypeOK, Steps, PointerHeld, Remember, GotoFree, Goto
<1>5. UnsharedYet'
  BY <1>1, ConstantsAssumption
  DEF IInv, TypeOK, Steps, UnsharedYet, Fresh, Remember, GotoFree, Goto
<1>6. QED
  BY <1>2, <1>3, <1>4, <1>5 DEF IInv, TypeOK, Steps, Fresh, Remember, GotoFree, Goto, Deliveries

LEMMA KeepEmptyIInv ==
  ASSUME IInv, NEW c \in Comments, KeepEmpty(c) PROVE IInv'
<1>1. c \in Deliveries /\ Remember(c, "keepEmpty", "store")
  BY DEF KeepEmpty, Deliveries
<1>2. TypeOK'
  BY <1>1, RememberStep DEF IInv, TypeOK, Steps, KeepEmpty
<1>3. QED
  BY <1>1, <1>2, RememberStep, QuietStep DEF KeepEmpty

LEMMA KeepIInv ==
  ASSUME IInv, NEW d \in Deliveries, Keep(d) PROVE IInv'
<1>1. Remember(d, "keep", "done")
  BY DEF Keep
<1>2. TypeOK'
  BY <1>1, RememberStep DEF IInv, TypeOK, Steps, Keep
<1>3. QED
  BY <1>1, <1>2, RememberStep, QuietStep DEF Keep

\* A new object is not pointed to by anybody, so that its commit may be set.
LEMMA ReceivePushIInv ==
  ASSUME IInv, NEW n \in Commits, ReceivePush(n) PROVE IInv'
<1>1. n \in Deliveries /\ pc[n] = "idle"
  BY DEF ReceivePush, Goto, Deliveries
<1>2. TypeOK'
  <2>1. NewInfo(<<>>, Quorum, n) \in InfoType
    <3>1. Quorum \in Nat /\ <<>> \in Seq(Users)
      BY ConstantsAssumption
    <3>2. QED BY <3>1 DEF NewInfo, InfoType
  <2>2. info' \in [Deliveries -> InfoType]
    BY <2>1 DEF IInv, TypeOK, Steps, ReceivePush
  <2>3. disorder' \in BOOLEAN
    BY DEF ReceivePush
  <2>4. QED
    BY <1>1, <2>2, <2>3 DEF IInv, TypeOK, Steps, ReceivePush, Goto
<1>3. PointerHeld' /\ UnsharedYet'
  BY <1>1, NobodyFresh DEF IInv, TypeOK, Steps, PointerHeld, UnsharedYet, Fresh, ReceivePush, Goto
<1>4. AllApproved(info[n].lgtmers, info[n].sha)'
  BY <1>1 DEF IInv, TypeOK, Steps, ReceivePush, NewInfo, AllApproved
<1>5. \A c \in Comments : ptr[c] # n
  BY <1>1, NotShared DEF Fresh
<1>6. \A c \in Comments : c # n
  BY ConstantsAssumption
<1>7. QED
  BY <1>1, <1>2, <1>3, <1>4, <1>5, <1>6, FillStep
  DEF IInv, TypeOK, Steps, Fresh, ReceivePush, Goto, Deliveries

LEMMA GetPullIInv ==
  ASSUME IInv, NEW c \in Comments, GetPull(c) PROVE IInv'
<1>1. c \in Deliveries /\ pc[c] = "get"
  BY DEF GetPull, Goto, Deliveries
<1>2. TypeOK'
  <2>1. [info[c] EXCEPT !.sha = head] \in InfoType
    BY <1>1 DEF IInv, TypeOK, Steps, InfoType
  <2>2. info' \in [Deliveries -> InfoType]
    BY <1>1, <2>1 DEF IInv, TypeOK, Steps, GetPull
  <2>3. pc' \in [Deliveries -> Steps]
    BY DEF IInv, TypeOK, Steps, GetPull, Goto
  <2>4. ptr' \in [Deliveries -> Deliveries \cup {Nobody}]
    BY <1>1 DEF IInv, TypeOK, Steps, GetPull
  <2>5. QED BY <2>2, <2>3, <2>4 DEF IInv, TypeOK, Steps, GetPull
<1>3. PointerHeld' /\ UnsharedYet'
  BY <1>1, NobodyFresh DEF IInv, TypeOK, Steps, PointerHeld, UnsharedYet, Fresh, GetPull, Goto
<1>4. PICK to \in {"list", "failed"} : pc' = [pc EXCEPT ![c] = to]
  BY DEF GetPull, Goto
<1>5. \A b \in Comments : ptr[b] # c
  BY <1>1, NotShared DEF Fresh
<1>6. CASE UNCHANGED info
  BY <1>1, <1>2, <1>3, <1>4, <1>6, QuietStep
  DEF IInv, TypeOK, Steps, Fresh, GetPull, Goto, Deliveries
<1>7. CASE Goto(c, "get", "list") /\ info' = [info EXCEPT ![c].sha = head]
               /\ ptr' = [ptr EXCEPT ![c] = c]
  <2>1. info[c].lgtmers = <<>>
    BY <1>1 DEF IInv, EmptyYet, Fresh
  <2>2. AllApproved(info[c].lgtmers, info[c].sha)'
    BY <1>1, <1>7, <2>1 DEF IInv, TypeOK, Steps, InfoType, AllApproved
  <2>3. QED
    BY <1>1, <1>2, <1>3, <1>5, <1>7, <2>2, FillStep
    DEF IInv, TypeOK, Steps, Fresh, GetPull, Goto, Deliveries
<1>8. QED BY <1>6, <1>7 DEF GetPull

\* What parseStatus reads back was approved for the commit it was published on.
LEMMA ListStatusesIInv ==
  ASSUME IInv, NEW c \in Comments, ListStatuses(c) PROVE IInv'
<1> DEFINE sha == info[c].sha
<1>1. c \in Deliveries /\ pc[c] = "list" /\ sha \in Commits
  BY DEF IInv, TypeOK, Steps, InfoType, ListStatuses, GotoFree, Goto, Deliveries
<1>2. PICK to \in {"store", "postEmpty", "failed"} : GotoFree(c, "list", to)
  BY DEF ListStatuses
<1>3. /\ \A e \in Deliveries : Fresh(e)' => Fresh(e)
      /\ PointerHeld' /\ UnsharedYet'
      /\ \A b \in Comments : pc'[b] = "write" => pc[b] = "write" /\ ptr'[b] = ptr[b]
      /\ ~Fresh(c)'
  BY <1>1, <1>2, MoveStep DEF IInv, TypeOK, Steps, ListStatuses, GotoFree, Goto, Fresh
<1>4. CASE UNCHANGED info
  <2>1. TypeOK'
    BY <1>1, <1>2, <1>4, MoveStep DEF IInv, TypeOK, Steps, ListStatuses
  <2>2. QED BY <1>3, <1>4, <2>1, QuietStep DEF ListStatuses
<1>5. ASSUME NEW s \in StatusType, info' = [info EXCEPT ![c] = parseStatus(sha, s)],
             AllApproved(s.mentions, sha)
      PROVE  IInv'
  <2>1. parseStatus(sha, s) \in InfoType
    BY <1>1, <1>5 DEF parseStatus, NewInfo, InfoType, StatusType
  <2>2. TypeOK'
    BY <1>1, <1>2, <1>5, <2>1, MoveStep DEF IInv, TypeOK, Steps, ListStatuses
  <2>3. info'[c].lgtmers = s.mentions /\ info'[c].sha = sha
    BY <1>1, <1>5 DEF IInv, TypeOK, Steps, parseStatus, NewInfo
  <2>4. AllApproved(info[c].lgtmers, info[c].sha)'
    <3>1. approved' = approved
      BY DEF ListStatuses
    <3>2. AllApproved(s.mentions, sha)
      BY <1>5
    <3>3. QED BY <2>3, <3>1, <3>2 DEF AllApproved
  <2>5. QED
    BY <1>1, <1>3, <1>5, <2>2, <2>3, <2>4, FillStep DEF IInv, TypeOK, Steps, ListStatuses
<1>6. status[sha] \in StatusType /\ AllApproved(status[sha].mentions, sha)
  BY <1>1 DEF IInv, TypeOK, Steps, StatusApproved
<1>7. newEmptyStatus(Quorum) \in StatusType
      /\ AllApproved(newEmptyStatus(Quorum).mentions, sha)
  <2>1. newEmptyStatus(Quorum).mentions = <<>> /\ newEmptyStatus(Quorum).requires = 0
    BY DEF newEmptyStatus, NewRepoStatus, NewInfo
  <2>2. newEmptyStatus(Quorum).state \in {"success", "pending"}
    BY DEF newEmptyStatus, NewRepoStatus, newState
  <2>3. newEmptyStatus(Quorum) \in StatusType
    <3>1. newEmptyStatus(Quorum) = [state    |-> newEmptyStatus(Quorum).state,
                                    mentions |-> <<>>, requires |-> 0]
      BY <2>1 DEF newEmptyStatus, NewRepoStatus
    <3>2. <<>> \in Seq(Users)
      OBVIOUS
    <3>3. ASSUME NEW state \in {"success", "pending"}
          PROVE  [state |-> state, mentions |-> <<>>, requires |-> 0] \in StatusType
      BY <3>2 DEF StatusType
    <3>4. QED BY <2>2, <3>1, <3>3
  <2>4. QED BY <2>1, <2>3 DEF AllApproved
<1>8. QED BY <1>4, <1>5, <1>6, <1>7 DEF ListStatuses

\* What is published was approved for the commit it is published on.
LEMMA CreateStatusStep ==
  ASSUME IInv, NEW d \in Deliveries, NEW from \in {"postEmpty", "post"},
         NEW kept \in {"keepEmpty", "keep"}, NEW refused \in {"store", "failed"},
         CreateStatus(d, from, kept, refused),
         UNCHANGED <<info, slice, cached, head, approved, disorder, overlooked, crashes>>
  PROVE  IInv'
<1> DEFINE i == info[ptr[d]]
<1>1. i \in InfoType /\ i.sha \in Commits /\ AllApproved(i.lgtmers, i.sha)
  BY DEF IInv, TypeOK, Steps, InfoApproved, PointerHeld, InfoType, CreateStatus
<1>2. PICK to \in {kept, refused} : GotoFree(d, from, to)
  BY DEF CreateStatus
<1>3. NewRepoStatus(i) \in StatusType /\ AllApproved(NewRepoStatus(i).mentions, i.sha)
  <2>1. newState(i) \in {"success", "pending"}
    BY DEF newState
  <2>2. <<>> \in Seq(Users) /\ i.lgtmers \in Seq(Users) /\ i.quorum \in Nat
    BY <1>1 DEF InfoType
  <2>3. NewRepoStatus(i).requires \in Nat
    <3>1. Len(i.lgtmers) \in Nat
      BY <2>2
    <3>2. QED BY <2>2, <3>1 DEF NewRepoStatus
  <2>4. NewRepoStatus(i).mentions \in {<<>>, i.lgtmers}
    BY DEF NewRepoStatus
  <2>5. ASSUME NEW state \in {"success", "pending"}, NEW requires \in Nat,
               NEW mentions \in Seq(Users)
        PROVE  [state |-> state, mentions |-> mentions, requires |-> requires]
                 \in StatusType
    BY DEF StatusType
  <2>6. NewRepoStatus(i) = [state |-> newState(i), mentions |-> NewRepoStatus(i).mentions,
                            requires |-> NewRepoStatus(i).requires]
    BY DEF NewRepoStatus
  <2>7. NewRepoStatus(i) \in StatusType
    <3>1. NewRepoStatus(i).mentions \in Seq(Users)
      BY <2>2, <2>4
    <3>2. QED BY <2>1, <2>3, <2>5, <2>6, <3>1
  <2>8. AllApproved(NewRepoStatus(i).mentions, i.sha)
    <3>1. AllApproved(<<>>, i.sha)
      BY DEF AllApproved
    <3>2. QED BY <1>1, <2>4, <3>1
  <2>9. QED BY <2>7, <2>8
<1>4. status' = status \/ status' = [status EXCEPT ![i.sha] = NewRepoStatus(i)]
  BY DEF CreateStatus
<1>5. status' \in [Commits -> StatusType]
  BY <1>1, <1>3, <1>4 DEF IInv, TypeOK, Steps
<1>6. \A n \in Commits : AllApproved(status'[n].mentions, n)
  BY <1>1, <1>3, <1>4 DEF IInv, TypeOK, Steps, StatusApproved
<1>7. StatusApproved'
  BY <1>6 DEF StatusApproved, AllApproved
<1>8. TypeOK'
  BY <1>2, <1>5, MoveStep DEF IInv, TypeOK, Steps
<1>9. InfoApproved' /\ SliceApproved' /\ EmptyYet'
  BY <1>2, MoveStep DEF IInv, InfoApproved, SliceApproved, EmptyYet, AllApproved
<1>10. PointerHeld' /\ UnsharedYet'
  BY <1>2, MoveStep
<1>11. QED BY <1>7, <1>8, <1>9, <1>10 DEF IInv

LEMMA PostEmptyIInv ==
  ASSUME IInv, NEW c \in Comments, PostEmpty(c) PROVE IInv'
BY CreateStatusStep DEF PostEmpty, Deliveries

LEMMA PostIInv ==
  ASSUME IInv, NEW d \in Deliveries, Post(d) PROVE IInv'
BY CreateStatusStep DEF Post

LEMMA StoreIInv ==
  ASSUME IInv, NEW c \in Comments, Store(c) PROVE IInv'
<1>1. c \in Deliveries /\ Remember(c, "store", "check") /\ pc[c] = "store"
  BY DEF Store, Remember, GotoFree, Goto, Deliveries
<1>2. WithQuorum(info[c]) \in InfoType
      /\ WithQuorum(info[c]).lgtmers = info[c].lgtmers
      /\ WithQuorum(info[c]).sha = info[c].sha
  BY <1>1, ConstantsAssumption DEF IInv, TypeOK, Steps, InfoType, WithQuorum
<1>3. info' \in [Deliveries -> InfoType]
  BY <1>1, <1>2 DEF IInv, TypeOK, Steps, Store
<1>4. TypeOK'
  BY <1>1, <1>3, RememberStep DEF IInv, TypeOK, Steps, Store
<1>5. info'[c].lgtmers = info[c].lgtmers /\ info'[c].sha = info[c].sha
  BY <1>1, <1>2 DEF IInv, TypeOK, Steps, Store
<1>6. AllApproved(info[c].lgtmers, info[c].sha)'
  <2>1. AllApproved(info[c].lgtmers, info[c].sha) /\ approved' = approved
    BY <1>1 DEF IInv, InfoApproved, Store
  <2>2. QED BY <1>5, <2>1 DEF AllApproved
<1>7. /\ \A e \in Deliveries : e # c => info'[e] = info[e]
      /\ ~Fresh(c)'
  BY <1>1 DEF IInv, TypeOK, Steps, Store, Fresh, Remember, GotoFree, Goto
<1>8. QED
  BY <1>1, <1>4, <1>5, <1>6, <1>7, RememberStep, FillStep DEF Store

LEMMA ReadSliceIInv ==
  ASSUME IInv, NEW c \in Comments, ReadSlice(c) PROVE IInv'
<1>1. c \in Deliveries /\ ptr[c] \in Deliveries /\ pc[c] = "read"
  BY DEF IInv, TypeOK, Steps, PointerHeld, ReadSlice, Goto, Deliveries
<1>2. TypeOK'
  BY <1>1 DEF IInv, TypeOK, Steps, ReadSlice, Goto, InfoType
<1>3. PointerHeld' /\ UnsharedYet' /\ EmptyYet'
  BY <1>1 DEF IInv, TypeOK, Steps, PointerHeld, UnsharedYet, EmptyYet, Fresh, ReadSlice, Goto
<1>4. StatusApproved' /\ InfoApproved'
  BY DEF IInv, StatusApproved, InfoApproved, AllApproved, ReadSlice
<1>5. SliceApproved'
  <2>1. ASSUME NEW b \in Comments, pc'[b] = "write"
        PROVE  AllApproved(slice'[b], info[ptr[b]].sha)
    <3>1. CASE b = c
      BY <1>1, <3>1 DEF IInv, TypeOK, Steps, InfoApproved, ReadSlice
    <3>2. CASE b # c
      BY <1>1, <2>1, <3>2 DEF IInv, TypeOK, Steps, SliceApproved, ReadSlice, Goto
    <3>3. QED BY <3>1, <3>2
  <2>2. QED BY <2>1 DEF SliceApproved, AllApproved, ReadSlice
<1>6. QED BY <1>2, <1>3, <1>4, <1>5 DEF IInv

\* The append: the new approval and the ones that were read are all of the commit
\* of the object, which has not changed since they were read.
LEMMA WriteSliceIInv ==
  ASSUME IInv, NEW c \in Comments, WriteSlice(c) PROVE IInv'
<1> DEFINE o == ptr[c]
           sha == info[o].sha
           users == Append(slice[c], Author[c])
<1>1. /\ c \in Deliveries /\ o \in Deliveries /\ pc[c] = "write"
      /\ sha \in Commits /\ Author[c] \in Users /\ slice[c] \in Seq(Users)
      /\ AllApproved(slice[c], sha)
  BY DEF IInv, TypeOK, Steps, PointerHeld, InfoType, SliceApproved, WriteSlice, Goto,
         Deliveries, Users
<1>2. /\ approved' = approved \cup {<<c, sha>>} /\ UNCHANGED <<status, ptr, cached>>
      /\ pc' = [pc EXCEPT ![c] = "post"]
      /\ info' = [info EXCEPT ![o].lgtmers = users]
      /\ slice' = [slice EXCEPT ![c] = <<>>]
  BY DEF WriteSlice, Goto
<1>3. users \in Seq(Users) /\ <<>> \in Seq(Users)
  BY <1>1
<1>4. TypeOK'
  <2>1. info' \in [Deliveries -> InfoType]
    <3>1. [info[o] EXCEPT !.lgtmers = users] \in InfoType
      BY <1>1, <1>3 DEF IInv, TypeOK, Steps, InfoType
    <3>2. QED BY <1>1, <1>2, <3>1 DEF IInv, TypeOK, Steps
  <2>2. slice' \in [Comments -> Seq(Users)]
    BY <1>2, <1>3 DEF IInv, TypeOK, Steps
  <2>3. approved' \in SUBSET (Comments \X Commits)
    BY <1>1, <1>2 DEF IInv, TypeOK, Steps
  <2>4. QED BY <1>2, <2>1, <2>2, <2>3 DEF IInv, TypeOK, Steps, WriteSlice
<1>5. PointerHeld' /\ UnsharedYet' /\ EmptyYet'
  <2>1. ~Fresh(o)
    BY <1>1 DEF IInv, UnsharedYet
  <2>2. \A d \in Deliveries : Fresh(d)' => Fresh(d)
    BY <1>1, <1>2 DEF IInv, TypeOK, Steps, Fresh
  <2>3. \A d \in Deliveries : d # o => info'[d] = info[d]
    BY <1>2 DEF IInv, TypeOK, Steps
  <2>4. PointerHeld'
    BY <1>1, <1>2 DEF IInv, TypeOK, Steps, PointerHeld
  <2>5. QED BY <1>2, <2>1, <2>2, <2>3, <2>4 DEF IInv, UnsharedYet, EmptyYet
\* Approvals are only added.
<1>6. approved \subseteq approved'
  BY <1>2
<1>7. StatusApproved'
  BY <1>2, <1>6 DEF IInv, StatusApproved, AllApproved
<1>8. \A d \in Deliveries : info'[d].sha = info[d].sha
  BY <1>1, <1>2 DEF IInv, TypeOK, Steps, InfoType
<1>9. InfoApproved'
  <2>1. \A k \in DOMAIN users :
          \E b \in Comments : Author[b] = users[k] /\ <<b, sha>> \in approved'
    <3>1. ASSUME NEW k \in DOMAIN users
          PROVE  users[k] = Author[c] \/ (k \in DOMAIN slice[c] /\ users[k] = slice[c][k])
      BY <1>1, <1>3
    <3>2. <<c, sha>> \in approved'
      BY <1>2
    <3>3. \A k \in DOMAIN slice[c] :
            \E b \in Comments : Author[b] = slice[c][k] /\ <<b, sha>> \in approved'
      BY <1>1, <1>6 DEF AllApproved
    <3>4. QED BY <3>1, <3>2, <3>3
  <2>2. info'[o].lgtmers = users
    BY <1>1, <1>2 DEF IInv, TypeOK, Steps, InfoType
  <2>3. ASSUME NEW d \in Deliveries, d # o
        PROVE  AllApproved(info[d].lgtmers, info[d].sha) /\ info'[d] = info[d]
    BY <1>2, <2>3 DEF IInv, TypeOK, Steps, InfoApproved
  <2>4. ASSUME NEW d \in Deliveries
        PROVE  \A k \in DOMAIN info'[d].lgtmers : \E b \in Comments :
                 Author[b] = info'[d].lgtmers[k] /\ <<b, info'[d].sha>> \in approved'
    <3>1. CASE d = o
      BY <1>8, <2>1, <2>2, <3>1
    <3>2. CASE d # o
      <4>1. \A k \in DOMAIN info[d].lgtmers : \E b \in Comments :
              Author[b] = info[d].lgtmers[k] /\ <<b, info[d].sha>> \in approved'
        BY <1>6, <2>3, <3>2 DEF AllApproved
      <4>2. QED BY <2>3, <3>2, <4>1
    <3>3. QED BY <3>1, <3>2
  <2>5. QED BY <2>4 DEF InfoApproved, AllApproved
<1>10. SliceApproved'
  <2>1. ASSUME NEW b \in Comments, pc'[b] = "write"
        PROVE  /\ AllApproved(slice[b], info[ptr[b]].sha) /\ slice'[b] = slice[b]
               /\ info'[ptr'[b]].sha = info[ptr[b]].sha
    <3>1. b # c /\ b \in Deliveries /\ pc[b] = "write"
      BY <1>1, <1>2, <2>1 DEF IInv, TypeOK, Steps, Deliveries
    <3>2. ptr[b] \in Deliveries
      BY <3>1 DEF IInv, TypeOK, Steps, PointerHeld
    <3>3. AllApproved(slice[b], info[ptr[b]].sha)
      BY <3>1 DEF IInv, SliceApproved
    <3>4. slice'[b] = slice[b]
      BY <1>2, <3>1 DEF IInv, TypeOK, Steps
    <3>5. info'[ptr'[b]].sha = info[ptr[b]].sha
      BY <1>2, <1>8, <3>2
    <3>6. QED BY <3>3, <3>4, <3>5
  <2>2. ASSUME NEW b \in Comments, pc'[b] = "write"
        PROVE  \A k \in DOMAIN slice'[b] :
                 \E a \in Comments : /\ Author[a] = slice'[b][k]
                                    /\ <<a, info'[ptr'[b]].sha>> \in approved'
    <3>1. AllApproved(slice[b], info[ptr[b]].sha)
      BY <2>1, <2>2
    <3>2. \A k \in DOMAIN slice[b] : \E a \in Comments :
            Author[a] = slice[b][k] /\ <<a, info[ptr[b]].sha>> \in approved'
      BY <1>6, <3>1 DEF AllApproved
    <3>3. QED BY <2>1, <2>2, <3>2
  <2>3. QED BY <2>2 DEF SliceApproved, AllApproved
<1>11. QED BY <1>4, <1>5, <1>7, <1>9, <1>10 DEF IInv

\* A restart forgets the objects, never the approvals.
LEMMA RestartIInv == ASSUME IInv, Restart PROVE IInv'
<1>1. TypeOK'
  <2>1. <<>> \in Seq(Users)
    OBVIOUS
  <2>2. info' \in [Deliveries -> InfoType] /\ slice' \in [Comments -> Seq(Users)]
    BY <2>1, SomeCommit DEF Restart, NoInfo, NoSlice, NewInfo, InfoType
  <2>3. pc' \in [Deliveries -> Steps]
    BY DEF IInv, TypeOK, Steps, Restart
  <2>4. QED BY <2>2, <2>3 DEF IInv, TypeOK, Steps, Restart, NoPointer
<1>2. StatusApproved' /\ InfoApproved'
  <2>1. StatusApproved'
    BY DEF IInv, StatusApproved, AllApproved, Restart
  <2>2. \A d \in Deliveries : info'[d].lgtmers = <<>>
    BY DEF Restart, NoInfo, NewInfo
  <2>3. QED BY <2>1, <2>2 DEF InfoApproved, AllApproved
<1>3. \A d \in Deliveries : pc'[d] \in {"idle", "done", "failed", "lost"}
  BY DEF IInv, TypeOK, Steps, Restart, InFlight
<1>4. SliceApproved' /\ PointerHeld'
  BY <1>3 DEF SliceApproved, PointerHeld, Deliveries
<1>5. UnsharedYet' /\ EmptyYet'
  BY NobodyFresh DEF Restart, UnsharedYet, EmptyYet, NoPointer, NoInfo, NewInfo
<1>6. QED BY <1>1, <1>2, <1>4, <1>5 DEF IInv

LEMMA NextIInv == IInv /\ [Next]_vars => IInv'
<1> SUFFICES ASSUME IInv, [Next]_vars PROVE IInv'
  OBVIOUS
<1>1. ASSUME NEW c \in Comments, ReceiveComment(c) \/ CommentHandler(c) PROVE IInv'
  BY <1>1, ReceiveCommentIInv, LookInCacheIInv, GetPullIInv, ListStatusesIInv,
     PostEmptyIInv, KeepEmptyIInv, StoreIInv, CheckDuplicateIInv, ReadSliceIInv,
     WriteSliceIInv DEF CommentHandler
<1>2. ASSUME NEW n \in Commits, ReceivePush(n) PROVE IInv'
  BY <1>2, ReceivePushIInv
<1>3. ASSUME NEW d \in Deliveries, Post(d) \/ Keep(d) PROVE IInv'
  BY <1>3, PostIInv, KeepIInv
<1>4. CASE Push
  BY <1>4, PushIInv
<1>5. CASE Restart
  BY <1>5, RestartIInv
<1>6. CASE UNCHANGED vars
  <2>1. TypeOK' /\ PointerHeld' /\ UnsharedYet'
    BY <1>6 DEF vars, IInv, TypeOK, Steps, PointerHeld, UnsharedYet, Fresh
  <2>2. QED
    BY <1>6, <2>1, QuietStep DEF vars, Fresh
<1>7. QED
  BY <1>1, <1>2, <1>3, <1>4, <1>5, <1>6 DEF Next

\* Every list of approvers, published or held in memory, is of one commit and of
\* people who approved it, at every moment.
THEOREM Invariance == Spec => []IInv
<1>1. QED BY InitIInv, NextIInv, PTL DEF Spec

\* No approval is ever published for another commit than that of the object it was
\* counted in, in spite of the unsynchronised objects, late events and restarts.
THEOREM ApprovalsStay == Spec => []ApprovalsStayWithCommit
<1>1. IInv => ApprovalsStayWithCommit
  BY DEF IInv, StatusApproved, AllApproved, ApprovalsStayWithCommit, Mentioned
<1>2. QED BY Invariance, <1>1, PTL


-----------------------------------------------------------------------------
(***************************************************************************)
(* In order.  One handler runs, so that a step has to be looked at only    *)
(* for that handler, the cache and the statuses.                           *)
(***************************************************************************)
Others(d)   == { e \in Deliveries : e # d }
OnlyOne(d)  == \A e \in Others(d) : ~InFlight(e)
AtRest      == {"idle", "done", "failed", "lost"}
Filling     == {"postEmpty", "keepEmpty", "store"}
Using       == {"check", "read", "write", "post", "keep"}
HeldNext(o) ==
  info'[o].sha \notin overlooked' =>
    \A c \in Comments :
      pc'[c] = "done" /\ <<c, info'[o].sha>> \in approved' => IsLGTMer(info'[o], Author[c])

LEMMA CommentsAreDeliveries == /\ Comments \subseteq Deliveries
                               /\ Nobody \notin Deliveries
                               /\ Comments \cap Commits = {}
BY ConstantsAssumption DEF Deliveries

LEMMA HandlerAlone ==
  ASSUME OrderInv, ~disorder, NEW d \in Deliveries, InFlight(d)
  PROVE  OnlyOne(d)
BY DEF OrderInv, InOrder, Alone, OnlyOne, Others

\* The handler of d takes a step to pc[d] = to: whoever else is at rest stays there.
LEMMA OthersRest ==
  ASSUME TypeOK, NEW d \in Deliveries, OnlyOne(d), NEW to \in Steps, pc' = [pc EXCEPT ![d] = to]
  PROVE  /\ pc'[d] = to
         /\ \A e \in Others(d) : pc'[e] = pc[e] /\ pc'[e] \in AtRest
BY DEF TypeOK, Steps, OnlyOne, Others, InFlight, AtRest

LEMMA InOrderStep ==
  ASSUME TypeOK, NEW d \in Deliveries, OnlyOne(d), NEW to \in Steps, pc' = [pc EXCEPT ![d] = to],
         to \in Filling \cup {"list"} => ptr'[d] = d,
         to = "postEmpty" => info'[d].lgtmers = <<>>,
         d \in Comments /\ to = "write" => slice'[d] = info'[ptr'[d]].lgtmers,
         d \in Comments /\ to \in {"read", "write"} => ~IsLGTMer(info'[ptr'[d]], Author[d]),
         ListedOnce'
  PROVE  InOrder'
<1>1. /\ pc'[d] = to
      /\ \A e \in Others(d) : pc'[e] = pc[e] /\ pc'[e] \in AtRest
  BY OthersRest
<1>2. Alone'
  BY <1>1 DEF Alone, Others, AtRest, InFlight
<1>3. OwnObject'
  BY <1>1, CommentsAreDeliveries DEF OwnObject, Others, AtRest, Filling
<1>4. AppendsOnce'
  <2> SUFFICES ASSUME NEW c \in Comments
               PROVE  /\ pc'[c] = "write" => slice'[c] = info'[ptr'[c]].lgtmers
                      /\ pc'[c] \in {"read", "write"} => ~IsLGTMer(info'[ptr'[c]], Author[c])
    BY DEF AppendsOnce, IsLGTMer
  <2>1. CASE c = d
    BY <1>1, <2>1
  <2>2. CASE c # d
    BY <1>1, <2>2, CommentsAreDeliveries DEF Others, AtRest
  <2>3. QED BY <2>1, <2>2
<1>5. QED BY <1>2, <1>3, <1>4 DEF InOrder

LEMMA AnswersStep ==
  ASSUME TypeOK, OwnApproval, NEW d \in Deliveries, OnlyOne(d),
         NEW to \in Steps, pc' = [pc EXCEPT ![d] = to],
         to \in Using => info'[ptr'[d]].quorum # 0,
         to \in Filling \cup Using => HeldNext(ptr'[d]),
         cached' # Nobody => HeldNext(cached'),
         cached' # Nobody /\ info'[cached'].quorum = 0 =>
           d \in Comments /\ to \in Filling /\ ptr'[d] = cached',
         \A c \in Comments : \A n \in Commits :
           <<c, n>> \in approved' => <<c, n>> \in approved \/ c = d,
         \A n \in Commits : d \in Comments /\ <<d, n>> \in approved' =>
           /\ to \in {"post", "keep", "done", "failed", "lost"}
           /\ to \in {"post", "keep"} => n = info'[ptr'[d]].sha /\ IsLGTMer(info'[ptr'[d]], Author[d])
           /\ to = "keep" => Author[d] \in Mentioned(n)',
         AnsweredIsListed'
  PROVE  AnswersInv'
<1>1. /\ pc'[d] = to
      /\ \A e \in Others(d) : pc'[e] = pc[e] /\ pc'[e] \in AtRest
  BY OthersRest
<1>2. QuorumSet'
  <2>1. \A e \in Deliveries : pc'[e] \in Using => info'[ptr'[e]].quorum # 0
    BY <1>1 DEF Others, AtRest, Using
  <2>2. cached' # Nobody /\ info'[cached'].quorum = 0 =>
          \E c \in Comments : pc'[c] \in Filling /\ ptr'[c] = cached'
    BY <1>1
  <2>3. QED BY <2>1, <2>2 DEF QuorumSet, Using, Filling
<1>3. AnswersHeld'
  <2>1. \A e \in Deliveries : pc'[e] \in Filling \cup Using => HeldNext(ptr'[e])
    BY <1>1 DEF Others, AtRest, Using, Filling
  <2>2. QED BY <2>1 DEF AnswersHeld, Using, Filling, HeldNext, Holds, IsLGTMer
<1>4. OwnApproval'
  <2> SUFFICES ASSUME NEW c \in Comments, NEW n \in Commits, <<c, n>> \in approved'
               PROVE  /\ pc'[c] \in {"post", "keep", "done", "failed", "lost"}
                      /\ pc'[c] \in {"post", "keep"} =>
                           n = info'[ptr'[c]].sha /\ IsLGTMer(info'[ptr'[c]], Author[c])
                      /\ pc'[c] = "keep" => Author[c] \in Mentioned(n)'
    BY DEF OwnApproval, IsLGTMer
  <2>1. CASE c = d
    BY <1>1, <2>1
  <2>2. CASE c # d
    <3>1. <<c, n>> \in approved /\ pc[c] \in AtRest /\ pc'[c] = pc[c]
      BY <1>1, <2>2, CommentsAreDeliveries DEF Others
    <3>2. QED BY <3>1 DEF OwnApproval, AtRest
  <2>3. QED BY <2>1, <2>2
<1>5. QED BY <1>2, <1>3, <1>4 DEF AnswersInv

\* What of the answers is still to be shown after a step that adds none.
NoNewAnswer == \A c \in Comments : pc'[c] = "done" =>
                 pc[c] = "done" /\ \A n \in Commits : <<c, n>> \in approved' => <<c, n>> \in approved

LEMMA NothingAnswered ==
  ASSUME TypeOK, NEW d \in Deliveries, NEW to \in Steps, to # "done",
         pc' = [pc EXCEPT ![d] = to],
         \A c \in Comments : \A n \in Commits :
           <<c, n>> \in approved' => <<c, n>> \in approved \/ c = d
  PROVE  NoNewAnswer
BY CommentsAreDeliveries DEF TypeOK, NoNewAnswer

LEMMA HeldStays ==
  ASSUME TypeOK, NEW o \in Deliveries, NEW p, Holds(o), NoNewAnswer, info'[p].sha = info[o].sha,
         overlooked \subseteq overlooked',
         \A c \in Comments : IsLGTMer(info[o], Author[c]) => IsLGTMer(info'[p], Author[c])
  PROVE  HeldNext(p)
<1>1. info[o].sha \in Commits
  BY DEF TypeOK, InfoType
<1>2. QED BY <1>1 DEF Holds, HeldNext, NoNewAnswer

LEMMA ListedStays ==
  ASSUME ~disorder, Quorum # 0, AnsweredIsListed, UNCHANGED status, NoNewAnswer,
         overlooked \subseteq overlooked'
  PROVE  AnsweredIsListed'
BY DEF AnsweredIsListed, Mentioned, NoNewAnswer

\* Unless a handler is filling it, the cached object has a quorum.
LEMMA CachedQuorum ==
  ASSUME TypeOK, QuorumSet, NEW d \in Deliveries, OnlyOne(d), pc[d] \notin Filling, cached # Nobody
  PROVE  info[cached].quorum # 0
<1>1. \A c \in Comments : pc[c] \notin Filling
  BY CommentsAreDeliveries DEF OnlyOne, Others, Filling, InFlight
<1>2. QED BY <1>1 DEF QuorumSet, Filling

\* A step that changes neither objects nor cache, statuses and approvals.
LEMMA QuietAnswers ==
  ASSUME TypeOK, AnswersInv, ~disorder, Quorum # 0, NEW d \in Deliveries, OnlyOne(d),
         pc[d] \notin Filling, NEW to \in Steps \ (Filling \cup {"done"}), pc' = [pc EXCEPT ![d] = to],
         UNCHANGED <<info, cached, status, approved, overlooked>>,
         to \in Using => ptr'[d] \in Deliveries /\ info[ptr'[d]].quorum # 0 /\ Holds(ptr'[d]),
         d \in Comments => to = "failed" \/ \A n \in Commits : <<d, n>> \notin approved
  PROVE  AnswersInv'
<1>1. NoNewAnswer
  BY NothingAnswered
<1>2. QuorumSet /\ AnswersHeld /\ OwnApproval /\ AnsweredIsListed
  BY DEF AnswersInv
<1>3. AnsweredIsListed'
  BY <1>1, <1>2, ListedStays
<1>4. cached # Nobody => HeldNext(cached) /\ info[cached].quorum # 0
  BY <1>1, <1>2, HeldStays, CachedQuorum DEF AnswersHeld, TypeOK
<1>5. to \in Using => HeldNext(ptr'[d])
  BY <1>1, HeldStays
<1>6. QED BY <1>2, <1>3, <1>4, <1>5, AnswersStep

\* A comment handler that has not yet appended has approved nothing.
LEMMA NotYetApproved ==
  ASSUME OwnApproval, NEW c \in Comments,
         pc[c] \notin {"post", "keep", "done", "failed", "lost"}
  PROVE  \A n \in Commits : <<c, n>> \notin approved
BY DEF OwnApproval

\* A step of a comment handler before it appends, to one of the steps of getStatus.
LEMMA UnapprovedStep ==
  ASSUME TypeOK, OwnApproval, AnsweredIsListed, ~disorder, Quorum # 0,
         NEW c \in Comments, OnlyOne(c), pc[c] \notin {"post", "keep", "done", "failed", "lost"},
         NEW to \in Filling \cup {"check"}, pc' = [pc EXCEPT ![c] = to],
         UNCHANGED <<approved, status>>, overlooked \subseteq overlooked',
         HeldNext(ptr'[c]), to = "check" => info'[ptr'[c]].quorum # 0,
         cached' # Nobody => HeldNext(cached'),
         cached' # Nobody /\ info'[cached'].quorum = 0 => to \in Filling /\ ptr'[c] = cached'
  PROVE  AnswersInv'
<1>1. c \in Deliveries /\ to \in Steps /\ to # "done" /\ (to \in Using => to = "check")
  BY CommentsAreDeliveries DEF Filling, Using, Steps
<1>2. NoNewAnswer
  BY <1>1, NothingAnswered
<1>3. AnsweredIsListed' /\ \A n \in Commits : <<c, n>> \notin approved
  BY <1>2, ListedStays, NotYetApproved
<1>4. QED BY <1>1, <1>3, AnswersStep

LEMMA SameLists ==
  ASSUME ListedOnce, UNCHANGED <<info, status>>
  PROVE  ListedOnce'
BY DEF ListedOnce, NoRepeat

-----------------------------------------------------------------------------
LEMMA ReceiveCommentOrder ==
  ASSUME OrderInv, IInv', NEW c \in Comments, ReceiveComment(c) PROVE OrderInv'
<1> SUFFICES ASSUME ~disorder' PROVE InOrder' /\ (Quorum # 0 => AnswersInv')
  BY DEF OrderInv
<1>1. /\ c \in Deliveries /\ pc[c] = "idle" /\ pc' = [pc EXCEPT ![c] = "look"] /\ ~disorder
      /\ OnlyOne(c) /\ UNCHANGED <<info, ptr, slice, cached, status, approved, overlooked>>
  BY CommentsAreDeliveries DEF ReceiveComment, Goto, Overlap, OnlyOne, Others
<1>2. TypeOK /\ InOrder /\ (Quorum # 0 => AnswersInv) /\ "look" \in Steps
  BY <1>1 DEF OrderInv, IInv, Steps
<1>3. InOrder'
  BY <1>1, <1>2, InOrderStep, SameLists DEF InOrder, Filling
<1>4. Quorum # 0 => AnswersInv'
  BY <1>1, <1>2, QuietAnswers, NotYetApproved DEF AnswersInv, Filling, Using
<1>5. QED BY <1>3, <1>4

\* What every step of the handler of d starts from.
LEMMA Running ==
  ASSUME OrderInv, NEW d \in Deliveries, InFlight(d), ~disorder
  PROVE  /\ IInv /\ TypeOK /\ OnlyOne(d)
         /\ OwnObject /\ AppendsOnce /\ ListedOnce
         /\ Quorum # 0 => AnswersInv /\ QuorumSet /\ AnswersHeld /\ OwnApproval /\ AnsweredIsListed
BY HandlerAlone DEF OrderInv, IInv, InOrder, AnswersInv

LEMMA LookInCacheOrder ==
  ASSUME OrderInv, IInv', NEW c \in Comments, LookInCache(c) PROVE OrderInv'
<1> SUFFICES ASSUME ~disorder' PROVE InOrder' /\ (Quorum # 0 => AnswersInv')
  BY DEF OrderInv
<1>1. /\ c \in Deliveries /\ pc[c] = "look" /\ InFlight(c) /\ ~disorder
      /\ UNCHANGED <<info, slice, cached, status, approved, overlooked>>
  BY CommentsAreDeliveries DEF LookInCache, Goto, InFlight
<1>2. PICK to \in {"check", "get"} : pc' = [pc EXCEPT ![c] = to]
        /\ (to = "check" => cached # Nobody /\ ptr' = [ptr EXCEPT ![c] = cached])
  BY DEF LookInCache, Goto
<1>3. InOrder'
  BY <1>1, <1>2, Running, InOrderStep, SameLists DEF Filling, Steps
<1>4. ASSUME Quorum # 0 PROVE AnswersInv'
  <2>1. to = "check" => /\ ptr'[c] = cached /\ cached \in Deliveries
                        /\ info[cached].quorum # 0 /\ Holds(cached)
    BY <1>1, <1>2, <1>4, Running, CachedQuorum DEF TypeOK, AnswersHeld, Filling
  <2>2. QED
    BY <1>1, <1>2, <1>4, <2>1, Running, QuietAnswers, NotYetApproved DEF Filling, Using, Steps
<1>5. QED BY <1>3, <1>4

LEMMA CheckDuplicateOrder ==
  ASSUME OrderInv, IInv', NEW c \in Comments, CheckDuplicate(c) PROVE OrderInv'
<1> SUFFICES ASSUME ~disorder' PROVE InOrder' /\ (Quorum # 0 => AnswersInv')
  BY DEF OrderInv
<1>1. /\ c \in Deliveries /\ pc[c] = "check" /\ InFlight(c) /\ ~disorder
      /\ UNCHANGED <<info, slice, cached, status, approved, overlooked>>
  BY CommentsAreDeliveries DEF CheckDuplicate, InFlight
<1>2. PICK to \in {"read", "failed"} : pc' = [pc EXCEPT ![c] = to]
        /\ (to = "read" => ~IsLGTMer(info[ptr[c]], Author[c]) /\ ptr' = ptr)
  BY DEF CheckDuplicate, GotoFree, Goto
<1>3. InOrder'
  BY <1>1, <1>2, Running, InOrderStep, SameLists DEF Filling, Steps
<1>4. ASSUME Quorum # 0 PROVE AnswersInv'
  <2>1. ptr[c] \in Deliveries /\ info[ptr[c]].quorum # 0 /\ Holds(ptr[c])
    BY <1>1, <1>4, Running DEF IInv, TypeOK, PointerHeld, AnswersHeld, QuorumSet
  <2>2. QED
    BY <1>1, <1>2, <1>4, <2>1, Running, QuietAnswers, NotYetApproved DEF Filling, Using, Steps
<1>5. QED BY <1>3, <1>4

LEMMA ReadSliceOrder ==
  ASSUME OrderInv, IInv', NEW c \in Comments, ReadSlice(c) PROVE OrderInv'
<1> SUFFICES ASSUME ~disorder' PROVE InOrder' /\ (Quorum # 0 => AnswersInv')
  BY DEF OrderInv
<1>1. /\ c \in Deliveries /\ pc[c] = "read" /\ InFlight(c) /\ ~disorder
      /\ UNCHANGED <<info, ptr, cached, status, approved, overlooked>> /\ pc' = [pc EXCEPT ![c] = "write"]
  BY CommentsAreDeliveries DEF ReadSlice, Goto, InFlight
<1>2. slice'[c] = info[ptr[c]].lgtmers /\ ~IsLGTMer(info[ptr[c]], Author[c])
  BY <1>1, Running DEF ReadSlice, TypeOK, AppendsOnce
<1>3. InOrder'
  BY <1>1, <1>2, Running, InOrderStep, SameLists DEF Filling, Steps
<1>4. ASSUME Quorum # 0 PROVE AnswersInv'
  <2>1. ptr[c] \in Deliveries /\ info[ptr[c]].quorum # 0 /\ Holds(ptr[c])
    BY <1>1, <1>4, Running DEF IInv, TypeOK, PointerHeld, AnswersHeld, QuorumSet
  <2>2. QED
    BY <1>1, <1>4, <2>1, Running, QuietAnswers, NotYetApproved DEF Filling, Using, Steps
<1>5. QED BY <1>3, <1>4

LEMMA GetPullOrder ==
  ASSUME OrderInv, IInv', NEW c \in Comments, GetPull(c) PROVE OrderInv'
<1> SUFFICES ASSUME ~disorder' PROVE InOrder' /\ (Quorum # 0 => AnswersInv')
  BY DEF OrderInv
<1>1. /\ c \in Deliveries /\ pc[c] = "get" /\ InFlight(c) /\ ~disorder
      /\ UNCHANGED <<slice, cached, status, approved, overlooked>>
  BY CommentsAreDeliveries DEF GetPull, Goto, InFlight
<1>2. IInv /\ TypeOK /\ OnlyOne(c) /\ ListedOnce
  BY <1>1, Running
<1>3. CASE pc' = [pc EXCEPT ![c] = "failed"] /\ UNCHANGED info
  <2>1. InOrder'
    BY <1>1, <1>2, <1>3, InOrderStep, SameLists DEF Filling, Steps
  <2>2. Quorum # 0 => AnswersInv'
    BY <1>1, <1>2, <1>3, Running, QuietAnswers DEF Filling, Using, Steps
  <2>3. QED BY <2>1, <2>2
\* The object of c is nobody else's, and not cached.
<1>4. CASE /\ pc' = [pc EXCEPT ![c] = "list"] /\ info' = [info EXCEPT ![c].sha = head]
           /\ ptr' = [ptr EXCEPT ![c] = c]
  <2>1. /\ \A d \in Deliveries : /\ info'[d].lgtmers = info[d].lgtmers
                                 /\ info'[d].quorum = info[d].quorum
                                 /\ d # c => info'[d] = info[d]
        /\ ptr'[c] = c
    BY <1>1, <1>2, <1>4 DEF TypeOK, InfoType
  <2>2. ListedOnce'
    BY <1>1, <1>2, <2>1 DEF ListedOnce, NoRepeat
  <2>3. InOrder'
    BY <1>1, <1>2, <1>4, <2>1, <2>2, InOrderStep DEF Filling, Steps
  <2>4. ASSUME Quorum # 0 PROVE AnswersInv'
    <3>1. AnswersInv /\ AnswersHeld /\ QuorumSet /\ OwnApproval /\ AnsweredIsListed
      BY <1>1, <2>4, Running
    <3>2. cached # c /\ cached \in Deliveries \cup {Nobody}
      BY <1>1, <1>2 DEF IInv, UnsharedYet, Fresh, TypeOK
    <3>3. NoNewAnswer
      BY <1>1, <1>2, <1>4, NothingAnswered DEF Steps
    <3>4. cached # Nobody => HeldNext(cached) /\ info'[cached].quorum # 0
      BY <1>1, <1>2, <2>1, <3>1, <3>2, <3>3, HeldStays, CachedQuorum DEF AnswersHeld, Filling, IsLGTMer
    <3>5. AnsweredIsListed'
      BY <1>1, <2>4, <3>1, <3>3, ListedStays
    <3>6. \A n \in Commits : <<c, n>> \notin approved
      BY <1>1, <3>1, NotYetApproved
    <3>7. QED
      BY <1>1, <1>2, <1>4, <3>1, <3>4, <3>5, <3>6, AnswersStep DEF Filling, Using, Steps
  <2>5. QED BY <2>3, <2>4
<1>5. QED BY <1>3, <1>4 DEF GetPull, Goto

\* The status that is read lists every answer for its commit; without a status there
\* is no answer; and a commit whose status was not in the list is excepted.
LEMMA ListStatusesOrder ==
  ASSUME OrderInv, IInv', NEW c \in Comments, ListStatuses(c) PROVE OrderInv'
<1> SUFFICES ASSUME ~disorder' PROVE InOrder' /\ (Quorum # 0 => AnswersInv')
  BY DEF OrderInv
<1> DEFINE sha == info[c].sha
<1>1. /\ c \in Deliveries /\ pc[c] = "list" /\ InFlight(c) /\ ~disorder
      /\ UNCHANGED <<slice, cached, status, approved>> /\ overlooked \subseteq overlooked'
  BY CommentsAreDeliveries DEF ListStatuses, GotoFree, Goto, InFlight
<1>2. IInv /\ TypeOK /\ OnlyOne(c) /\ ListedOnce /\ ptr[c] = c /\ sha \in Commits
  BY <1>1, Running DEF OwnObject, TypeOK, InfoType
<1>3. CASE pc' = [pc EXCEPT ![c] = "failed"] /\ UNCHANGED <<info, overlooked>>
  <2>1. InOrder'
    BY <1>1, <1>2, <1>3, InOrderStep, SameLists DEF Filling, Steps
  <2>2. Quorum # 0 => AnswersInv'
    BY <1>1, <1>2, <1>3, Running, QuietAnswers DEF Filling, Using, Steps
  <2>3. QED BY <2>1, <2>2
<1>4. ASSUME NEW s \in StatusType, NEW to \in {"store", "postEmpty"},
             pc' = [pc EXCEPT ![c] = to], ptr' = ptr,
             info' = [info EXCEPT ![c] = parseStatus(sha, s)],
             NoRepeat(s.mentions), to = "postEmpty" => s.mentions = <<>>,
             Quorum # 0 /\ sha \notin overlooked' =>
               \A b \in Comments : pc[b] = "done" /\ <<b, sha>> \in approved =>
                 \E k \in DOMAIN s.mentions : s.mentions[k] = Author[b]
      PROVE  InOrder' /\ (Quorum # 0 => AnswersInv')
  <2>1. /\ info'[c].lgtmers = s.mentions /\ info'[c].sha = sha
        /\ \A d \in Deliveries : d # c => info'[d] = info[d]
    BY <1>1, <1>2, <1>4 DEF TypeOK, parseStatus, NewInfo
  <2>2. ListedOnce'
    <3>1. \A d \in Deliveries : NoRepeat(info'[d].lgtmers)
      BY <1>2, <1>4, <2>1 DEF ListedOnce
    <3>2. QED BY <1>1, <1>2, <3>1 DEF ListedOnce, NoRepeat
  <2>3. InOrder'
    BY <1>1, <1>2, <1>4, <2>1, <2>2, InOrderStep DEF Filling, Steps
  <2>4. ASSUME Quorum # 0 PROVE AnswersInv'
    <3>1. AnswersInv /\ AnswersHeld /\ QuorumSet /\ OwnApproval /\ AnsweredIsListed
      BY <1>1, <2>4, Running
    <3>2. NoNewAnswer
      BY <1>1, <1>2, <1>4, NothingAnswered DEF Steps
    <3>3. HeldNext(c)
      BY <1>2, <1>4, <2>1, <2>4, <3>2 DEF HeldNext, NoNewAnswer, IsLGTMer
    <3>4. cached # Nobody /\ cached # c => HeldNext(cached) /\ info'[cached].quorum # 0
      BY <1>1, <1>2, <2>1, <3>1, <3>2, HeldStays, CachedQuorum DEF AnswersHeld, Filling, TypeOK
    <3>7. to \in Filling /\ to \notin Using /\ ptr'[c] = c /\ cached' = cached
      BY <1>1, <1>2, <1>4 DEF Filling, Using
    <3>8. /\ cached' # Nobody => HeldNext(cached')
          /\ cached' # Nobody /\ info'[cached'].quorum = 0 => cached' = c
      BY <3>3, <3>4, <3>7
    <3>9. QED
      BY <1>1, <1>2, <1>4, <2>4, <3>1, <3>3, <3>7, <3>8, UnapprovedStep DEF Filling
  <2>5. QED BY <2>3, <2>4
<1>5. CASE /\ status[sha] # NoStatus /\ GotoFree(c, "list", "store")
           /\ info' = [info EXCEPT ![c] = parseStatus(sha, status[sha])]
  <2>1. status[sha] \in StatusType /\ NoRepeat(status[sha].mentions)
    BY <1>2 DEF TypeOK, ListedOnce
  <2>2. Quorum # 0 /\ sha \notin overlooked' =>
          \A b \in Comments : pc[b] = "done" /\ <<b, sha>> \in approved =>
            \E k \in DOMAIN status[sha].mentions : status[sha].mentions[k] = Author[b]
    BY <1>1, <1>2, Running DEF AnsweredIsListed, Mentioned
  <2>3. QED BY <1>4, <1>5, <2>1, <2>2 DEF GotoFree, Goto
<1>6. CASE /\ GotoFree(c, "list", "postEmpty")
           /\ overlooked' = IF status[sha] = NoStatus THEN overlooked ELSE overlooked \cup {sha}
           /\ info' = [info EXCEPT ![c] = parseStatus(sha, newEmptyStatus(Quorum))]
  <2>1. newEmptyStatus(Quorum) \in StatusType /\ newEmptyStatus(Quorum).mentions = <<>>
    <3>1. newEmptyStatus(Quorum) = [state |-> newState(NewInfo(<<>>, Quorum, 0)),
                                    mentions |-> <<>>, requires |-> 0]
      BY DEF newEmptyStatus, NewRepoStatus, NewInfo
    <3>2. newState(NewInfo(<<>>, Quorum, 0)) \in {"success", "pending"} /\ <<>> \in Seq(Users)
      BY DEF newState
    <3>3. QED BY <3>1, <3>2 DEF StatusType
  <2>2. sha \notin overlooked' => sha \notin overlooked /\ Mentioned(sha) = {}
    BY <1>6 DEF Mentioned, NoStatus
  <2>3. Quorum # 0 /\ sha \notin overlooked' =>
          \A b \in Comments : pc[b] = "done" => <<b, sha>> \notin approved
    BY <1>1, <1>2, <2>2, Running DEF AnsweredIsListed
  <2>4. NoRepeat(newEmptyStatus(Quorum).mentions)
    BY <2>1 DEF NoRepeat
  <2>5. QED BY <1>4, <1>6, <2>1, <2>3, <2>4 DEF GotoFree, Goto
<1>7. QED BY <1>3, <1>5, <1>6 DEF ListStatuses, GotoFree, Goto

\* What replaces the status of a commit lists every answer for it.
LEMMA CreateStatusOrder ==
  ASSUME OrderInv, IInv', NEW d \in Deliveries,
         NEW from \in {"postEmpty", "post"}, from = "postEmpty" => d \in Comments,
         NEW kept, NEW refused, kept = (IF from = "post" THEN "keep" ELSE "keepEmpty"),
         refused = (IF from = "post" THEN "failed" ELSE "store"),
         CreateStatus(d, from, kept, refused),
         UNCHANGED <<info, slice, cached, head, approved, disorder, overlooked, crashes>>
  PROVE  OrderInv'
<1> SUFFICES ASSUME ~disorder' PROVE InOrder' /\ (Quorum # 0 => AnswersInv')
  BY DEF OrderInv
<1> DEFINE o == ptr[d]
           i == info[o]
<1>1. pc[d] = from /\ InFlight(d) /\ ~disorder
  BY DEF CreateStatus, InFlight
<1>2. IInv /\ TypeOK /\ OnlyOne(d) /\ OwnObject /\ ListedOnce /\ o \in Deliveries
  BY <1>1, Running DEF IInv, TypeOK, PointerHeld
<1>3. i \in InfoType /\ i.sha \in Commits
  BY <1>2 DEF TypeOK, InfoType
<1>4. PICK to \in {kept, refused} :
        /\ pc' = [pc EXCEPT ![d] = to] /\ (to # "failed" => ptr' = ptr)
        /\ \/ status' = [status EXCEPT ![i.sha] = NewRepoStatus(i)]
           \/ to = refused /\ UNCHANGED status
  BY DEF CreateStatus, GotoFree, Goto
<1>5. /\ to \in {"keep", "keepEmpty", "store", "failed"} /\ to \in Steps
      /\ from = "post" <=> to \in {"keep", "failed"}
  BY <1>4 DEF Steps
<1> HIDE DEF i
<1>6. \A n \in Commits : \/ status'[n] = status[n]
                         \/ n = i.sha /\ status'[n] = NewRepoStatus(i)
  BY <1>2, <1>3, <1>4 DEF TypeOK
<1>7. NoRepeat(NewRepoStatus(i).mentions)
  <2>1. NoRepeat(i.lgtmers) /\ NoRepeat(<<>>)
    BY <1>2 DEF ListedOnce, NoRepeat, i
  <2>2. QED BY <2>1 DEF NewRepoStatus
<1>8. ListedOnce'
  BY <1>2, <1>6, <1>7 DEF ListedOnce, NoRepeat
<1>9. InOrder'
  <2>1. from = "postEmpty" => d \in Comments /\ ptr[d] = d
    BY <1>1, <1>2 DEF OwnObject
  <2>2. QED
    BY <1>1, <1>2, <1>4, <1>5, <1>8, <2>1, InOrderStep DEF Filling
<1>10. ASSUME Quorum # 0 PROVE AnswersInv'
  <2>1. AnswersHeld /\ QuorumSet /\ OwnApproval /\ AnsweredIsListed
    BY <1>1, <1>10, Running
  <2>2. NoNewAnswer
    BY <1>2, <1>4, <1>5, NothingAnswered
  <2>3. Holds(o) /\ HeldNext(o)
    BY <1>1, <1>2, <2>1, <2>2, HeldStays DEF AnswersHeld
  <2>4. cached # Nobody => HeldNext(cached)
    BY <1>2, <2>1, <2>2, HeldStays DEF AnswersHeld, TypeOK
  <2>5. cached # Nobody /\ info[cached].quorum = 0 =>
          d \in Comments /\ to \in Filling /\ ptr'[d] = cached
    <3>1. SUFFICES ASSUME cached # Nobody, info[cached].quorum = 0
                   PROVE  d \in Comments /\ to \in Filling /\ ptr'[d] = cached
      OBVIOUS
    <3>2. pc[d] \in Filling
      BY <1>2, <2>1, <3>1, CachedQuorum
    <3>3. PICK c \in Comments : pc[c] \in Filling /\ ptr[c] = cached
      BY <2>1, <3>1 DEF QuorumSet, Filling
    <3>4. c = d
      BY <1>2, <3>3, CommentsAreDeliveries DEF OnlyOne, Others, InFlight, Filling
    <3>5. QED BY <1>1, <1>4, <1>5, <3>2, <3>3, <3>4 DEF Filling
  <2>6. from = "post" => i.quorum # 0 /\ NewRepoStatus(i).mentions = i.lgtmers
    BY <1>1, <2>1 DEF QuorumSet, NewRepoStatus, i
\* Nothing was answered for the commit of an empty status.
  <2>7. from = "postEmpty" => i.lgtmers = <<>>
    BY <1>1, <1>2 DEF OwnObject, i
  <2>8. ASSUME NEW c \in Comments, pc[c] = "done", <<c, i.sha>> \in approved,
               i.sha \notin overlooked
        PROVE  \E k \in DOMAIN NewRepoStatus(i).mentions : NewRepoStatus(i).mentions[k] = Author[c]
    <3>1. IsLGTMer(i, Author[c])
      BY <2>3, <2>8 DEF Holds, i
    <3>2. QED BY <2>6, <2>7, <3>1 DEF IsLGTMer
  <2>9. AnsweredIsListed'
    <3> SUFFICES ASSUME NEW c \in Comments, NEW n \in Commits \ overlooked', pc'[c] = "done",
                        <<c, n>> \in approved'
                 PROVE  \E k \in DOMAIN status'[n].mentions : status'[n].mentions[k] = Author[c]
      BY DEF AnsweredIsListed, Mentioned
    <3>1. pc[c] = "done" /\ <<c, n>> \in approved
      BY <2>2 DEF NoNewAnswer
    <3>2. CASE status'[n] = status[n]
      BY <1>1, <1>10, <2>1, <3>1, <3>2 DEF AnsweredIsListed, Mentioned
    <3>3. CASE n = i.sha /\ status'[n] = NewRepoStatus(i)
      BY <2>8, <3>1, <3>3
    <3>4. QED BY <1>6, <3>2, <3>3
  <2>10. ASSUME NEW n \in Commits, d \in Comments, <<d, n>> \in approved
         PROVE  /\ to \in {"keep", "failed"}
                /\ to = "keep" => n = info'[ptr'[d]].sha /\ IsLGTMer(info'[ptr'[d]], Author[d])
                /\ to = "keep" => Author[d] \in Mentioned(n)'
    <3>1. from = "post" /\ n = i.sha /\ IsLGTMer(i, Author[d])
      BY <1>1, <2>1, <2>10 DEF OwnApproval, i
    <3>2. to = "keep" => status'[n] = NewRepoStatus(i)
      BY <1>2, <1>3, <1>4, <3>1 DEF TypeOK
    <3>3. to = "keep" => Author[d] \in Mentioned(n)'
      BY <2>6, <3>1, <3>2 DEF Mentioned, IsLGTMer
    <3>4. QED BY <1>4, <1>5, <3>1, <3>3 DEF i
  <2>11. to \in Using => info'[ptr'[d]].quorum # 0
    BY <1>4, <1>5, <2>6 DEF Using, i
  <2>12. to \in Filling \cup Using => HeldNext(ptr'[d])
    BY <1>4, <1>5, <2>3 DEF Using, Filling
  <2>13. QED
    BY <1>2, <1>4, <1>5, <2>1, <2>4, <2>5, <2>9, <2>10, <2>11, <2>12, AnswersStep
<1>11. QED BY <1>9, <1>10

LEMMA PostEmptyOrder ==
  ASSUME OrderInv, IInv', NEW c \in Comments, PostEmpty(c) PROVE OrderInv'
BY CreateStatusOrder, CommentsAreDeliveries DEF PostEmpty

LEMMA PostOrder ==
  ASSUME OrderInv, IInv', NEW d \in Deliveries, Post(d) PROVE OrderInv'
BY CreateStatusOrder DEF Post


-----------------------------------------------------------------------------
LEMMA KeepEmptyOrder ==
  ASSUME OrderInv, IInv', NEW c \in Comments, KeepEmpty(c) PROVE OrderInv'
<1> SUFFICES ASSUME ~disorder' PROVE InOrder' /\ (Quorum # 0 => AnswersInv')
  BY DEF OrderInv
<1>1. /\ c \in Deliveries /\ pc[c] = "keepEmpty" /\ InFlight(c) /\ ~disorder
      /\ pc' = [pc EXCEPT ![c] = "store"] /\ cached' = ptr[c]
      /\ UNCHANGED <<info, ptr, slice, status, approved, overlooked>>
  BY CommentsAreDeliveries DEF KeepEmpty, Remember, GotoFree, Goto, InFlight
<1>2. TypeOK /\ OnlyOne(c) /\ ListedOnce /\ ptr[c] = c
  BY <1>1, Running DEF OwnObject
<1>3. InOrder'
  BY <1>1, <1>2, InOrderStep, SameLists DEF Filling, Steps
<1>4. ASSUME Quorum # 0 PROVE AnswersInv'
  <2>1. AnswersHeld /\ OwnApproval /\ AnsweredIsListed
    BY <1>1, <1>4, Running
  <2>2. NoNewAnswer
    BY <1>1, <1>2, NothingAnswered DEF Steps
  <2>3. HeldNext(c)
    BY <1>1, <1>2, <2>1, <2>2, HeldStays DEF AnswersHeld
  <2>4. QED BY <1>1, <1>2, <1>4, <2>1, <2>3, UnapprovedStep DEF Filling
<1>5. QED BY <1>3, <1>4

\* With the quorum that is configured the object is ready for use.
LEMMA StoreOrder ==
  ASSUME OrderInv, IInv', NEW c \in Comments, Store(c) PROVE OrderInv'
<1> SUFFICES ASSUME ~disorder' PROVE InOrder' /\ (Quorum # 0 => AnswersInv')
  BY DEF OrderInv
<1>1. /\ c \in Deliveries /\ pc[c] = "store" /\ InFlight(c) /\ ~disorder
      /\ pc' = [pc EXCEPT ![c] = "check"] /\ cached' = ptr[c]
      /\ info' = [info EXCEPT ![c] = WithQuorum(@)]
      /\ UNCHANGED <<ptr, slice, status, approved, overlooked>>
  BY CommentsAreDeliveries DEF Store, Remember, GotoFree, Goto, InFlight
<1>2. TypeOK /\ OnlyOne(c) /\ ListedOnce /\ ptr[c] = c
  BY <1>1, Running DEF OwnObject
<1>3. /\ \A d \in Deliveries : /\ info'[d].lgtmers = info[d].lgtmers
                               /\ info'[d].sha = info[d].sha
      /\ Quorum # 0 => info'[c].quorum = Quorum
  BY <1>1, <1>2 DEF TypeOK, InfoType, WithQuorum
<1>4. ListedOnce'
  BY <1>1, <1>2, <1>3 DEF ListedOnce, NoRepeat
<1>5. InOrder'
  BY <1>1, <1>2, <1>4, InOrderStep DEF Filling, Steps
<1>6. ASSUME Quorum # 0 PROVE AnswersInv'
  <2>1. AnswersHeld /\ OwnApproval /\ AnsweredIsListed
    BY <1>1, <1>6, Running
  <2>2. NoNewAnswer
    BY <1>1, <1>2, NothingAnswered DEF Steps
  <2>3. HeldNext(c)
    BY <1>1, <1>2, <1>3, <2>1, <2>2, HeldStays DEF AnswersHeld, IsLGTMer
  <2>4. QED BY <1>1, <1>2, <1>3, <1>6, <2>1, <2>3, UnapprovedStep DEF Filling
<1>7. QED BY <1>5, <1>6

\* The answer of d: its approval is in the status it has published, and in the object
\* that is cached.
LEMMA KeepOrder ==
  ASSUME OrderInv, IInv', NEW d \in Deliveries, Keep(d) PROVE OrderInv'
<1> SUFFICES ASSUME ~disorder' PROVE InOrder' /\ (Quorum # 0 => AnswersInv')
  BY DEF OrderInv
<1> DEFINE o == ptr[d]
<1>1. /\ pc[d] = "keep" /\ InFlight(d) /\ ~disorder
      /\ pc' = [pc EXCEPT ![d] = "done"] /\ cached' = o
      /\ UNCHANGED <<info, slice, status, approved, overlooked>>
  BY DEF Keep, Remember, GotoFree, Goto, InFlight
<1>2. IInv /\ TypeOK /\ OnlyOne(d) /\ ListedOnce /\ o \in Deliveries
  BY <1>1, Running DEF IInv, TypeOK, PointerHeld
<1>3. InOrder'
  BY <1>1, <1>2, InOrderStep, SameLists DEF Filling, Steps
<1>4. ASSUME Quorum # 0 PROVE AnswersInv'
  <2>1. AnswersHeld /\ QuorumSet /\ OwnApproval /\ AnsweredIsListed
    BY <1>1, <1>4, Running
  <2>2. \A c \in Comments : pc'[c] = "done" => c = d \/ pc[c] = "done"
    BY <1>1, <1>2, CommentsAreDeliveries DEF TypeOK
  <2>3. Holds(o) /\ info[o].quorum # 0 /\ info[o].sha \in Commits
    BY <1>1, <1>2, <2>1 DEF AnswersHeld, QuorumSet, TypeOK, InfoType
  <2>4. HeldNext(o)
    BY <1>1, <2>1, <2>2, <2>3 DEF OwnApproval, HeldNext, Holds
  <2>5. AnsweredIsListed'
    BY <1>1, <1>4, <2>1, <2>2 DEF AnsweredIsListed, OwnApproval, Mentioned
  <2>6. QED
    BY <1>1, <1>2, <2>1, <2>3, <2>4, <2>5, AnswersStep DEF Filling, Using, Steps
<1>5. QED BY <1>3, <1>4

\* The approval is appended to the list that was checked for it.
LEMMA WriteSliceOrder ==
  ASSUME OrderInv, IInv', NEW c \in Comments, WriteSlice(c) PROVE OrderInv'
<1> SUFFICES ASSUME ~disorder' PROVE InOrder' /\ (Quorum # 0 => AnswersInv')
  BY DEF OrderInv
<1> DEFINE o == ptr[c]
           sha == info[o].sha
           old == info[o].lgtmers
           users == Append(old, Author[c])
<1>1. /\ c \in Deliveries /\ pc[c] = "write" /\ InFlight(c) /\ ~disorder
      /\ pc' = [pc EXCEPT ![c] = "post"] /\ approved' = approved \cup {<<c, sha>>}
      /\ UNCHANGED <<ptr, cached, status, overlooked>>
  BY CommentsAreDeliveries DEF WriteSlice, Goto, InFlight
<1>2. /\ IInv /\ TypeOK /\ OnlyOne(c) /\ ListedOnce /\ o \in Deliveries
      /\ slice[c] = old /\ ~IsLGTMer(info[o], Author[c])
  BY <1>1, Running DEF IInv, TypeOK, PointerHeld, AppendsOnce
<1>3. info' = [info EXCEPT ![o].lgtmers = users]
  BY <1>2 DEF WriteSlice
<1>4. old \in Seq(Users) /\ sha \in Commits
  BY <1>2 DEF TypeOK, InfoType
<1>5. /\ info'[o].lgtmers = users /\ info'[o].sha = sha /\ info'[o].quorum = info[o].quorum
      /\ \A d \in Deliveries : d # o => info'[d] = info[d]
  BY <1>2, <1>3 DEF TypeOK, InfoType
<1>6. /\ \A k \in DOMAIN old : k \in DOMAIN users /\ users[k] = old[k]
      /\ \A k \in DOMAIN users : \/ k \in DOMAIN old /\ users[k] = old[k]
                                 \/ k = Len(old) + 1 /\ users[k] = Author[c]
      /\ Len(old) + 1 \in DOMAIN users /\ users[Len(old) + 1] = Author[c]
  <2>1. Author[c] \in Users /\ Len(old) \in Nat /\ DOMAIN old = 1..Len(old)
    BY <1>4 DEF Users
  <2>2. /\ users \in Seq(Users) /\ Len(users) = Len(old) + 1 /\ DOMAIN users = 1..(Len(old) + 1)
        /\ \A k \in 1..Len(old) : users[k] = old[k]
        /\ users[Len(old) + 1] = Author[c]
    BY <1>4, <2>1, AppendProperties
  <2> HIDE DEF users, old
  <2>3. \A k \in 1..(Len(old) + 1) : k \in 1..Len(old) \/ k = Len(old) + 1
    BY <2>1
  <2>4. 1..Len(old) \subseteq 1..(Len(old) + 1) /\ Len(old) + 1 \in 1..(Len(old) + 1)
    BY <2>1
  <2>5. ASSUME NEW k \in DOMAIN old PROVE k \in DOMAIN users /\ users[k] = old[k]
    BY <2>1, <2>2, <2>4
  <2>6. ASSUME NEW k \in DOMAIN users
        PROVE  \/ k \in DOMAIN old /\ users[k] = old[k]
               \/ k = Len(old) + 1 /\ users[k] = Author[c]
    BY <2>1, <2>2, <2>3
  <2>7. Len(old) + 1 \in DOMAIN users /\ users[Len(old) + 1] = Author[c]
    BY <2>2, <2>4
  <2>8. QED BY <2>5, <2>6, <2>7
<1> HIDE DEF users
<1>7. ListedOnce'
  <2>1. NoRepeat(old) /\ \A k \in DOMAIN old : old[k] # Author[c]
    BY <1>2 DEF ListedOnce, IsLGTMer
  <2>2. NoRepeat(users)
    BY <1>6, <2>1 DEF NoRepeat
  <2>3. \A d \in Deliveries : NoRepeat(info'[d].lgtmers)
    BY <1>2, <1>5, <2>2 DEF ListedOnce
  <2>4. QED BY <1>1, <1>2, <2>3 DEF ListedOnce, NoRepeat
<1>8. InOrder'
  BY <1>1, <1>2, <1>7, InOrderStep DEF Filling, Steps
<1>9. ASSUME Quorum # 0 PROVE AnswersInv'
  <2>1. AnswersHeld /\ QuorumSet /\ OwnApproval /\ AnsweredIsListed
    BY <1>1, <1>9, Running
  <2>2. \A b \in Comments : \A n \in Commits : <<b, n>> \in approved' => <<b, n>> \in approved \/ b = c
    BY <1>1
  <2>3. NoNewAnswer
    BY <1>1, <1>2, <2>2, NothingAnswered DEF Steps
  <2>4. \A d \in Deliveries : /\ info'[d].sha = info[d].sha /\ info'[d].quorum = info[d].quorum
                              /\ \A user : IsLGTMer(info[d], user) => IsLGTMer(info'[d], user)
    BY <1>5, <1>6 DEF IsLGTMer
  <2>5. HeldNext(o)
    BY <1>1, <1>2, <2>1, <2>3, <2>4, HeldStays DEF AnswersHeld
  <2>6. cached # Nobody => HeldNext(cached) /\ info'[cached].quorum # 0
    BY <1>1, <1>2, <2>1, <2>3, <2>4, HeldStays, CachedQuorum DEF AnswersHeld, Filling, TypeOK
  <2>7. info'[o].quorum # 0
    BY <1>1, <1>2, <1>5, <2>1 DEF QuorumSet
  <2>8. \A n \in Commits : <<c, n>> \in approved' => n = info'[o].sha /\ IsLGTMer(info'[o], Author[c])
    <3>1. \A n \in Commits : <<c, n>> \notin approved
      BY <1>1, <2>1, NotYetApproved
    <3>2. QED BY <1>1, <1>5, <1>6, <3>1 DEF IsLGTMer
  <2>9. AnsweredIsListed'
    BY <1>1, <1>9, <2>1, <2>3, ListedStays
  <2>10. QED
    BY <1>1, <1>2, <2>1, <2>2, <2>5, <2>6, <2>7, <2>8, <2>9, AnswersStep DEF Filling, Using, Steps
<1>10. QED BY <1>8, <1>9

\* A pull_request event that comes in order finds no approval of its commit.
LEMMA ReceivePushOrder ==
  ASSUME OrderInv, IInv', NEW n \in Commits, ReceivePush(n) PROVE OrderInv'
<1> SUFFICES ASSUME ~disorder' PROVE InOrder' /\ (Quorum # 0 => AnswersInv')
  BY DEF OrderInv
<1>1. /\ n \in Deliveries /\ n \notin Comments /\ pc[n] = "idle" /\ pc' = [pc EXCEPT ![n] = "post"]
      /\ ~disorder /\ OnlyOne(n) /\ \A c \in Comments : <<c, n>> \notin approved
      /\ info' = [info EXCEPT ![n] = NewInfo(<<>>, Quorum, n)] /\ ptr' = [ptr EXCEPT ![n] = n]
      /\ UNCHANGED <<slice, cached, status, approved, overlooked>>
  BY CommentsAreDeliveries DEF ReceivePush, Goto, Overlap, OnlyOne, Others, Deliveries
<1>2. IInv /\ TypeOK /\ ListedOnce /\ (Quorum # 0 => AnswersInv)
  BY <1>1 DEF OrderInv, IInv, InOrder
<1>3. /\ info'[n] = NewInfo(<<>>, Quorum, n) /\ ptr'[n] = n
      /\ \A d \in Deliveries : d # n => info'[d] = info[d]
  BY <1>1, <1>2 DEF TypeOK
<1>4. info'[n].lgtmers = <<>> /\ info'[n].quorum = Quorum /\ info'[n].sha = n
  BY <1>3 DEF NewInfo
<1>5. ListedOnce'
  <2>1. \A d \in Deliveries : NoRepeat(info'[d].lgtmers)
    BY <1>2, <1>3, <1>4 DEF ListedOnce, NoRepeat
  <2>2. QED BY <1>1, <1>2, <2>1 DEF ListedOnce, NoRepeat
<1>6. InOrder'
  BY <1>1, <1>2, <1>3, <1>5, InOrderStep DEF Filling, Steps
<1>7. ASSUME Quorum # 0 PROVE AnswersInv'
  <2>1. AnswersHeld /\ QuorumSet /\ OwnApproval /\ AnsweredIsListed
    BY <1>2, <1>7 DEF AnswersInv
  <2>2. NoNewAnswer
    BY <1>1, <1>2, NothingAnswered DEF Steps
  <2>3. cached # n /\ cached \in Deliveries \cup {Nobody}
    BY <1>1, <1>2 DEF IInv, UnsharedYet, Fresh, TypeOK
  <2>4. cached # Nobody => HeldNext(cached) /\ info'[cached].quorum # 0
    BY <1>1, <1>2, <1>3, <2>1, <2>2, <2>3, HeldStays, CachedQuorum DEF AnswersHeld, Filling
  <2>5. HeldNext(n)
    BY <1>1, <1>4 DEF HeldNext
  <2>6. AnsweredIsListed'
    BY <1>1, <1>7, <2>1, <2>2, ListedStays
  <2>7. QED
    BY <1>1, <1>2, <1>3, <1>4, <1>7, <2>1, <2>4, <2>5, <2>6, AnswersStep DEF Filling, Using, Steps
<1>8. QED BY <1>6, <1>7

\* Without a step of a handler.
LEMMA StandStill ==
  ASSUME OrderInv, IInv', UNCHANGED <<pc, info, ptr, slice, cached, status, approved, disorder, overlooked>>
  PROVE  OrderInv'
<1> SUFFICES ASSUME ~disorder PROVE InOrder' /\ (Quorum # 0 => AnswersInv')
  BY DEF OrderInv
<1>1. InOrder'
  BY DEF OrderInv, InOrder, Alone, InFlight, OwnObject, AppendsOnce, IsLGTMer, ListedOnce, NoRepeat
<1>2. ASSUME Quorum # 0 PROVE AnswersInv'
  <2>1. AnswersInv
    BY <1>2 DEF OrderInv
  <2>2. QuorumSet' /\ AnswersHeld'
    BY <2>1 DEF AnswersInv, QuorumSet, AnswersHeld, Holds, IsLGTMer
  <2>3. OwnApproval' /\ AnsweredIsListed'
    BY <2>1 DEF AnswersInv, OwnApproval, AnsweredIsListed, Mentioned, IsLGTMer
  <2>4. QED BY <2>2, <2>3 DEF AnswersInv
<1>3. QED BY <1>1, <1>2

\* A restart: what was answered is on GitHub.
LEMMA RestartOrder == ASSUME OrderInv, IInv', Restart PROVE OrderInv'
<1> SUFFICES ASSUME ~disorder' PROVE InOrder' /\ (Quorum # 0 => AnswersInv')
  BY DEF OrderInv
<1>1. /\ ~disorder /\ TypeOK /\ InOrder /\ (Quorum # 0 => AnswersInv)
      /\ info' = NoInfo /\ cached' = Nobody /\ UNCHANGED <<status, approved, overlooked>>
  BY DEF Restart, OrderInv, IInv
<1>2. \A d \in Deliveries : /\ pc'[d] \in AtRest /\ ~InFlight(d)'
                            /\ pc'[d] = pc[d] \/ pc'[d] = "lost"
  BY <1>1 DEF Restart, InFlight, AtRest, TypeOK, Steps
<1>3. InOrder'
  <2>1. ListedOnce'
    BY <1>1 DEF InOrder, ListedOnce, NoRepeat, NoInfo, NewInfo
  <2>2. Alone' /\ OwnObject' /\ AppendsOnce'
    BY <1>2, CommentsAreDeliveries DEF Alone, OwnObject, AppendsOnce, AtRest
  <2>3. QED BY <2>1, <2>2 DEF InOrder
<1>4. ASSUME Quorum # 0 PROVE AnswersInv'
  <2>1. OwnApproval /\ AnsweredIsListed
    BY <1>1, <1>4 DEF AnswersInv
  <2>2. QuorumSet' /\ AnswersHeld'
    BY <1>1, <1>2 DEF QuorumSet, AnswersHeld, AtRest
  <2>3. OwnApproval'
    BY <1>1, <1>2, <2>1, CommentsAreDeliveries DEF OwnApproval, AtRest
  <2>4. AnsweredIsListed'
    <3>1. \A c \in Comments : pc'[c] = "done" => pc[c] = "done"
      BY <1>2, CommentsAreDeliveries
    <3>2. QED BY <1>1, <1>4, <2>1, <3>1 DEF AnsweredIsListed, Mentioned
  <2>5. QED BY <2>2, <2>3, <2>4 DEF AnswersInv
<1>5. QED BY <1>3, <1>4

LEMMA InitOrder == Init => OrderInv
<1> SUFFICES ASSUME Init PROVE InOrder /\ AnswersInv
  BY InitIInv DEF OrderInv
<1>1. InOrder
  BY CommentsAreDeliveries
  DEF Init, InOrder, Alone, InFlight, OwnObject, AppendsOnce, ListedOnce, NoRepeat, NoInfo, NewInfo,
      NoStatus
<1>2. AnswersInv
  BY CommentsAreDeliveries
  DEF Init, AnswersInv, QuorumSet, AnswersHeld, OwnApproval, AnsweredIsListed
<1>3. QED BY <1>1, <1>2

LEMMA NextOrder == OrderInv /\ IInv' /\ [Next]_vars => OrderInv'
<1> SUFFICES ASSUME OrderInv, IInv', [Next]_vars PROVE OrderInv'
  OBVIOUS
<1>1. ASSUME NEW c \in Comments, ReceiveComment(c) \/ CommentHandler(c) PROVE OrderInv'
  BY <1>1, ReceiveCommentOrder, LookInCacheOrder, GetPullOrder, ListStatusesOrder,
     PostEmptyOrder, KeepEmptyOrder, StoreOrder, CheckDuplicateOrder, ReadSliceOrder,
     WriteSliceOrder DEF CommentHandler
<1>2. ASSUME NEW n \in Commits, ReceivePush(n) PROVE OrderInv'
  BY <1>2, ReceivePushOrder
<1>3. ASSUME NEW d \in Deliveries, Post(d) \/ Keep(d) PROVE OrderInv'
  BY <1>3, PostOrder, KeepOrder
<1>4. CASE Push
  BY <1>4, StandStill DEF Push
<1>5. CASE Restart
  BY <1>5, RestartOrder
<1>6. CASE UNCHANGED vars
  BY <1>6, StandStill DEF vars
<1>7. QED
  BY <1>1, <1>2, <1>3, <1>4, <1>5, <1>6 DEF Next

\* While deliveries are handled one by one and in order, a handler appends only to a
\* list that does not have its author (lgtm.go:110-117), and every object that is
\* published or cached lists the approvals that were answered (status_cache.go:36-85).
THEOREM OrderInvariance == Spec => []OrderInv
<1>1. Init => OrderInv
  BY InitOrder
<1>2. OrderInv /\ [Next]_vars => OrderInv'
  BY NextIInv, NextOrder DEF OrderInv
<1>3. QED BY <1>1, <1>2, PTL DEF Spec

\* A list without repetition mentions as many users as it is long.
LEMMA NoRepeatCounts ==
  ASSUME NEW S, NEW users \in Seq(S), NoRepeat(users)
  PROVE  Cardinality({ users[k] : k \in DOMAIN users }) = Len(users)
<1> DEFINE D == 1..Len(users)
           T == { users[k] : k \in DOMAIN users }
           f == [k \in D |-> users[k]]
<1>1. Len(users) \in Nat /\ DOMAIN users = D
  OBVIOUS
<1>2. IsFiniteSet(D) /\ Cardinality(D) = Len(users)
  BY <1>1, FS_Interval
<1>3. f \in Bijection(D, T)
  <2>1. f \in [D -> T] /\ \A t \in T : \E k \in D : f[k] = t
    BY <1>1
  <2>2. \A j, k \in D : f[j] = f[k] => j = k
    BY <1>1 DEF NoRepeat
  <2>3. QED BY <2>1, <2>2 DEF Bijection, Injection, Surjection, IsInjective
<1>4. ExistsBijection(D, T)
  BY <1>3 DEF ExistsBijection
<1>5. QED BY <1>2, <1>4, FS_Bijection

\* Nobody is counted twice for a commit, over repeated comments, failed calls, restarts
\* and the parsed description, for any number of comments and commits (lgtm.go:110-114).
THEOREM EachCountsOnce == Spec => []DistinctApprovals
<1>1. OrderInv => DistinctApprovals
  <2> SUFFICES ASSUME OrderInv, ~disorder, NEW n \in Commits
               PROVE  Cardinality(Mentioned(n)) = Len(status[n].mentions)
    BY DEF DistinctApprovals
  <2>1. status[n].mentions \in Seq(Users) /\ NoRepeat(status[n].mentions)
    BY DEF OrderInv, IInv, TypeOK, StatusType, InOrder, ListedOnce
  <2>2. QED BY <2>1, NoRepeatCounts DEF Mentioned
<1>2. QED BY <1>1, OrderInvariance, PTL

\* With a quorum, an approval whose handler returned nil is on GitHub and stays there
\* (lgtm.go:116-122, status_cache.go:36-85).
THEOREM AnswersStay == Spec => []AnsweredIsListed
<1>1. OrderInv => AnsweredIsListed
  BY DEF OrderInv, AnswersInv, AnsweredIsListed
<1>2. QED BY <1>1, OrderInvariance, PTL
=============================================================================
