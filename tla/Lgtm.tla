--------------------------------- MODULE Lgtm ---------------------------------
(***************************************************************************)
(* Package lgtm: counting "LGTM" comments of maintainers on one pull       *)
(* request and publishing the count as a commit status.                    *)
(*                                                                         *)
(* Each issue_comment and pull_request delivery runs in a goroutine of its *)
(* own.  They share the status cache, which a mutex protects, and through  *)
(* it statusInfo objects, which nothing protects: getStatus hands out the  *)
(* cached pointer.  An object is named by the delivery that allocated it.  *)
(* The process may stop, which empties the cache; GitHub keeps the         *)
(* statuses, whose descriptions are parsed to fill it again.               *)
(*                                                                         *)
(* Commits are numbered in the order they are pushed to the head branch.   *)
(***************************************************************************)
EXTENDS Naturals, Sequences, FiniteSets

CONSTANTS
  Comments,    \* deliveries of LGTM comments of maintainers
  Author,      \* Author[c]: the login of the commenter
  MaxHead,     \* bound on pushes: the head is one of the commits 0..MaxHead
  Quorum,      \* approvals the repository was configured to require
  MaxListed,   \* approvers that fit in a description of 140 characters
  ApiErrors,   \* may calls to GitHub fail?
  Nobody,      \* no object (a nil pointer, a missing cache entry)
  MaxInFlight, \* bound on the handlers that run at the same time
  MaxCrashes   \* bound on restarts

Commits    == 0..MaxHead
Users      == { Author[c] : c \in Comments }
Deliveries == Comments \cup Commits    \* commit n: its pull_request event

ASSUME ConstantsAssumption ==
  /\ {MaxHead, Quorum, MaxListed, MaxInFlight, MaxCrashes} \subseteq Nat
  /\ Comments \cap Commits = {} /\ Nobody \notin Deliveries
  /\ Author \in [Comments -> Users]
  /\ ApiErrors \in BOOLEAN

VARIABLES
  pc,          \* pc[d]: where the handler of delivery d is
  info,        \* info[d]: the statusInfo allocated by d
  ptr,         \* ptr[d]: the object that d works on
  slice,       \* slice[c]: the lgtmers that c read before it appends
  cached,      \* statusCache.data[ref]
  head,        \* GitHub: the head commit of the pull request
  status,      \* GitHub: per commit, the newest status of our context
  approved,    \* history variable: <<comment, commit>> for every LGTM counted
  disorder,    \* history variable: did two handlers ever overlap, or did a
               \* pull_request event come after an approval of its commit?
  overlooked,  \* history variable: commits with a status of our context that a
               \* list of their statuses did not have
  crashes

vars ==
  <<pc, info, ptr, slice, cached, head, status, approved, disorder, overlooked, crashes>>

NoStatus == [state |-> "none", mentions |-> <<>>, requires |-> 0]

\* A description is what parseStatus can find in it: the users it mentions, and
\* the number of LGTMs it says are missing.
StatusType == [state : {"none", "pending", "success"},
               mentions : Seq(Users), requires : Nat]
InfoType   == [lgtmers : Seq(Users), quorum : Nat, sha : Commits]

\* "look" to "check": getStatus; "post" and "keep": setStatus.
Steps == {"idle", "look", "get", "list", "postEmpty", "keepEmpty", "store", "check",
          "read", "write", "post", "keep", "done", "failed", "lost"}

TypeOK ==
  /\ pc \in [Deliveries -> Steps]
  /\ info \in [Deliveries -> InfoType]
  /\ ptr \in [Deliveries -> Deliveries \cup {Nobody}]
  /\ slice \in [Comments -> Seq(Users)]
  /\ cached \in Deliveries \cup {Nobody}
  /\ head \in Commits
  /\ status \in [Commits -> StatusType]
  /\ approved \in SUBSET (Comments \X Commits)
  /\ disorder \in BOOLEAN
  /\ overlooked \subseteq Commits
  /\ crashes \in Nat

NewInfo(lgtmers, quorum, sha) == [lgtmers |-> lgtmers, quorum |-> quorum, sha |-> sha]

\* The memory of a process that has just started.
NoInfo    == [d \in Deliveries |-> NewInfo(<<>>, 0, 0)]
NoPointer == [d \in Deliveries |-> Nobody]
NoSlice   == [c \in Comments |-> <<>>]

Init ==
  /\ pc = [d \in Deliveries |-> "idle"]
  /\ info = NoInfo /\ ptr = NoPointer /\ slice = NoSlice /\ cached = Nobody
  /\ head = 0
  /\ status = [n \in Commits |-> NoStatus]
  /\ approved = {}
  /\ disorder = FALSE
  /\ overlooked = {}
  /\ crashes = 0

-----------------------------------------------------------------------------
\* What is published of a statusInfo, and what is read back.

newState(i) == IF Len(i.lgtmers) >= i.quorum THEN "success" ELSE "pending"

\* Without approvals the text is "Awaiting approval from at least n", which the
\* regular expression of parseStatus ("Waiting for approval ...") does not match.
NewRepoStatus(i) ==
  [state    |-> newState(i),
   mentions |-> IF i.quorum = 0 THEN <<>> ELSE i.lgtmers,
   requires |-> IF i.lgtmers # <<>> /\ i.quorum > Len(i.lgtmers)
                  THEN i.quorum - Len(i.lgtmers) ELSE 0]

\* Mutant of parseStatus: only a count is read back, not who approved.
parseStatus_CountOnly(sha, s) ==
  NewInfo(<<>>, Len(s.mentions) + s.requires, sha)

parseStatus(sha, s) ==
  NewInfo(s.mentions, Len(s.mentions) + s.requires, sha)

newEmptyStatus(quorum) == NewRepoStatus(NewInfo(<<>>, quorum, 0))

\* The configured quorum, unless it is 0, replaces the one that was parsed.
WithQuorum(i) == IF Quorum # 0 THEN [i EXCEPT !.quorum = Quorum] ELSE i

IsLGTMer(i, user) == \E k \in DOMAIN i.lgtmers : i.lgtmers[k] = user

-----------------------------------------------------------------------------
Goto(d, from, to) == pc[d] = from /\ pc' = [pc EXCEPT ![d] = to]

\* As Goto; a handler that ends lets go of its object.
GotoFree(d, from, to) ==
  /\ Goto(d, from, to)
  /\ ptr' = IF to \in {"done", "failed"} THEN [ptr EXCEPT ![d] = Nobody] ELSE ptr

InFlight(d) == pc[d] \notin {"idle", "done", "failed", "lost"}
Overlap     == \E d \in Deliveries : InFlight(d)
HasRoom     == Cardinality({ d \in Deliveries : InFlight(d) }) < MaxInFlight

\* A comment arrives; its author has push access (auth is not modelled here).
ReceiveComment(c) ==
  /\ HasRoom
  /\ Goto(c, "idle", "look")
  /\ disorder' = (disorder \/ Overlap)
  /\ UNCHANGED <<info, ptr, slice, cached, head, status, approved, overlooked, crashes>>

\* Mutant of ReceivePush: the approvals that are cached are taken over.
ReceivePush_KeepsApprovals(n) ==
  /\ HasRoom /\ n <= head
  /\ Goto(n, "idle", "post")
  /\ info' = [info EXCEPT ![n] =
                NewInfo(IF cached = Nobody THEN <<>> ELSE info[cached].lgtmers, Quorum, n)]
  /\ ptr' = [ptr EXCEPT ![n] = n]
  /\ disorder' = (disorder \/ Overlap \/ \E c \in Comments : <<c, n>> \in approved)
  /\ UNCHANGED <<slice, cached, head, status, approved, overlooked, crashes>>

\* The pull_request event of commit n ("opened" for 0, else "synchronize"):
\* a new statusInfo without approvals, whatever is cached.
ReceivePush(n) ==
  /\ HasRoom /\ n <= head
  /\ Goto(n, "idle", "post")
  /\ info' = [info EXCEPT ![n] = NewInfo(<<>>, Quorum, n)]
  /\ ptr' = [ptr EXCEPT ![n] = n]
  /\ disorder' = (disorder \/ Overlap \/ \E c \in Comments : <<c, n>> \in approved)
  /\ UNCHANGED <<slice, cached, head, status, approved, overlooked, crashes>>

\* getStatus: the cache first.
LookInCache(c) ==
  /\ \/ cached # Nobody /\ Goto(c, "look", "check")
        /\ ptr' = [ptr EXCEPT ![c] = cached]
     \/ cached = Nobody /\ Goto(c, "look", "get") /\ UNCHANGED ptr
  /\ UNCHANGED <<info, slice, cached, head, status, approved, disorder, overlooked, crashes>>

\* PullRequests.Get: the head commit at this moment.
GetPull(c) ==
  /\ \/ Goto(c, "get", "list")
        /\ info' = [info EXCEPT ![c].sha = head]
        /\ ptr' = [ptr EXCEPT ![c] = c]
     \/ ApiErrors /\ Goto(c, "get", "failed") /\ UNCHANGED <<info, ptr>>
  /\ UNCHANGED <<slice, cached, head, status, approved, disorder, overlooked, crashes>>

\* ListStatuses: the newest status of our context among those on the first page,
\* or the parsed text of an empty one, which is then published.  The page has the
\* 30 newest statuses of all contexts: ours, if there is one, may be behind it.
ListStatuses(c) ==
  LET sha == info[c].sha
  IN  /\ \/ /\ status[sha] # NoStatus
            /\ GotoFree(c, "list", "store")
            /\ info' = [info EXCEPT ![c] = parseStatus(sha, status[sha])]
            /\ UNCHANGED overlooked
         \/ /\ GotoFree(c, "list", "postEmpty")
            /\ info' = [info EXCEPT ![c] = parseStatus(sha, newEmptyStatus(Quorum))]
            /\ overlooked' = IF status[sha] = NoStatus THEN overlooked ELSE overlooked \cup {sha}
         \/ ApiErrors /\ GotoFree(c, "list", "failed") /\ UNCHANGED <<info, overlooked>>
      /\ UNCHANGED <<slice, cached, head, status, approved, disorder, crashes>>

\* CreateStatus on the commit of d's object: GitHub refuses a description of more
\* than 140 characters, and its answer may be lost.
CreateStatus(d, from, kept, refused) ==
  /\ pc[d] = from
  /\ LET i    == info[ptr[d]]
         fits == Len(NewRepoStatus(i).mentions) <= MaxListed
         put  == status' = [status EXCEPT ![i.sha] = NewRepoStatus(i)]
     IN  \/ fits /\ put /\ GotoFree(d, from, kept)
         \/ fits /\ ApiErrors /\ put /\ GotoFree(d, from, refused)
         \/ (ApiErrors \/ ~fits) /\ UNCHANGED status /\ GotoFree(d, from, refused)

\* An error of this setStatus is only logged.
PostEmpty(c) ==
  /\ CreateStatus(c, "postEmpty", "keepEmpty", "store")
  /\ UNCHANGED <<info, slice, cached, head, approved, disorder, overlooked, crashes>>

Remember(d, from, to) ==
  /\ GotoFree(d, from, to)
  /\ cached' = ptr[d]

KeepEmpty(c) ==
  /\ Remember(c, "keepEmpty", "store")
  /\ UNCHANGED <<info, slice, head, status, approved, disorder, overlooked, crashes>>

\* The end of getStatus.
Store(c) ==
  /\ Remember(c, "store", "check")
  /\ info' = [info EXCEPT ![c] = WithQuorum(@)]
  /\ UNCHANGED <<slice, head, status, approved, disorder, overlooked, crashes>>

\* Mutant of CheckDuplicate: the login is not looked for.
CheckDuplicate_Skipped(c) ==
  /\ GotoFree(c, "check", "read")
  /\ UNCHANGED <<info, slice, cached, head, status, approved, disorder, overlooked, crashes>>

\* "Already LGTM'd by you? Exit."
CheckDuplicate(c) ==
  /\ pc[c] = "check"
  /\ IF IsLGTMer(info[ptr[c]], Author[c]) THEN GotoFree(c, "check", "failed")
                                          ELSE GotoFree(c, "check", "read")
  /\ UNCHANGED <<info, slice, cached, head, status, approved, disorder, overlooked, crashes>>

\* info.lgtmers = append(info.lgtmers, "@"+lgtmer) reads the slice ...
ReadSlice(c) ==
  /\ Goto(c, "read", "write")
  /\ slice' = [slice EXCEPT ![c] = info[ptr[c]].lgtmers]
  /\ UNCHANGED <<info, ptr, cached, head, status, approved, disorder, overlooked, crashes>>

\* ... and writes it, with no lock in between.
WriteSlice(c) ==
  /\ Goto(c, "write", "post")
  /\ info' = [info EXCEPT ![ptr[c]].lgtmers = Append(slice[c], Author[c])]
  /\ approved' = approved \cup {<<c, info[ptr[c]].sha>>}
  /\ slice' = [slice EXCEPT ![c] = <<>>]
  /\ UNCHANGED <<ptr, cached, head, status, disorder, overlooked, crashes>>

\* setStatus of the comment handler and of the pull request handler: the status
\* is created first, and cached only when that succeeds.
Post(d) ==
  /\ CreateStatus(d, "post", "keep", "failed")
  /\ UNCHANGED <<info, slice, cached, head, approved, disorder, overlooked, crashes>>

Keep(d) ==
  /\ Remember(d, "keep", "done")
  /\ UNCHANGED <<info, slice, head, status, approved, disorder, overlooked, crashes>>

-----------------------------------------------------------------------------
\* A commit is pushed to the head branch.
Push ==
  /\ head < MaxHead
  /\ head' = head + 1
  /\ UNCHANGED <<pc, info, ptr, slice, cached, status, approved, disorder, overlooked, crashes>>

\* The process is restarted: the cache and the handlers in flight are gone.
Restart ==
  /\ crashes < MaxCrashes
  /\ pc' = [d \in Deliveries |-> IF InFlight(d) THEN "lost" ELSE pc[d]]
  /\ info' = NoInfo /\ ptr' = NoPointer /\ slice' = NoSlice /\ cached' = Nobody
  /\ crashes' = crashes + 1
  /\ UNCHANGED <<head, status, approved, disorder, overlooked>>

CommentHandler(c) ==
  \/ LookInCache(c) \/ GetPull(c) \/ ListStatuses(c) \/ PostEmpty(c) \/ KeepEmpty(c)
  \/ Store(c) \/ CheckDuplicate(c) \/ ReadSlice(c) \/ WriteSlice(c)

Next == \/ \E c \in Comments : ReceiveComment(c) \/ CommentHandler(c)
        \/ \E n \in Commits : ReceivePush(n)
        \/ \E d \in Deliveries : Post(d) \/ Keep(d)
        \/ Push
        \/ Restart

Spec == Init /\ [][Next]_vars
-----------------------------------------------------------------------------
Mentioned(n) == { status[n].mentions[k] : k \in DOMAIN status[n].mentions }

\* An approval is listed for the commit of the object that it was counted in and
\* for no other: neither the cache nor an object that a handler still holds takes
\* it over to a commit that is pushed later (lgtm.go:116-117, 137-142,
\* status_cache.go:36-85).  Which object that is, the cache decides: until the
\* pull_request event of a push is handled, approvals are for the commit before.
ApprovalsStayWithCommit ==
  \A n \in Commits : \A user \in Mentioned(n) :
    \E c \in Comments : Author[c] = user /\ <<c, n>> \in approved

\* As long as deliveries are handled one by one and in order, nobody is counted
\* twice for a commit: through repeated comments, failed calls, restarts and the
\* parsed description (lgtm.go:110-114).
DistinctApprovals ==
  ~disorder => \A n \in Commits : Cardinality(Mentioned(n)) = Len(status[n].mentions)

\* As long as deliveries are handled one by one and in order, an approval whose
\* handler returned nil is on GitHub and stays there, over failed calls, restarts
\* and later approvals (lgtm.go:116-122, status_cache.go:36-85): unless a list of
\* the commit's statuses did not reach ours, which an empty one then replaces
\* (status_cache.go:49, 67-70).
AnsweredIsListed ==
  ~disorder /\ Quorum # 0 =>
    \A c \in Comments : \A n \in Commits \ overlooked :
      pc[c] = "done" /\ <<c, n>> \in approved => Author[c] \in Mentioned(n)

\* "The number of LGTM's a PR must get before going state: success" (lgtm.go:26):
\* a commit whose status is success has that many approvals.
SuccessNeedsQuorum ==
  \A n \in Commits :
    status[n].state = "success" => Cardinality(Mentioned(n)) >= Quorum

\* The inductive invariant behind ApprovalsStayWithCommit.  Who is listed for a
\* commit, on GitHub, in an object or in a slice that is about to be written
\* back, approved it; and an object gets its commit before anybody else, the
\* cache included, can point to it.
AllApproved(users, n) ==
  \A k \in DOMAIN users :
    \E c \in Comments : Author[c] = users[k] /\ <<c, n>> \in approved

StatusApproved == \A n \in Commits : AllApproved(status[n].mentions, n)
InfoApproved   == \A d \in Deliveries : AllApproved(info[d].lgtmers, info[d].sha)
SliceApproved  == \A c \in Comments :
                    pc[c] = "write" => AllApproved(slice[c], info[ptr[c]].sha)

PointerHeld ==
  \A d \in Deliveries :
    pc[d] \in {"list", "postEmpty", "keepEmpty", "store", "check", "read", "write",
              "post", "keep"} => ptr[d] # Nobody
Fresh(d) == pc[d] \in {"idle", "look", "get"}
UnsharedYet ==
  \A d \in Deliveries : Fresh(d) => cached # d /\ \A e \in Deliveries : ptr[e] # d
EmptyYet == \A d \in Deliveries : Fresh(d) => info[d].lgtmers = <<>>

IInv == /\ TypeOK /\ StatusApproved /\ InfoApproved /\ SliceApproved
        /\ PointerHeld /\ UnsharedYet /\ EmptyYet

-----------------------------------------------------------------------------
(***************************************************************************)
(* The inductive invariant behind DistinctApprovals and AnsweredIsListed,  *)
(* while nothing has come out of order.  The one handler that runs appends *)
(* to the list that it has checked.  With a quorum, every object that is   *)
(* published or cached lists the approvals that were answered, so that a   *)
(* status, which replaces the one before, loses none.                      *)
(***************************************************************************)
Alone     == \A d, e \in Deliveries : InFlight(d) /\ InFlight(e) => d = e
OwnObject == \A c \in Comments :
  /\ pc[c] \in {"list", "postEmpty", "keepEmpty", "store"} => ptr[c] = c
  /\ pc[c] = "postEmpty" => info[c].lgtmers = <<>>

AppendsOnce == \A c \in Comments :
  /\ pc[c] = "write" => slice[c] = info[ptr[c]].lgtmers
  /\ pc[c] \in {"read", "write"} => ~IsLGTMer(info[ptr[c]], Author[c])

NoRepeat(users) == \A j, k \in DOMAIN users : users[j] = users[k] => j = k
ListedOnce == /\ \A n \in Commits : NoRepeat(status[n].mentions)
              /\ \A d \in Deliveries : NoRepeat(info[d].lgtmers)

\* A quorum of 0, which hides the approvers, is parsed and cached for a moment only.
QuorumSet ==
  /\ \A d \in Deliveries :
       pc[d] \in {"check", "read", "write", "post", "keep"} => info[ptr[d]].quorum # 0
  /\ cached # Nobody /\ info[cached].quorum = 0 =>
       \E c \in Comments : pc[c] \in {"postEmpty", "keepEmpty", "store"} /\ ptr[c] = cached

Holds(o) == info[o].sha \notin overlooked => \A c \in Comments :
  pc[c] = "done" /\ <<c, info[o].sha>> \in approved => IsLGTMer(info[o], Author[c])
AnswersHeld ==
  /\ \A d \in Deliveries :
       pc[d] \in {"postEmpty", "keepEmpty", "store", "check", "read", "write", "post", "keep"}
         => Holds(ptr[d])
  /\ cached # Nobody => Holds(cached)

OwnApproval == \A c \in Comments : \A n \in Commits : <<c, n>> \in approved =>
  /\ pc[c] \in {"post", "keep", "done", "failed", "lost"}
  /\ pc[c] \in {"post", "keep"} => n = info[ptr[c]].sha /\ IsLGTMer(info[ptr[c]], Author[c])
  /\ pc[c] = "keep" => Author[c] \in Mentioned(n)

InOrder    == Alone /\ OwnObject /\ AppendsOnce /\ ListedOnce
AnswersInv == QuorumSet /\ AnswersHeld /\ OwnApproval /\ AnsweredIsListed

OrderInv == IInv /\ (~disorder => InOrder /\ (Quorum # 0 => AnswersInv))
=============================================================================
