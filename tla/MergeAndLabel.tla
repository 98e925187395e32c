---------------------------- MODULE MergeAndLabel ----------------------------
(***************************************************************************)
(* "@jekyllbot: merge +category" (chlog/merge_and_label.go).               *)
(*                                                                         *)
(* Every delivery of an issue_comment or pull_request_review webhook runs  *)
(* MergeAndLabel in a goroutine of its own: parse, check the commenter,    *)
(* merge, fetch the pull request, then three goroutines that delete the    *)
(* branch, add labels, and read, change and commit History.markdown.       *)
(* Deliveries run concurrently, GitHub may refuse a call, fail it, or      *)
(* apply it and lose the response, maintainers act at the same time, and   *)
(* the process may stop, which loses every handler in flight.              *)
(*                                                                         *)
(* One action is one call to GitHub.  History.markdown is the set of its   *)
(* lines, the line written for request r being r itself; the blob SHA of a *)
(* file is its content.                                                    *)
(***************************************************************************)
EXTENDS ChangelogCategories, FiniteSets

CONSTANTS
  Requests,     \* webhook deliveries that reach MergeAndLabel
  Pulls,        \* pull requests of the one repository modelled
  Refs,         \* names of branches
  Users,        \* who comments
  Maintainers,  \* users whom CommenterHasPushAccess accepts
  Event,        \* Event[r]: what delivery r carries
  HeadRef,      \* HeadRef[p]: the name of p's head branch
  HeadRepo,     \* HeadRepo[p]: where the head branch lives, see HeadRepos
  HandLines,    \* lines of History.markdown that maintainers write
  NoFile,       \* there is no History.markdown (also: the SHA "")
  StaleCopy,    \* History.markdown at heads/master when that is not the default
                \* branch (NoFile when there is none there)
  Oversized,    \* contents the contents API returns as ""
  Unparsable,   \* contents the changelog parser rejects
  ApiErrors,    \* may calls to GitHub fail?
  NoOne,
  MaxCrashes    \* bound on the number of restarts

\* "sibling": another repository of the same owner; "gone": a deleted fork.
HeadRepos == {"base", "sibling", "fork", "gone"}

EventType == [kind : {"issue_comment", "pull_request_review", "other"},
              submitted : BOOLEAN,     \* action = "submitted"
              onPull : BOOLEAN,        \* Issue.PullRequestLinks # nil
              asksMerge : BOOLEAN,     \* the body matches mergeCommentRegexp
              word : Words \cup {NoWord},
              pull : Pulls,
              commenter : Users]

Lines == HandLines \cup Requests
Files == (SUBSET Lines) \cup {NoFile}

ASSUME ConstantsAssumption ==
  /\ Maintainers \subseteq Users
  /\ Event \in [Requests -> EventType]
  /\ HeadRef \in [Pulls -> Refs]
  /\ HeadRepo \in [Pulls -> HeadRepos]
  /\ Requests \cap HandLines = {}
  /\ NoFile \notin SUBSET Lines
  /\ StaleCopy \in (SUBSET HandLines) \cup {NoFile}
  /\ ApiErrors \in BOOLEAN
  /\ NoOne \notin Requests
  /\ MaxCrashes \in Nat

VARIABLES
  pc,          \* pc[r]: where the handler of delivery r is
  todo,        \* todo[r]: the steps its three goroutines still have to make
  blob,        \* blob[r]: content and SHA of History.markdown as r read them
  pulls,       \* GitHub: state of each pull request
  branches,    \* GitHub: the refs of the repository that exist
  labels,      \* GitHub: the labels of each pull request
  history,     \* GitHub: History.markdown on the default branch
  mergedFor,   \* history variable: the delivery whose Merge call succeeded
  crashes      \* restarts so far

github == <<pulls, branches, labels, history>>
vars   == <<pc, todo, blob, pulls, branches, labels, history, mergedFor, crashes>>

Steps == {"branch", "labels", "read", "commit"}

TypeOK ==
  /\ pc \in [Requests -> {"idle", "auth", "merge", "get", "tasks",
                          "returned", "failed", "lost"}]
  /\ todo \in [Requests -> SUBSET Steps]
  /\ blob \in [Requests -> [content : SUBSET Lines, sha : Files]]
  /\ pulls \in [Pulls -> {"open", "merged", "closed"}]
  /\ branches \in SUBSET Refs
  /\ labels \in [Pulls -> SUBSET CategoryLabels]
  /\ history \in Files
  /\ mergedFor \in [Pulls -> Requests \cup {NoOne}]
  /\ crashes \in Nat

Init ==
  /\ pc = [r \in Requests |-> "idle"]
  /\ todo = [r \in Requests |-> {}]
  /\ blob = [r \in Requests |-> [content |-> {}, sha |-> NoFile]]
  /\ pulls = [p \in Pulls |-> "open"]
  /\ branches = Refs
  /\ labels = [p \in Pulls |-> {}]
  /\ history \in (SUBSET HandLines) \cup {NoFile}
  /\ mergedFor = [p \in Pulls |-> NoOne]
  /\ crashes = 0

-----------------------------------------------------------------------------
Pull(r)    == Event[r].pull

Section(r) == ChangeSection(Event[r].word)

\* The action of an issue_comment event is not looked at: an edited or deleted
\* comment is a request like a new one.
IsMergeRequest(e) ==
  /\ e.asksMerge
  /\ \/ e.kind = "issue_comment" /\ e.onPull
     \/ e.kind = "pull_request_review" /\ e.submitted

\* Mutant of deletableRef: the owner of the head is not compared.
deletableRef_AnyOwner(p) == HeadRef[p] \notin {"master", "main", "gh-pages"}

deletableRef(p) ==
  /\ HeadRepo[p] \in {"base", "sibling"}
  /\ HeadRef[p] \notin {"master", "main", "gh-pages"}

Goto(r, from, to) == pc[r] = from /\ pc' = [pc EXCEPT ![r] = to]

\* parseMergeAndLabelRequest
Receive(r) ==
  /\ IF IsMergeRequest(Event[r]) THEN Goto(r, "idle", "auth")
                                 ELSE Goto(r, "idle", "failed")
  /\ UNCHANGED <<todo, blob, github, mergedFor, crashes>>

\* auth.CommenterHasPushAccess answers false when a call of its own fails.
CheckAccess(r) ==
  /\ \/ Event[r].commenter \in Maintainers /\ Goto(r, "auth", "merge")
     \/ (Event[r].commenter \notin Maintainers \/ ApiErrors)
        /\ Goto(r, "auth", "failed")
  /\ UNCHANGED <<todo, blob, github, mergedFor, crashes>>

\* Mutant of Merge: the handler goes on when the merge is refused.
Merge_ErrorIgnored(r) ==
  /\ Goto(r, "merge", "get")
  /\ \/ /\ pulls[Pull(r)] = "open"
        /\ pulls' = [pulls EXCEPT ![Pull(r)] = "merged"]
        /\ mergedFor' = [mergedFor EXCEPT ![Pull(r)] = r]
     \/ UNCHANGED <<pulls, mergedFor>>
  /\ UNCHANGED <<todo, blob, branches, labels, history, crashes>>

\* PullRequests.Merge: GitHub merges an open pull request at most once, and may
\* refuse (conflicts, failing checks); an applied merge whose response is lost
\* is an error to the handler.
Merge(r) ==
  /\ \/ /\ pulls[Pull(r)] = "open"
        /\ Goto(r, "merge", "get")
        /\ pulls' = [pulls EXCEPT ![Pull(r)] = "merged"]
        /\ mergedFor' = [mergedFor EXCEPT ![Pull(r)] = r]
     \/ /\ pulls[Pull(r)] = "open" /\ ApiErrors
        /\ Goto(r, "merge", "failed")
        /\ pulls' = [pulls EXCEPT ![Pull(r)] = "merged"]
        /\ UNCHANGED mergedFor
     \/ /\ Goto(r, "merge", "failed")
        /\ UNCHANGED <<pulls, mergedFor>>
  /\ UNCHANGED <<todo, blob, branches, labels, history, crashes>>

\* PullRequests.Get, then the goroutines are started.
GetPull(r) ==
  /\ \/ /\ Goto(r, "get", "tasks")
        /\ todo' = [todo EXCEPT ![r] = {"labels", "read"} \cup
                      IF deletableRef(Pull(r)) THEN {"branch"} ELSE {}]
     \/ ApiErrors /\ Goto(r, "get", "failed") /\ UNCHANGED todo
  /\ UNCHANGED <<blob, github, mergedFor, crashes>>

Finish(r, step) ==
  /\ pc[r] = "tasks" /\ step \in todo[r]
  /\ todo' = [todo EXCEPT ![r] = @ \ {step}]

\* Git.DeleteRef of the head's name in the base repository.  GitHub closes the
\* open pull requests whose head branch it was.
DeleteBranch(r) ==
  LET ref == HeadRef[Pull(r)]
  IN  /\ Finish(r, "branch")
      /\ \/ /\ branches' = branches \ {ref}
            /\ pulls' = [p \in Pulls |->
                 IF pulls[p] = "open" /\ HeadRepo[p] = "base" /\ HeadRef[p] = ref
                   THEN "closed" ELSE pulls[p]]
         \/ ApiErrors /\ UNCHANGED <<branches, pulls>>
      /\ UNCHANGED <<pc, blob, labels, history, mergedFor, crashes>>

\* addLabelsForSubsection: no call at all for a section without labels.
AddLabels(r) ==
  /\ Finish(r, "labels")
  /\ \/ labels' = [labels EXCEPT ![Pull(r)] = @ \cup labelsForSubsection[Section(r)]]
     \/ ApiErrors /\ UNCHANGED labels
  /\ UNCHANGED <<pc, blob, pulls, branches, history, mergedFor, crashes>>

\* getHistoryContents: the file and its SHA; "" and "" when it cannot be read;
\* the copy at heads/master when the default branch cannot be looked up.
Contents(file) == IF file = NoFile \/ file \in Oversized THEN {} ELSE file

ReadHistory(r) ==
  /\ pc[r] = "tasks" /\ "read" \in todo[r]
  /\ \E file \in {history} \cup IF ApiErrors THEN {NoFile, StaleCopy} ELSE {} :
       blob' = [blob EXCEPT ![r] = [content |-> Contents(file), sha |-> file]]
  /\ todo' = [todo EXCEPT ![r] = (@ \ {"read"}) \cup {"commit"}]
  /\ UNCHANGED <<pc, github, mergedFor, crashes>>

addMergeReference(content, r) ==
  IF content # {} /\ content \in Unparsable THEN content ELSE content \cup {r}

\* Mutant of CommitHistory: the SHA is fetched again just before the update.
CommitHistory_FreshSHA(r) ==
  /\ Finish(r, "commit")
  /\ history' = addMergeReference(blob[r].content, r)
  /\ UNCHANGED <<pc, blob, pulls, branches, labels, mergedFor, crashes>>

\* Mutant of CommitHistory: a refused update returns before wg.Done.
CommitHistory_NoDone(r) ==
  /\ blob[r].sha = history
  /\ Finish(r, "commit")
  /\ history' = addMergeReference(blob[r].content, r)
  /\ UNCHANGED <<pc, blob, pulls, branches, labels, mergedFor, crashes>>

\* commitHistoryFile: GitHub takes the update only when the SHA is that of the
\* file it replaces; a refusal is logged and the goroutine ends.
CommitHistory(r) ==
  /\ Finish(r, "commit")
  /\ \/ /\ blob[r].sha = history
        /\ history' = addMergeReference(blob[r].content, r)
     \/ (blob[r].sha # history \/ ApiErrors) /\ UNCHANGED history
  /\ UNCHANGED <<pc, blob, pulls, branches, labels, mergedFor, crashes>>

\* wg.Wait
Return(r) ==
  /\ todo[r] = {}
  /\ Goto(r, "tasks", "returned")
  /\ UNCHANGED <<todo, blob, github, mergedFor, crashes>>

-----------------------------------------------------------------------------
\* A maintainer merges a pull request on the web page.
MergeByHand(p) ==
  /\ pulls[p] = "open"
  /\ pulls' = [pulls EXCEPT ![p] = "merged"]
  /\ UNCHANGED <<pc, todo, blob, branches, labels, history, mergedFor, crashes>>

\* A maintainer pushes a commit that adds a line to History.markdown.
EditHistoryByHand(l) ==
  /\ history' = (IF history = NoFile THEN {} ELSE history) \cup {l}
  /\ UNCHANGED <<pc, todo, blob, pulls, branches, labels, mergedFor, crashes>>

InFlight(r) == pc[r] \in {"auth", "merge", "get", "tasks"}

\* The process stops (a panic in any handler's goroutine stops it, too) and is
\* started again: handlers in flight are gone, GitHub keeps what it has.
Crash ==
  /\ crashes < MaxCrashes
  /\ \E r \in Requests : InFlight(r)
  /\ pc' = [r \in Requests |-> IF InFlight(r) THEN "lost" ELSE pc[r]]
  /\ todo' = [r \in Requests |-> {}]
  /\ crashes' = crashes + 1
  /\ UNCHANGED <<blob, github, mergedFor>>

Handler(r) == \/ CheckAccess(r) \/ Merge(r) \/ GetPull(r)
              \/ DeleteBranch(r) \/ AddLabels(r)
              \/ ReadHistory(r) \/ CommitHistory(r) \/ Return(r)

Next == \/ \E r \in Requests : Receive(r) \/ Handler(r)
        \/ \E p \in Pulls : MergeByHand(p)
        \/ \E l \in HandLines : EditHistoryByHand(l)
        \/ Crash

Spec == Init /\ [][Next]_vars

\* A goroutine that can go on does: calls to GitHub return, with an answer or
\* with an error.  Nothing makes deliveries, maintainers or crashes happen.
FairSpec == Spec /\ \A r \in Requests : WF_vars(Handler(r))

-----------------------------------------------------------------------------
\* The lines of merge requests in History.markdown.
Entries(file) == IF file = NoFile THEN {} ELSE file \cap Requests

\* A pull request has at most one line in History.markdown, and only when it is
\* merged, however often its merge is requested, delivered, or retried: Merge
\* (merge_and_label.go:187) is what lets one handler through.
AtMostOneEntry ==
  \A r \in Entries(history) :
    /\ pulls[Pull(r)] = "merged"
    /\ \A s \in Entries(history) : Pull(r) = Pull(s) => r = s

\* The line and the labels of a pull request come from the same comment: the
\* section and the labels are those of the category that comment names, though
\* two goroutines apply them and other comments may name other categories
\* (merge_and_label.go:215-238).
LabelsMatchEntry ==
  /\ \A p \in Pulls : labels[p] # {} => mergedFor[p] # NoOne
  /\ \A p \in Pulls : mergedFor[p] # NoOne =>
       LET word == Event[mergedFor[p]].word
       IN  /\ labels[p] \in {{}, ExpectedLabels(word)}
           /\ \A r \in Entries(history) :
                Pull(r) = p => Section(r) = ExpectedSection(word)

\* No update of History.markdown by the bot drops a line that is committed, by
\* another handler or by a maintainer, though the file is read long before it is
\* written (merge_and_label.go:224-238, 396-413).  A file that the contents API
\* returns without its content is the exception: its SHA is right, so that the
\* empty text is edited and committed over it.
NoCommittedLineLost ==
  [][history \notin Oversized \cup {NoFile} =>
       history' # NoFile /\ history \subseteq history']_vars

\* Only head branches of merged pull requests are deleted, and never master,
\* main or gh-pages (merge_and_label.go:203-213, 383-394).  deletableRef compares
\* owners, not repositories: the head may be that of a sibling repository.
OnlyMergedHeadsDeleted ==
  \A ref \in Refs \ branches :
    /\ ref \notin {"master", "main", "gh-pages"}
    /\ \E p \in Pulls : /\ pulls[p] = "merged"
                        /\ HeadRepo[p] \in {"base", "sibling"} /\ HeadRef[p] = ref

\* Handlers end, whatever their goroutines meet: each of them reaches its
\* wg.Done (merge_and_label.go:203-240).  A delivery is handled once, so that this
\* is the same as every handler ending.
HandlersEnd == <>[](\A r \in Requests : ~InFlight(r))

\* A handler that returns nil has added its line: "Read History.markdown, add
\* line to appropriate change section" (merge_and_label.go:226).
ReturnedIsRecorded ==
  \A r \in Requests : pc[r] = "returned" => r \in Entries(history)

\* The promise of MergeLog, of the state of GitHub: whatever the goroutines do,
\* a merged pull request is recorded at most once, and for good.
Log == INSTANCE MergeLog WITH
         PullOf <- [r \in Requests |-> Pull(r)],
         merged <- {p \in Pulls : pulls[p] = "merged"},
         log    <- Entries(history)
ImplementsMergeLog == Log!Spec

\* Under which the bot's entries are safe: a file that has one can be read.
EntriesReadable == \A content \in Oversized : content \cap Requests = {}

\* The inductive invariant behind AtMostOneEntry: mergedFor names the one
\* delivery that got past Merge, and only its line is ever read or written.
Merger(r) == mergedFor[Pull(r)] = r

MergerMerged == \A p \in Pulls : mergedFor[p] # NoOne =>
                  pulls[p] = "merged" /\ Pull(mergedFor[p]) = p
PastMerge    == \A r \in Requests : pc[r] \in {"get", "tasks"} => Merger(r)
BlobEntries  == \A r \in Requests : \A s \in blob[r].content \cap Requests : Merger(s)
FileEntries  == \A s \in Entries(history) : Merger(s)

BlobMatches  == \A r \in Requests : blob[r].content = Contents(blob[r].sha)

IInv == /\ TypeOK /\ MergerMerged /\ PastMerge
        /\ BlobEntries /\ FileEntries /\ BlobMatches
=============================================================================
