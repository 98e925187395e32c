--------------------------- MODULE FailingFmtBuild ---------------------------
(***************************************************************************)
(* travis.FailingFmtBuildHandler: a status event that says that a build of *)
(* master failed makes the handler ask Travis for the jobs of the build;   *)
(* when the fmt job is among the failed ones it files an issue.  The       *)
(* repository of the event is put into the context that all handlers share *)
(* (ctx/repo_ref.go), and every later call takes it from there.            *)
(***************************************************************************)
EXTENDS SearchedIssues, Sequences

CONSTANTS
  FmtEvents, \* deliveries of status events
  StatusOf,  \* StatusOf[e]: what the event says
  BuildJobs, \* BuildJobs[e]: the jobs of its build, in order
  NoRepo

VARIABLES
  fmtPc,    \* fmtPc[e]: where the handler of e is
  fmtJob,   \* fmtJob[e]: which job of the build it looks at
  ctxRepo   \* context.Repo

fmtVars == <<fmtPc, fmtJob, ctxRepo>>

TravisPush == "continuous-integration/travis-ci/push"

FmtRepos == {StatusOf[e].repo : e \in FmtEvents}

FmtSubject(r) == <<"fmt", r, 0>>

ASSUME FmtAssumption ==
  /\ \A r \in FmtRepos : FmtSubject(r) \in Subjects
  /\ \A e \in FmtEvents :
       Len(BuildJobs[e]) \in Nat /\ DOMAIN BuildJobs[e] = 1..Len(BuildJobs[e])

FmtInit ==
  /\ fmtPc = [e \in FmtEvents |-> "idle"]
  /\ fmtJob = [e \in FmtEvents |-> 0]
  /\ ctxRepo = NoRepo

FmtInFlight == {e \in FmtEvents : fmtPc[e] \notin {"idle", "done"}}

\* Mutant of IsMasterFailure: the branch is not looked at.
IsMasterFailure_AnyBranch(status) ==
  status.state = "failure" /\ status.context = TravisPush

\* A failure of the push build of master; an event without branches passes.
IsMasterFailure(status) ==
  /\ status.state = "failure"
  /\ status.context = TravisPush
  /\ status.branch \in {"none", "master"}

GotoFmt(e, from, to) == fmtPc[e] = from /\ fmtPc' = [fmtPc EXCEPT ![e] = to]

IgnoreStatus(e) ==
  /\ GotoFmt(e, "idle", "done")
  /\ ~IsMasterFailure(StatusOf[e])
  /\ UNCHANGED <<fmtJob, ctxRepo, issueVars, errors>>

\* When handlers are under way in another repository, what they file from now on
\* is about this one, where they have not searched.
SetRepo(e) ==
  /\ GotoFmt(e, "idle", "build")
  /\ IsMasterFailure(StatusOf[e])
  /\ ctxRepo' = StatusOf[e].repo
  /\ unseen' = IF FmtInFlight # {} /\ ctxRepo # StatusOf[e].repo
                 THEN unseen \cup {FmtSubject(StatusOf[e].repo)} ELSE unseen
  /\ UNCHANGED <<fmtJob, opened, indexed, closes, errors>>

\* The build is asked for by its number, in the repository of the context: in
\* another one Travis need not find it, which is a build without jobs.
GetBuild(e) ==
  /\ \/ /\ GotoFmt(e, "build", "job")
        /\ fmtJob' = [fmtJob EXCEPT ![e] = 1]
        /\ UNCHANGED errors
     \/ /\ GotoFmt(e, "build", "done")
        /\ IF ctxRepo = StatusOf[e].repo THEN Fail ELSE Applied
        /\ UNCHANGED fmtJob
  /\ UNCHANGED <<ctxRepo, issueVars>>

\* One turn of the loop over the jobs: the failed fmt job ends it.
GetJob(e) ==
  LET jobs == BuildJobs[e]
      i == fmtJob[e]
  IN /\ \/ GotoFmt(e, "job", "done") /\ i > Len(jobs) /\ UNCHANGED <<fmtJob, errors>>
        \/ GotoFmt(e, "job", "done") /\ i <= Len(jobs) /\ Fail /\ UNCHANGED fmtJob
        \/ /\ GotoFmt(e, "job", "search") /\ i <= Len(jobs)
           /\ jobs[i] = [suite |-> "fmt", state |-> "failed"]
           /\ UNCHANGED <<fmtJob, errors>>
        \/ /\ GotoFmt(e, "job", "job") /\ i <= Len(jobs)
           /\ jobs[i] # [suite |-> "fmt", state |-> "failed"]
           /\ fmtJob' = [fmtJob EXCEPT ![e] = i + 1]
           /\ UNCHANGED errors
     /\ UNCHANGED <<ctxRepo, issueVars>>

\* Mutant of SearchFmt: an issue is filed whatever the search returns.
SearchFmt_ResultIgnored(e) ==
  LET s == FmtSubject(ctxRepo)
      others == {o \in FmtEvents \ {e} : fmtPc[o] = "create"}
  IN /\ GotoFmt(e, "search", "create") /\ GoesOn(s, SearchFinds(s), others)
     /\ UNCHANGED <<fmtJob, ctxRepo, opened, indexed, closes, errors>>

\* A search that fails ends the handler.
SearchFmt(e) ==
  LET s == FmtSubject(ctxRepo)
      others == {o \in FmtEvents \ {e} : fmtPc[o] = "create"}
  IN /\ \/ GotoFmt(e, "search", "done") /\ Fail /\ UNCHANGED unseen
        \/ GotoFmt(e, "search", "done") /\ SearchFinds(s) /\ UNCHANGED <<unseen, errors>>
        \/ /\ GotoFmt(e, "search", "create") /\ ~SearchFinds(s)
           /\ GoesOn(s, SearchFinds(s), others) /\ UNCHANGED errors
     /\ UNCHANGED <<fmtJob, ctxRepo, opened, indexed, closes>>

CreateFmt(e) ==
  /\ GotoFmt(e, "create", "done")
  /\ \/ CreateIssue(FmtSubject(ctxRepo)) /\ Applied
     \/ Fail /\ UNCHANGED opened
  /\ UNCHANGED <<fmtJob, ctxRepo, indexed, closes, unseen>>

FailingFmtBuildHandler(e) ==
  \/ IgnoreStatus(e) \/ SetRepo(e) \/ GetBuild(e) \/ GetJob(e) \/ SearchFmt(e) \/ CreateFmt(e)

FmtNext == \E e \in FmtEvents : FailingFmtBuildHandler(e)

(***************************************************************************)
(* The inductive invariant: a handler works in the repository of its own   *)
(* event, and what it files is about a build that failed, unless another   *)
(* one has put its repository into the context since.                      *)
(***************************************************************************)
FmtTypeOK ==
  /\ fmtPc \in [FmtEvents -> {"idle", "build", "job", "search", "create", "done"}]
  /\ fmtJob \in [FmtEvents -> Nat]
  /\ ctxRepo \in FmtRepos \cup {NoRepo}

FmtJobFailed(e) ==
  \E i \in DOMAIN BuildJobs[e] : BuildJobs[e][i] = [suite |-> "fmt", state |-> "failed"]

\* The push build of a commit on this branch of r failed, and its fmt job did.
FmtFailed(r, branch) ==
  \E e \in FmtEvents :
    /\ StatusOf[e].repo = r /\ StatusOf[e].branch = branch
    /\ StatusOf[e].state = "failure" /\ StatusOf[e].context = TravisPush
    /\ FmtJobFailed(e)

WorksOnFailure ==
  /\ \A e \in FmtInFlight :
       /\ IsMasterFailure(StatusOf[e])
       /\ fmtPc[e] = "job" => fmtJob[e] > 0
       /\ fmtPc[e] \in {"search", "create"} => FmtJobFailed(e)
       /\ ctxRepo \in FmtRepos
       /\ ctxRepo = StatusOf[e].repo \/ FmtSubject(ctxRepo) \in unseen

\* Between the search and the create there is no issue that nobody saw, and no
\* other handler is there too.
FmtReady ==
  \A e \in FmtEvents :
    fmtPc[e] = "create" /\ FmtSubject(ctxRepo) \notin unseen =>
      /\ opened[FmtSubject(ctxRepo)] = 0
      /\ \A o \in FmtEvents \ {e} : fmtPc[o] # "create"

\* An issue that says a repository's fmt build is failing on master is in a
\* repository whose own push build failed in fmt: that of master, or one of a
\* commit that the event names no branch for, which the code takes for master
\* (failing_fmt_build.go:50; the title, line 111, may then be wrong).  Except where
\* a handler put the repository into the shared context while another one was
\* under way in a different repository (lines 42-54, 88, 107-110).
BlamedBuildFailed ==
  \A r \in FmtRepos :
    opened[FmtSubject(r)] > 0 =>
      \/ FmtFailed(r, "master") \/ FmtFailed(r, "none")
      \/ FmtSubject(r) \in unseen

FmtInv == FmtTypeOK /\ WorksOnFailure /\ FmtReady /\ BlamedBuildFailed
=============================================================================
