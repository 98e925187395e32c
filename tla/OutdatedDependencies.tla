------------------------- MODULE OutdatedDependencies -------------------------
(***************************************************************************)
(* cmd/check-for-outdated-dependencies with dependencies/: for one         *)
(* repository, read the dependencies from the gemspec and the Gemfile, ask *)
(* RubyGems for the latest version of each, and file an issue for each     *)
(* whose constraint does not allow it.  Versions are numbers; a constraint *)
(* is the highest version it allows, and 0 when a file has none.           *)
(***************************************************************************)
EXTENDS SearchedIssues

CONSTANTS
  Gems,
  Containing, \* Containing[g]: the gems whose name contains the name of g
  Constrained, \* the gems that the gemspec has at the start
  MaxGem,     \* bound: versions of a gem
  MaxEdits,   \* bound: edits of constraints by people
  Checkers    \* runs of the command that may go on at the same time

VARIABLES
  gemspec, gemfile, \* gemspec[g], gemfile[g]: the constraint in that file
  newest,      \* newest[g]: the latest version on RubyGems
  edits,
  constrained, \* history: constrained[g]: the constraints that either file has had
  filed,       \* history: the gems and versions that issues were filed for
  checkPc,
  deps,        \* deps[c][g]: the constraint that c has read for g
  unchecked,   \* unchecked[c]: the dependencies that c has yet to compare
  outdated,    \* outdated[c]: the outdated ones that c has yet to deal with
  gem,         \* gem[c]: the one it deals with
  known        \* known[c][g]: RubyDependency.latest, 0 before it is fetched

depEnv == <<gemspec, gemfile, newest, edits, constrained>>
depJob == <<checkPc, deps, unchecked, outdated, gem, known>>
depVars == <<depEnv, filed, depJob>>

NoGem == CHOOSE g \in Gems : TRUE
NoDeps == [g \in Gems |-> 0]
DepSubject(g, v) == <<"dependency", g, v>>

ASSUME DepAssumption ==
  /\ MaxGem \in Nat \ {0} /\ Constrained \subseteq Gems /\ Gems # {}
  /\ \A g \in Gems, v \in 1..MaxGem : DepSubject(g, v) \in Subjects

\* The gemspec is parsed first, and a name that is there already is not added.
Constraint(spec, file) == [g \in Gems |-> IF spec[g] # 0 THEN spec[g] ELSE file[g]]

DepInit ==
  /\ gemspec = [g \in Gems |-> IF g \in Constrained THEN 1 ELSE 0]
  /\ gemfile = NoDeps
  /\ newest = [g \in Gems |-> 1]
  /\ edits = 0
  /\ constrained = [g \in Gems |-> {gemspec[g], gemfile[g]}]
  /\ filed = {}
  /\ checkPc = [c \in Checkers |-> "idle"]
  /\ deps = [c \in Checkers |-> NoDeps]
  /\ unchecked = [c \in Checkers |-> {}]
  /\ outdated = [c \in Checkers |-> {}]
  /\ gem = [c \in Checkers |-> NoGem]
  /\ known = [c \in Checkers |-> NoDeps]

(***************************************************************************)
(* RubyGems and the people of the repository                               *)
(***************************************************************************)
ReleaseGem(g) ==
  /\ newest[g] < MaxGem
  /\ newest' = [newest EXCEPT ![g] = @ + 1]
  /\ UNCHANGED <<gemspec, gemfile, edits, constrained, filed, depJob, issueVars, errors>>

EditConstraint(g) ==
  /\ edits < MaxEdits
  /\ edits' = edits + 1
  /\ \E k \in 0..newest[g] :
       /\ \/ gemspec' = [gemspec EXCEPT ![g] = k] /\ UNCHANGED gemfile
          \/ gemfile' = [gemfile EXCEPT ![g] = k] /\ UNCHANGED gemspec
       /\ constrained' = [constrained EXCEPT ![g] = @ \cup {k}]
  /\ UNCHANGED <<newest, filed, depJob, issueVars, errors>>

(***************************************************************************)
(* AllOutdatedDependencies                                                 *)
(***************************************************************************)
GotoCheck(c, from, to) == checkPc[c] = from /\ checkPc' = [checkPc EXCEPT ![c] = to]

StartCheck(c) ==
  /\ GotoCheck(c, "idle", "gemspec")
  /\ UNCHANGED <<depEnv, filed, deps, unchecked, outdated, gem, known, issueVars, errors>>

\* The process ends, and what it knew is gone.
EndCheck(c, from) ==
  /\ GotoCheck(c, from, "idle")
  /\ deps' = [deps EXCEPT ![c] = NoDeps]
  /\ known' = [known EXCEPT ![c] = NoDeps]
  /\ outdated' = [outdated EXCEPT ![c] = {}]
  /\ gem' = [gem EXCEPT ![c] = NoGem]

\* fetchFile: a file that cannot be fetched is one without dependencies.
Fetched(file, found) ==
  \/ found = file /\ UNCHANGED errors
  \/ found = NoDeps /\ Fail

ReadFile(c, file) ==
  \E found \in {file, NoDeps} :
    Fetched(file, found) /\ deps' = [deps EXCEPT ![c] = Constraint(@, found)]

ReadGemspec(c) ==
  /\ GotoCheck(c, "gemspec", "gemfile")
  /\ ReadFile(c, gemspec)
  /\ UNCHANGED <<depEnv, filed, unchecked, outdated, gem, known, issueVars>>

ReadGemfile(c) ==
  /\ GotoCheck(c, "gemfile", "compare")
  /\ ReadFile(c, gemfile)
  /\ unchecked' = [unchecked EXCEPT ![c] = {g \in Gems : deps'[c][g] # 0}]
  /\ outdated' = [outdated EXCEPT ![c] = {}]
  /\ UNCHANGED <<depEnv, filed, gem, known, issueVars>>

\* Mutant of Allows: the constraint is compared with itself plus one, so that the
\* version it names is outside.
Allows_Exclusive(constraint, v) == v < constraint

Allows(constraint, v) == v <= constraint

\* GetLatestVersion and the check of one dependency; the version that is fetched
\* is kept for the search and the title, one that cannot be fetched is not late.
IsOutdated(c) ==
  /\ checkPc[c] = "compare"
  /\ \E g \in unchecked[c] :
       /\ unchecked' = [unchecked EXCEPT ![c] = @ \ {g}]
       /\ \/ /\ known' = [known EXCEPT ![c][g] = newest[g]]
             /\ outdated' = [outdated EXCEPT ![c] =
                               IF Allows(deps[c][g], newest[g]) THEN @ ELSE @ \cup {g}]
             /\ UNCHANGED errors
          \/ Fail /\ UNCHANGED <<known, outdated>>
  /\ UNCHANGED <<depEnv, filed, checkPc, deps, gem, issueVars>>

AllCompared(c) ==
  /\ GotoCheck(c, "compare", "file")
  /\ unchecked[c] = {}
  /\ UNCHANGED <<depEnv, filed, deps, unchecked, outdated, gem, known, issueVars, errors>>

(***************************************************************************)
(* process: the loop over the outdated dependencies                        *)
(***************************************************************************)
\* The titles found have the words of the query, and one of them has to contain
\* the name: that of a gem with a longer name does.
UpdateIssueFound(g, v) == \E h \in Containing[g] \cup {g} : SearchFinds(DepSubject(h, v))

\* Mutant of SearchUpdateIssue: an issue that is there ends the run.
SearchUpdateIssue_Stops(c) ==
  /\ \E g \in outdated[c] :
       /\ \/ EndCheck(c, "file") /\ UpdateIssueFound(g, known[c][g]) /\ UNCHANGED unseen
          \/ /\ GotoCheck(c, "file", "create") /\ ~UpdateIssueFound(g, known[c][g])
             /\ outdated' = [outdated EXCEPT ![c] = @ \ {g}]
             /\ gem' = [gem EXCEPT ![c] = g]
             /\ GoesOn(DepSubject(g, known[c][g]), FALSE, {})
             /\ UNCHANGED <<deps, known>>
  /\ UNCHANGED <<depEnv, filed, unchecked, opened, indexed, closes, errors>>

\* GitHubUpdateIssueForDependency: a search that fails counts as one that finds
\* nothing.
SearchUpdateIssue(c) ==
  /\ \E g \in outdated[c] :
       LET s == DepSubject(g, known[c][g])
           others == {o \in Checkers \ {c} : checkPc[o] = "create" /\ gem[o] = g}
       IN /\ outdated' = [outdated EXCEPT ![c] = @ \ {g}]
          /\ gem' = [gem EXCEPT ![c] = g]
          /\ \/ /\ GotoCheck(c, "file", "file") /\ UpdateIssueFound(g, known[c][g])
                /\ UNCHANGED <<unseen, errors>>
             \/ /\ GotoCheck(c, "file", "create") /\ GoesOn(s, FALSE, others)
                /\ \/ ~UpdateIssueFound(g, known[c][g]) /\ UNCHANGED errors
                   \/ Fail
  /\ UNCHANGED <<depEnv, filed, deps, unchecked, known, opened, indexed, closes>>

\* An error ends the run: the other dependencies wait for the next.
FileUpdateIssue(c) ==
  LET g == gem[c]
      v == known[c][g]
  IN /\ checkPc[c] = "create"
     /\ \/ /\ CreateIssue(DepSubject(g, v))
           /\ filed' = filed \cup {<<g, v>>}
           /\ \/ GotoCheck(c, "create", "file") /\ UNCHANGED <<deps, known, outdated, gem, errors>>
              \/ EndCheck(c, "create") /\ Fail
        \/ EndCheck(c, "create") /\ Fail /\ UNCHANGED <<opened, filed>>
     /\ UNCHANGED <<depEnv, unchecked, indexed, closes, unseen>>

AllFiled(c) ==
  /\ outdated[c] = {}
  /\ EndCheck(c, "file")
  /\ UNCHANGED <<depEnv, filed, unchecked, issueVars, errors>>

Check(c) ==
  \/ StartCheck(c) \/ ReadGemspec(c) \/ ReadGemfile(c) \/ IsOutdated(c) \/ AllCompared(c)
  \/ SearchUpdateIssue(c) \/ FileUpdateIssue(c) \/ AllFiled(c)

DepNext ==
  \/ \E c \in Checkers : Check(c)
  \/ \E g \in Gems : ReleaseGem(g) \/ EditConstraint(g)

DepSpec == DepInit /\ [][DepNext]_depVars

(***************************************************************************)
(* The inductive invariant: what a run works with was a constraint of the  *)
(* repository, and a version of RubyGems that is higher.                   *)
(***************************************************************************)
Versions == 0..MaxGem

DepTypeOK ==
  /\ gemspec \in [Gems -> Versions] /\ gemfile \in [Gems -> Versions]
  /\ newest \in [Gems -> 1..MaxGem]
  /\ constrained \in [Gems -> SUBSET Versions]
  /\ filed \subseteq Gems \X Versions
  /\ checkPc \in [Checkers -> {"idle", "gemspec", "gemfile", "compare", "file", "create"}]
  /\ deps \in [Checkers -> [Gems -> Versions]] /\ known \in [Checkers -> [Gems -> Versions]]
  /\ unchecked \in [Checkers -> SUBSET Gems] /\ outdated \in [Checkers -> SUBSET Gems]
  /\ gem \in [Checkers -> Gems]

ReadWereConstraints ==
  /\ \A g \in Gems : {gemspec[g], gemfile[g]} \subseteq constrained[g]
  /\ \A c \in Checkers, g \in Gems : deps[c][g] \in constrained[g] \cup {0}
  /\ \A c \in Checkers : checkPc[c] = "compare" => \A g \in unchecked[c] : deps[c][g] # 0

IsLate(c, g) ==
  deps[c][g] # 0 /\ known[c][g] \in 1..newest[g] /\ deps[c][g] < known[c][g]

FoundAreLate ==
  \A c \in Checkers :
    /\ checkPc[c] \in {"compare", "file", "create"} => \A g \in outdated[c] : IsLate(c, g)
    /\ checkPc[c] = "create" => IsLate(c, gem[c])

\* An issue is filed for a version that RubyGems has and that a constraint of the
\* repository did not allow: never for a gem without a constraint, nor for one
\* whose version could not be fetched (dependencies.go:96-99, ruby_dependency.go:53-66).
FiledWasOutdated ==
  \A f \in filed :
    f[2] \in 1..newest[f[1]] /\ \E k \in constrained[f[1]] \ {0} : k < f[2]

Late(c) == DepSubject(gem[c], known[c][gem[c]])

\* Between the search and the create there is no issue that nobody saw, and no
\* other run is there with the same dependency.
DepReady ==
  \A c \in Checkers :
    checkPc[c] = "create" /\ Late(c) \notin unseen =>
      /\ opened[Late(c)] = 0
      /\ \A o \in Checkers \ {c} : checkPc[o] = "create" => Late(o) # Late(c)

DepInv == DepTypeOK /\ ReadWereConstraints /\ FoundAreLate /\ FiledWasOutdated

\* A dependency that stays outdated has an open issue again and again, whatever
\* calls and runs failed before: its own, or one of a gem whose name contains its
\* name (github.go:34-38).
OutdatedIsFiled ==
  \A g \in Gems :
    <>[](Constraint(gemspec, gemfile)[g] \in 1..newest[g] - 1)
      => []<>(\E h \in Containing[g] \cup {g} : opened[DepSubject(h, newest[g])] > 0)
=============================================================================
