---------------------------- MODULE Commands_proofs ----------------------------
(***************************************************************************)
(* Proofs about the commands that run from time to time over whole         *)
(* repositories: the nudge to release, the check for outdated              *)
(* dependencies, the freezing of ancient issues, the unifying of labels.   *)
(***************************************************************************)
EXTENDS Nudge, OutdatedDependencies, Freeze, UnifyLabels,
        FiniteSetTheorems, SequenceTheorems, WellFoundedInduction, TLAPS

-----------------------------------------------------------------------------
(***************************************************************************)
(* The nudge to release                                                    *)
(***************************************************************************)
LEMMA NudgeInitInv == NudgeInit => NudgeInv
BY NudgeAssumption
DEF NudgeInit, NudgeInv, NudgeTypeOK, AgedAreOut, WorksOnRelease, NudgedWasDue, Releases

\* A release that is out and due stays so, whatever happens in the repository.
LEMMA DueStays ==
  ASSUME NudgeTypeOK, AgedAreOut, NEW q \in NudgeRepos, Publish(q) \/ CommitTo(q) \/ TwoMonths(q),
         NEW r \in NudgeRepos, NEW k \in 1..latest[r]
  PROVE  k \in 1..latest'[r] /\ (Due(r, k) => Due(r, k)')
<1>1. k \in Releases /\ latest[r] \in 0..MaxReleases /\ since[r][k] \in 0..2
  BY NudgeAssumption DEF NudgeTypeOK, Releases
<1>2. CASE Publish(q)
  BY <1>1, <1>2, NudgeAssumption DEF Publish, NudgeTypeOK, Due
<1>3. CASE CommitTo(q)
  <2>1. latest' = latest /\ aged' = aged
    BY <1>3 DEF CommitTo
  <2>2. \/ since'[r][k] = since[r][k]
        \/ since[r][k] # 2 /\ since'[r][k] \in {1, 2}
    <3>1. PICK many \in BOOLEAN :
            since' = [since EXCEPT ![q] = [l \in Releases |->
                        IF l > latest[q] \/ since[q][l] = 2 THEN since[q][l]
                        ELSE IF since[q][l] = 0 \/ ~many THEN 1 ELSE 2]]
      BY <1>3 DEF CommitTo, NudgeTypeOK
    <3>2. QED BY <1>1, <3>1 DEF NudgeTypeOK
  <2>3. since[r][k] = 1 => since'[r][k] \in {1, 2}
    BY <2>2
  <2>4. QED BY <2>1, <2>2, <2>3 DEF Due
<1>4. CASE TwoMonths(q)
  BY <1>1, <1>4 DEF TwoMonths, NudgeTypeOK, AgedAreOut, Due
<1>5. QED BY <1>2, <1>3, <1>4

LEMMA RepositoryInv ==
  ASSUME NudgeInv, NEW q \in NudgeRepos, Repository(q)
  PROVE  NudgeInv'
<1>1. UNCHANGED <<nudgePc, nudgeRelease, nudged>>
  BY DEF Repository
<1>2. CASE PublishOdd(q)
  BY <1>1, <1>2 DEF PublishOdd, NudgeInv, NudgeTypeOK, AgedAreOut, WorksOnRelease, NudgedWasDue, Due
<1>3. CASE Publish(q) \/ CommitTo(q) \/ TwoMonths(q)
  <2>1. odd' = odd
    BY <1>3 DEF Publish, CommitTo, TwoMonths
  <2>2. latest' \in [NudgeRepos -> 0..MaxReleases]
    BY <1>3, NudgeAssumption DEF Publish, CommitTo, TwoMonths, NudgeInv, NudgeTypeOK
  <2>3. since' \in [NudgeRepos -> [Releases -> 0..2]]
    BY <1>3 DEF Publish, CommitTo, TwoMonths, NudgeInv, NudgeTypeOK
  <2>4. aged' \in [NudgeRepos -> SUBSET Releases]
    <3>1. 1..latest[q] \subseteq Releases
      BY NudgeAssumption DEF NudgeInv, NudgeTypeOK, Releases
    <3>2. QED BY <1>3, <3>1 DEF Publish, CommitTo, TwoMonths, NudgeInv, NudgeTypeOK
  <2>5. NudgeTypeOK'
    BY <1>1, <2>1, <2>2, <2>3, <2>4 DEF NudgeInv, NudgeTypeOK
  <2>6. \A r \in NudgeRepos, k \in Nat :
          k \in 1..latest[r] => k \in 1..latest'[r] /\ (Due(r, k) => Due(r, k)')
    BY <1>3, DueStays DEF NudgeInv
  <2>7. AgedAreOut'
    <3>1. \A r \in NudgeRepos : latest[r] <= latest'[r] /\ latest'[r] \in Nat
      BY <1>3, NudgeAssumption DEF Publish, CommitTo, TwoMonths, NudgeInv, NudgeTypeOK
    <3>2. \A r \in NudgeRepos : aged'[r] = aged[r] \/ aged'[r] = 1..latest'[r]
      BY <1>3 DEF Publish, CommitTo, TwoMonths, NudgeInv, NudgeTypeOK
    <3>3. \A r \in NudgeRepos : latest[r] \in Nat /\ aged[r] \subseteq 1..MaxReleases
      BY NudgeAssumption DEF NudgeInv, NudgeTypeOK, Releases
    <3>4. QED BY <3>1, <3>2, <3>3, NudgeAssumption DEF NudgeInv, AgedAreOut
  <2>8. WorksOnRelease'
    BY <1>1, <2>6 DEF NudgeInv, WorksOnRelease
  <2>9. NudgedWasDue'
    BY <1>1, <2>6 DEF NudgeInv, NudgeTypeOK, NudgedWasDue
  <2>10. QED BY <2>5, <2>7, <2>8, <2>9 DEF NudgeInv
<1>4. QED BY <1>2, <1>3 DEF Repository

\* A step of the command: nothing happens in the repositories.
LEMMA NudgeStepInv ==
  ASSUME NudgeInv, NudgeStep
  PROVE  NudgeInv'
<1>1. UNCHANGED <<latest, since, aged, odd>>
  BY DEF NudgeStep, StartNudge, LatestRelease, CommitsSinceRelease, getReleaseNudgeIssue, fileIssue
<1>2. NudgeTypeOK /\ AgedAreOut /\ WorksOnRelease /\ NudgedWasDue
  BY DEF NudgeInv
<1>3. AgedAreOut' /\ \A r, k : Due(r, k)' = Due(r, k)
  BY <1>1, <1>2 DEF AgedAreOut, Due
<1>4. ASSUME nudged' = nudged, NudgeTypeOK', WorksOnRelease'
      PROVE  NudgeInv'
  BY <1>1, <1>2, <1>3, <1>4 DEF NudgeInv, NudgedWasDue
<1>5. CASE StartNudge
  <2>1. nudgePc' = [r \in NudgeRepos |-> "list"] /\ nudgeRelease' = nudgeRelease /\ nudged' = nudged
    BY <1>5 DEF StartNudge
  <2>2. QED BY <1>1, <1>2, <1>4, <2>1 DEF NudgeTypeOK, WorksOnRelease
<1>6. ASSUME NEW r \in NudgeRepos, LatestRelease(r)
      PROVE  NudgeInv'
  <2>1. nudged' = nudged
    BY <1>6 DEF LatestRelease
  <2>2. CASE nudgePc' = [q \in NudgeRepos |-> "idle"] /\ nudgeRelease' = [q \in NudgeRepos |-> 0]
    BY <1>1, <1>2, <1>4, <2>1, <2>2, NudgeAssumption DEF NudgeTypeOK, WorksOnRelease
  <2>3. CASE EndNudge(r, "list")
    BY <1>1, <1>2, <1>3, <1>4, <2>1, <2>3, NudgeAssumption
    DEF EndNudge, GotoNudge, NudgeTypeOK, WorksOnRelease
  <2>4. CASE /\ GotoNudge(r, "list", "count") /\ latest[r] # 0
             /\ nudgeRelease' = [nudgeRelease EXCEPT ![r] = latest[r]]
    <3>1. latest[r] \in 1..latest[r] /\ latest[r] \in 0..MaxReleases
      BY <1>2, <2>4, NudgeAssumption DEF NudgeTypeOK
    <3>2. NudgeTypeOK'
      BY <1>1, <1>2, <2>1, <2>4, <3>1 DEF GotoNudge, NudgeTypeOK
    <3>3. WorksOnRelease'
      BY <1>1, <1>2, <1>3, <2>4, <3>1 DEF GotoNudge, NudgeTypeOK, WorksOnRelease
    <3>4. QED BY <1>4, <2>1, <3>2, <3>3
  <2>5. QED BY <1>6, <2>2, <2>3, <2>4 DEF LatestRelease
<1>7. ASSUME NEW r \in NudgeRepos, CommitsSinceRelease(r) \/ getReleaseNudgeIssue(r)
      PROVE  NudgeInv'
  <2>1. nudged' = nudged
    BY <1>7 DEF CommitsSinceRelease, getReleaseNudgeIssue
  <2>2. CASE EndNudge(r, "count") \/ EndNudge(r, "search")
    <3>1. /\ nudgePc' = [nudgePc EXCEPT ![r] = "idle"]
          /\ nudgeRelease' = [nudgeRelease EXCEPT ![r] = 0]
      BY <2>2 DEF EndNudge, GotoNudge
    <3>2. NudgeTypeOK'
      BY <1>1, <1>2, <2>1, <3>1, NudgeAssumption DEF NudgeTypeOK
    <3>3. WorksOnRelease'
      BY <1>1, <1>2, <1>3, <3>1 DEF NudgeTypeOK, WorksOnRelease
    <3>4. QED BY <1>4, <2>1, <3>2, <3>3
  <2>3. CASE GotoNudge(r, "count", "search") /\ Due(r, nudgeRelease[r]) /\ nudgeRelease' = nudgeRelease
    BY <1>1, <1>2, <1>3, <1>4, <2>1, <2>3 DEF GotoNudge, NudgeTypeOK, WorksOnRelease
  <2>4. CASE GotoNudge(r, "search", "create") /\ nudgeRelease' = nudgeRelease
    BY <1>1, <1>2, <1>3, <1>4, <2>1, <2>4 DEF GotoNudge, NudgeTypeOK, WorksOnRelease
  <2>5. QED BY <1>7, <2>2, <2>3, <2>4 DEF CommitsSinceRelease, getReleaseNudgeIssue
<1>8. ASSUME NEW r \in NudgeRepos, fileIssue(r)
      PROVE  NudgeInv'
  <2>1. /\ nudgePc[r] = "create" /\ nudgePc' = [nudgePc EXCEPT ![r] = "idle"]
        /\ nudgeRelease' = [nudgeRelease EXCEPT ![r] = 0]
        /\ nudged' \in {nudged, nudged \cup {<<r, nudgeRelease[r]>>}}
    BY <1>8 DEF fileIssue, EndNudge, GotoNudge
  <2>2. nudgeRelease[r] \in 1..latest[r] /\ Due(r, nudgeRelease[r])
    BY <1>2, <2>1 DEF WorksOnRelease
  <2>3. nudgeRelease[r] \in Releases
    BY <1>2, <2>2, NudgeAssumption DEF NudgeTypeOK, Releases
  <2>4. NudgeTypeOK'
    BY <1>1, <1>2, <2>1, <2>3, NudgeAssumption DEF NudgeTypeOK
  <2>5. WorksOnRelease'
    BY <1>1, <1>2, <1>3, <2>1 DEF NudgeTypeOK, WorksOnRelease
  <2>6. NudgedWasDue'
    BY <1>1, <1>2, <1>3, <2>1, <2>2 DEF NudgedWasDue
  <2>7. QED BY <1>3, <2>4, <2>5, <2>6 DEF NudgeInv
<1>9. QED BY <1>5, <1>6, <1>7, <1>8 DEF NudgeStep

LEMMA NudgeNextInv == NudgeInv /\ [NudgeNext]_nudgeVars => NudgeInv'
<1>1. NudgeInv /\ NudgeNext => NudgeInv'
  BY NudgeStepInv, RepositoryInv DEF NudgeNext
<1>2. NudgeInv /\ UNCHANGED nudgeVars => NudgeInv'
  BY DEF nudgeVars, NudgeInv, NudgeTypeOK, AgedAreOut, WorksOnRelease, NudgedWasDue, Due
<1>3. QED BY <1>1, <1>2

\* Type correctness and what makes it inductive: what was due when it was looked at
\* is due for good.
THEOREM NudgeInvariance == NudgeSpec => []NudgeInv
BY NudgeInitInv, NudgeNextInv, PTL DEF NudgeSpec

\* A nudge is about a release that was out and due, for any number of repositories
\* and releases (cmd/nudge-maintainers-to-release/main.go:97-119).
THEOREM NudgesAreDue == NudgeSpec => []NudgedWasDue
<1>1. NudgeInv => NudgedWasDue
  BY DEF NudgeInv
<1>2. QED BY <1>1, NudgeInvariance, PTL

-----------------------------------------------------------------------------
(***************************************************************************)
(* Outdated dependencies                                                   *)
(***************************************************************************)
LEMMA DepInitInv == DepInit => DepInv
<1>1. NoGem \in Gems
  BY DepAssumption DEF NoGem
<1>2. QED
  BY <1>1, DepAssumption
  DEF DepInit, DepInv, DepTypeOK, ReadWereConstraints, FoundAreLate, FiledWasOutdated,
      NoDeps, Versions

\* Runs go on with what they know while RubyGems and the repository change.
LEMMA RubyGemsInv ==
  ASSUME DepInv, NEW g \in Gems, ReleaseGem(g) \/ EditConstraint(g)
  PROVE  DepInv'
<1>1. UNCHANGED <<filed, checkPc, deps, unchecked, outdated, gem, known>>
  BY DEF ReleaseGem, EditConstraint, depJob
<1>2. \A h \in Gems : newest[h] <= newest'[h] /\ newest'[h] \in 1..MaxGem /\ newest[h] \in 1..MaxGem
  <2>1. MaxGem \in Nat /\ newest \in [Gems -> 1..MaxGem]
    BY DepAssumption DEF DepInv, DepTypeOK
  <2>2. newest' = newest \/ (newest[g] < MaxGem /\ newest' = [newest EXCEPT ![g] = newest[g] + 1])
    BY DEF ReleaseGem, EditConstraint
  <2>3. QED BY <2>1, <2>2
<1>3. \A h \in Gems : constrained[h] \subseteq constrained'[h]
  BY DEF ReleaseGem, EditConstraint, DepInv, DepTypeOK
<1>4. DepTypeOK' /\ \A h \in Gems : {gemspec'[h], gemfile'[h]} \subseteq constrained'[h]
  <2>1. CASE ReleaseGem(g)
    BY <1>1, <2>1, DepAssumption DEF ReleaseGem, DepInv, DepTypeOK, ReadWereConstraints
  <2>2. CASE EditConstraint(g)
    <3>1. PICK k \in 0..newest[g] :
            /\ \/ gemspec' = [gemspec EXCEPT ![g] = k] /\ UNCHANGED gemfile
               \/ gemfile' = [gemfile EXCEPT ![g] = k] /\ UNCHANGED gemspec
            /\ constrained' = [constrained EXCEPT ![g] = constrained[g] \cup {k}]
      BY <2>2 DEF EditConstraint, DepInv, DepTypeOK
    <3>2. k \in Versions /\ newest' = newest
      BY <1>2, <2>2, DepAssumption DEF EditConstraint, Versions
    <3>3. constrained' \in [Gems -> SUBSET Versions]
      BY <3>1, <3>2 DEF DepInv, DepTypeOK
    <3>4. /\ gemspec' \in [Gems -> Versions]
          /\ gemfile' \in [Gems -> Versions]
      <4>1. /\ [gemspec EXCEPT ![g] = k] \in [Gems -> Versions] /\ gemspec \in [Gems -> Versions]
            /\ [gemfile EXCEPT ![g] = k] \in [Gems -> Versions] /\ gemfile \in [Gems -> Versions]
        BY <3>2 DEF DepInv, DepTypeOK
      <4>2. QED BY <3>1, <4>1
    <3>5. \A h \in Gems : {gemspec'[h], gemfile'[h]} \subseteq constrained'[h]
      BY <3>1 DEF DepInv, DepTypeOK, ReadWereConstraints
    <3>6. QED BY <1>1, <3>2, <3>3, <3>4, <3>5 DEF DepInv, DepTypeOK
  <2>3. QED BY <2>1, <2>2
<1>5. ReadWereConstraints'
  BY <1>1, <1>3, <1>4 DEF DepInv, DepTypeOK, ReadWereConstraints
<1>6. \A c \in Checkers, h \in Gems : IsLate(c, h) => IsLate(c, h)'
  BY <1>1, <1>2, DepAssumption DEF IsLate
<1>7. FoundAreLate'
  BY <1>1, <1>6 DEF DepInv, DepTypeOK, FoundAreLate
<1>8. FiledWasOutdated'
  BY <1>1, <1>2, <1>3, DepAssumption DEF DepInv, DepTypeOK, FiledWasOutdated
<1>9. QED BY <1>4, <1>5, <1>7, <1>8 DEF DepInv

\* A run that ends leaves nothing behind that could be wrong.
LEMMA RunEnds ==
  ASSUME DepInv, NEW c \in Checkers, UNCHANGED <<gemspec, gemfile, newest, constrained, unchecked>>,
         filed' \subseteq Gems \X Versions, FiledWasOutdated',
         checkPc' = [checkPc EXCEPT ![c] = "idle"],
         deps' = [deps EXCEPT ![c] = NoDeps], known' = [known EXCEPT ![c] = NoDeps],
         outdated' = [outdated EXCEPT ![c] = {}], gem' = [gem EXCEPT ![c] = NoGem]
  PROVE  DepInv'
<1>1. NoGem \in Gems /\ NoDeps \in [Gems -> Versions] /\ \A g \in Gems : NoDeps[g] = 0
  BY DepAssumption DEF NoGem, NoDeps, Versions
<1>2. DepTypeOK'
  BY <1>1 DEF DepInv, DepTypeOK
<1>3. ReadWereConstraints'
  BY <1>1 DEF DepInv, DepTypeOK, ReadWereConstraints
<1>4. FoundAreLate'
  BY DEF DepInv, DepTypeOK, FoundAreLate, IsLate
<1>5. QED BY <1>2, <1>3, <1>4 DEF DepInv

\* What a run does before it has something to compare.
LEMMA ReadInv ==
  ASSUME DepInv, NEW c \in Checkers, StartCheck(c) \/ ReadGemspec(c) \/ ReadGemfile(c)
  PROVE  DepInv'
<1>1. UNCHANGED <<gemspec, gemfile, newest, constrained, filed, gem, known>>
  BY DEF StartCheck, ReadGemspec, ReadGemfile, depEnv
<1>2. \A g \in Gems : {gemspec[g], gemfile[g], 0} \subseteq constrained[g] \cup {0}
  BY DEF DepInv, ReadWereConstraints
<1>3. \/ UNCHANGED deps
      \/ \E file \in {gemspec, gemfile, NoDeps} :
           deps' = [deps EXCEPT ![c] = Constraint(deps[c], file)]
  BY DEF StartCheck, ReadGemspec, ReadGemfile, ReadFile, DepInv, DepTypeOK
<1>4. deps' \in [Checkers -> [Gems -> Versions]]
      /\ \A d \in Checkers, g \in Gems : deps'[d][g] \in constrained[g] \cup {0}
  <2>1. CASE UNCHANGED deps
    BY <2>1 DEF DepInv, DepTypeOK, ReadWereConstraints
  <2>2. ASSUME NEW file \in {gemspec, gemfile, NoDeps},
               deps' = [deps EXCEPT ![c] = Constraint(deps[c], file)]
        PROVE  /\ deps' \in [Checkers -> [Gems -> Versions]]
               /\ \A d \in Checkers, g \in Gems : deps'[d][g] \in constrained[g] \cup {0}
    <3>1. file \in [Gems -> Versions] /\ \A g \in Gems : file[g] \in constrained[g] \cup {0}
      BY <1>2, DepAssumption DEF NoDeps, Versions, DepInv, DepTypeOK
    <3>2. Constraint(deps[c], file) \in [Gems -> Versions]
          /\ \A g \in Gems : Constraint(deps[c], file)[g] \in constrained[g] \cup {0}
      BY <3>1 DEF Constraint, DepInv, DepTypeOK, ReadWereConstraints
    <3>3. QED BY <2>2, <3>2 DEF DepInv, DepTypeOK, ReadWereConstraints
  <2>3. QED BY <1>3, <2>1, <2>2
<1>5. \A d \in Checkers, g \in Gems : deps'[d][g] \in constrained[g] \cup {0}
  BY <1>4
<1>6. \A d \in Checkers \ {c} : deps'[d] = deps[d]
  BY <1>3 DEF DepInv, DepTypeOK
<1>7. \/ UNCHANGED <<unchecked, outdated>> /\ \E to \in {"gemspec", "gemfile"} :
                                             checkPc' = [checkPc EXCEPT ![c] = to]
      \/ /\ unchecked' = [unchecked EXCEPT ![c] = {g \in Gems : deps'[c][g] # 0}]
         /\ outdated' = [outdated EXCEPT ![c] = {}]
         /\ checkPc' = [checkPc EXCEPT ![c] = "compare"]
  BY DEF StartCheck, ReadGemspec, ReadGemfile, GotoCheck
<1>8. DepTypeOK'
  <2>1. checkPc' \in [Checkers -> {"idle", "gemspec", "gemfile", "compare", "file", "create"}]
    BY <1>7 DEF DepInv, DepTypeOK
  <2>2. /\ unchecked' \in [Checkers -> SUBSET Gems]
        /\ outdated' \in [Checkers -> SUBSET Gems]
    <3>1. {g \in Gems : deps'[c][g] # 0} \in SUBSET Gems
      OBVIOUS
    <3>2. unchecked' \in [Checkers -> SUBSET Gems]
      BY <1>7, <3>1 DEF DepInv, DepTypeOK
    <3>3. outdated' \in [Checkers -> SUBSET Gems]
      BY <1>7 DEF DepInv, DepTypeOK
    <3>4. QED BY <3>2, <3>3
  <2>3. QED BY <1>1, <1>4, <2>1, <2>2 DEF DepInv, DepTypeOK
<1>9. ReadWereConstraints'
  <2>1. \A d \in Checkers : checkPc'[d] = "compare" => \A g \in unchecked'[d] : deps'[d][g] # 0
    BY <1>6, <1>7 DEF DepInv, DepTypeOK, ReadWereConstraints
  <2>2. QED BY <1>1, <1>5, <2>1 DEF DepInv, ReadWereConstraints
<1>10. FoundAreLate'
  BY <1>1, <1>6, <1>7 DEF DepInv, DepTypeOK, FoundAreLate, IsLate
<1>11. FiledWasOutdated'
  BY <1>1 DEF DepInv, FiledWasOutdated
<1>12. QED BY <1>8, <1>9, <1>10, <1>11 DEF DepInv

LEMMA IsOutdatedInv ==
  ASSUME DepInv, NEW c \in Checkers, IsOutdated(c)
  PROVE  DepInv'
<1>1. UNCHANGED <<gemspec, gemfile, newest, constrained, filed, checkPc, deps, gem>>
      /\ checkPc[c] = "compare"
  BY DEF IsOutdated, depEnv
<1>2. PICK g \in unchecked[c] :
        /\ unchecked' = [unchecked EXCEPT ![c] = unchecked[c] \ {g}]
        /\ \/ UNCHANGED <<known, outdated>>
           \/ /\ known' = [known EXCEPT ![c] = [known[c] EXCEPT ![g] = newest[g]]]
              /\ outdated' = [outdated EXCEPT ![c] =
                                IF deps[c][g] < newest[g] THEN outdated[c] \cup {g} ELSE outdated[c]]
  <2>1. \A g \in Gems : Allows(deps[c][g], newest[g]) <=> ~(deps[c][g] < newest[g])
    BY DepAssumption DEF Allows, DepInv, DepTypeOK, Versions
  <2>2. QED BY <2>1 DEF IsOutdated, DepInv, DepTypeOK
<1>3. g \in Gems /\ deps[c][g] # 0 /\ newest[g] \in 1..newest[g] /\ newest[g] \in 1..MaxGem
      /\ newest[g] \in Versions
  BY <1>1, DepAssumption DEF DepInv, DepTypeOK, ReadWereConstraints, Versions
<1>4. DepTypeOK'
  <2>1. unchecked' \in [Checkers -> SUBSET Gems]
    BY <1>2 DEF DepInv, DepTypeOK
  <2>2. outdated' \in [Checkers -> SUBSET Gems]
    BY <1>2, <1>3 DEF DepInv, DepTypeOK
  <2>3. known' \in [Checkers -> [Gems -> Versions]]
    <3>1. known[c] \in [Gems -> Versions] /\ known \in [Checkers -> [Gems -> Versions]]
      BY DEF DepInv, DepTypeOK
    <3>2. [known[c] EXCEPT ![g] = newest[g]] \in [Gems -> Versions]
      BY <1>3, <3>1
    <3>3. QED BY <1>2, <3>1, <3>2
  <2>4. QED BY <1>1, <2>1, <2>2, <2>3 DEF DepInv, DepTypeOK
<1>5. ReadWereConstraints'
  BY <1>1, <1>2 DEF DepInv, DepTypeOK, ReadWereConstraints
<1>6. \A h \in outdated'[c] : IsLate(c, h)'
  <2>1. \A h \in outdated[c] : h \in Gems /\ IsLate(c, h)
    BY <1>1 DEF DepInv, DepTypeOK, FoundAreLate
  <2>2. CASE UNCHANGED <<known, outdated>>
    BY <1>1, <2>1, <2>2 DEF IsLate
  <2>3. CASE ~UNCHANGED <<known, outdated>>
    <3>1. \A h \in Gems \ {g} : known'[c][h] = known[c][h]
      BY <1>2, <1>3, <2>3 DEF DepInv, DepTypeOK
    <3>2. known'[c][g] = newest[g]
      BY <1>2, <1>3, <2>3 DEF DepInv, DepTypeOK
    <3>3. \A h \in outdated'[c] : h \in outdated[c] \/ (h = g /\ deps[c][g] < newest[g])
      BY <1>2, <2>3 DEF DepInv, DepTypeOK
    <3>4. g \in outdated[c] => deps[c][g] < newest[g]
      BY <1>3, <2>1, DepAssumption DEF IsLate, DepInv, DepTypeOK, Versions
    <3>5. QED BY <1>1, <1>3, <2>1, <3>1, <3>2, <3>3, <3>4 DEF IsLate
  <2>4. QED BY <2>2, <2>3
<1>7. \A d \in Checkers \ {c} : known'[d] = known[d] /\ outdated'[d] = outdated[d]
  BY <1>2 DEF DepInv, DepTypeOK
<1>8. FoundAreLate'
  BY <1>1, <1>6, <1>7 DEF DepInv, FoundAreLate, IsLate
<1>9. FiledWasOutdated'
  BY <1>1 DEF DepInv, FiledWasOutdated
<1>10. QED BY <1>4, <1>5, <1>8, <1>9 DEF DepInv

\* A run ends, or goes on to the next dependency.
LEMMA CheckGoesOnInv ==
  ASSUME DepInv, NEW c \in Checkers, AllCompared(c) \/ SearchUpdateIssue(c) \/ AllFiled(c)
  PROVE  DepInv'
<1>1. UNCHANGED <<gemspec, gemfile, newest, constrained, filed, unchecked>>
  BY DEF AllCompared, SearchUpdateIssue, AllFiled, depEnv
<1>2. CASE AllCompared(c)
  <2>1. UNCHANGED <<deps, outdated, gem, known>> /\ checkPc[c] = "compare"
        /\ checkPc' = [checkPc EXCEPT ![c] = "file"]
    BY <1>2 DEF AllCompared, GotoCheck
  <2>2. QED BY <1>1, <2>1
        DEF DepInv, DepTypeOK, ReadWereConstraints, FoundAreLate, IsLate, FiledWasOutdated
<1>3. CASE AllFiled(c)
  <2>1. /\ checkPc' = [checkPc EXCEPT ![c] = "idle"]
        /\ deps' = [deps EXCEPT ![c] = NoDeps] /\ known' = [known EXCEPT ![c] = NoDeps]
        /\ outdated' = [outdated EXCEPT ![c] = {}] /\ gem' = [gem EXCEPT ![c] = NoGem]
    BY <1>3 DEF AllFiled, EndCheck, GotoCheck
  <2>2. filed' \subseteq Gems \X Versions /\ FiledWasOutdated'
    BY <1>1 DEF DepInv, DepTypeOK, FiledWasOutdated
  <2>3. QED BY <1>1, <2>1, <2>2, RunEnds
<1>4. CASE SearchUpdateIssue(c)
  <2>1. UNCHANGED <<deps, known>>
    BY <1>4 DEF SearchUpdateIssue
  <2>2. PICK g \in outdated[c] :
          /\ checkPc[c] = "file"
          /\ outdated' = [outdated EXCEPT ![c] = outdated[c] \ {g}]
          /\ gem' = [gem EXCEPT ![c] = g]
          /\ \E to \in {"file", "create"} : checkPc' = [checkPc EXCEPT ![c] = to]
    BY <1>4 DEF SearchUpdateIssue, GotoCheck, DepInv, DepTypeOK
  <2>3. g \in Gems /\ IsLate(c, g)
    BY <2>2 DEF DepInv, DepTypeOK, FoundAreLate
  <2>4. DepTypeOK'
    BY <1>1, <2>1, <2>2, <2>3 DEF DepInv, DepTypeOK
  <2>5. ReadWereConstraints' /\ FiledWasOutdated'
    BY <1>1, <2>1, <2>2 DEF DepInv, DepTypeOK, ReadWereConstraints, FiledWasOutdated
  <2>6. FoundAreLate'
    BY <1>1, <2>1, <2>2, <2>3 DEF DepInv, DepTypeOK, FoundAreLate, IsLate
  <2>7. QED BY <2>4, <2>5, <2>6 DEF DepInv
<1>5. QED BY <1>2, <1>3, <1>4

LEMMA FileUpdateIssueInv ==
  ASSUME DepInv, NEW c \in Checkers, FileUpdateIssue(c)
  PROVE  DepInv'
<1>1. UNCHANGED <<gemspec, gemfile, newest, constrained, unchecked>> /\ checkPc[c] = "create"
      /\ filed' \in {filed, filed \cup {<<gem[c], known[c][gem[c]]>>}}
  BY DEF FileUpdateIssue, depEnv
<1>2. gem[c] \in Gems /\ IsLate(c, gem[c]) /\ known[c][gem[c]] \in Versions
      /\ deps[c][gem[c]] \in constrained[gem[c]]
  BY <1>1 DEF DepInv, DepTypeOK, FoundAreLate, ReadWereConstraints, IsLate
<1>3. filed' \subseteq Gems \X Versions
  BY <1>1, <1>2 DEF DepInv, DepTypeOK
<1>4. FiledWasOutdated'
  BY <1>1, <1>2 DEF DepInv, DepTypeOK, FiledWasOutdated, IsLate
<1>5. \/ UNCHANGED <<deps, known, outdated, gem>> /\ checkPc' = [checkPc EXCEPT ![c] = "file"]
      \/ /\ checkPc' = [checkPc EXCEPT ![c] = "idle"]
         /\ deps' = [deps EXCEPT ![c] = NoDeps] /\ known' = [known EXCEPT ![c] = NoDeps]
         /\ outdated' = [outdated EXCEPT ![c] = {}] /\ gem' = [gem EXCEPT ![c] = NoGem]
  BY DEF FileUpdateIssue, EndCheck, GotoCheck
<1>6. CASE UNCHANGED <<deps, known, outdated, gem>> /\ checkPc' = [checkPc EXCEPT ![c] = "file"]
  <2>1. DepTypeOK'
    BY <1>1, <1>3, <1>6 DEF DepInv, DepTypeOK
  <2>2. ReadWereConstraints' /\ FoundAreLate'
    BY <1>1, <1>6 DEF DepInv, DepTypeOK, ReadWereConstraints, FoundAreLate, IsLate
  <2>3. QED BY <1>4, <2>1, <2>2 DEF DepInv
<1>7. QED BY <1>1, <1>3, <1>4, <1>5, <1>6, RunEnds

LEMMA DepNextInv == DepInv /\ [DepNext]_depVars => DepInv'
<1>1. DepInv /\ DepNext => DepInv'
  BY RubyGemsInv, ReadInv, IsOutdatedInv, CheckGoesOnInv, FileUpdateIssueInv DEF DepNext, Check
<1>2. DepInv /\ UNCHANGED depVars => DepInv'
  BY DEF depVars, depEnv, depJob, DepInv, DepTypeOK, ReadWereConstraints, FoundAreLate, IsLate,
         FiledWasOutdated
<1>3. QED BY <1>1, <1>2

\* Type correctness and what makes it inductive: what a run works with was a
\* constraint of the repository, and a higher version of RubyGems.
THEOREM DepInvariance == DepSpec => []DepInv
BY DepInitInv, DepNextInv, PTL DEF DepSpec

\* Issues are filed for dependencies that were outdated, whatever number of runs,
\* gems and versions there is (dependencies.go:96-99, ruby_dependency.go:53-66).
THEOREM FiledAreOutdated == DepSpec => []FiledWasOutdated
<1>1. DepInv => FiledWasOutdated
  BY DEF DepInv
<1>2. QED BY <1>1, DepInvariance, PTL

-----------------------------------------------------------------------------
(***************************************************************************)
(* Ancient issues                                                          *)
(***************************************************************************)
LEMMA FreezeInitInv == FreezeInit => FreezeInv
<1>1. <<>> \in Seq(OldIssues) /\ DOMAIN <<>> = {}
  OBVIOUS
<1>2. QED
  BY <1>1
  DEF FreezeInit, FreezeInv, FreezeTypeOK, FoundWereAncient, LabelledAfterLock, FrozenWereAncient

\* A page of the search's answer is a sequence of issues that match.
LEMMA PageOfMatching ==
  ASSUME FreezeTypeOK, NEW p \in Nat, NEW page \in Ascending(OnPage(p))
  PROVE  page \in Seq(OldIssues) /\ \A k \in DOMAIN page : page[k] \in matching
<1>1. OnPage(p) \subseteq matching /\ matching \subseteq OldIssues
  BY DEF OnPage, FreezeTypeOK
<1>2. IsFiniteSet(OldIssues)
  BY FS_Interval, FreezeAssumption DEF OldIssues
<1>3. Cardinality(OnPage(p)) \in Nat
  BY <1>1, <1>2, FS_Subset, FS_CardinalityType
<1>4. page \in [1..Cardinality(OnPage(p)) -> OnPage(p)]
  BY DEF Ascending
<1>5. QED BY <1>1, <1>3, <1>4

\* What people, time and the search index do.
LEMMA OldIssuesInv ==
  ASSUME FreezeInv, Year \/ FreezeIndex \/ \E i \in OldIssues : Act(i)
  PROVE  FreezeInv'
<1>1. UNCHANGED freezeRuns /\ wasAncient \subseteq wasAncient' /\ frozen' = frozen
  BY DEF Year, FreezeIndex, Reindex, Act
<1>2. FreezeTypeOK'
  BY <1>1 DEF FreezeInv, FreezeTypeOK, Year, FreezeIndex, Reindex, Act, freezeRuns
<1>3. closed' \cap ancient' \subseteq wasAncient'
  BY DEF FreezeInv, FreezeTypeOK, FoundWereAncient, Year, FreezeIndex, Reindex, Act
<1>4. matching' \subseteq wasAncient'
  BY DEF FreezeInv, FreezeTypeOK, FoundWereAncient, Year, FreezeIndex, Reindex, Act, Matches
<1>5. FoundWereAncient'
  BY <1>1, <1>3, <1>4 DEF FreezeInv, FoundWereAncient, freezeRuns
<1>6. locked \cup freed \subseteq locked' \cup freed' /\ locked' \subseteq locked
  BY DEF Year, FreezeIndex, Reindex, Act
<1>7. LabelledAfterLock'
  BY <1>1, <1>6 DEF FreezeInv, LabelledAfterLock, freezeRuns
<1>8. FrozenWereAncient'
  BY <1>1, <1>6 DEF FreezeInv, FrozenWereAncient
<1>9. QED BY <1>2, <1>5, <1>7, <1>8 DEF FreezeInv

\* A run that starts, ends or lists.
LEMMA ListInv ==
  ASSUME FreezeInv, NEW f \in Freezers, StartFreeze(f) \/ AllTooOldIssues(f) \/ AllFrozen(f)
  PROVE  FreezeInv'
<1>1. UNCHANGED freezeIssues
  BY DEF StartFreeze, AllTooOldIssues, AllFrozen
<1>2. \E to \in {"list", "lock", "idle"} : freezePc' = [freezePc EXCEPT ![f] = to]
  BY DEF StartFreeze, AllTooOldIssues, AllFrozen, GotoFreeze
<1>3. freezePage' \in [Freezers -> Nat]
  BY DEF StartFreeze, AllTooOldIssues, AllFrozen, FreezeInv, FreezeTypeOK
<1>4. \E page \in Seq(OldIssues) :
        /\ \A k \in DOMAIN page : page[k] \in wasAncient
        /\ tooOld' \in {tooOld, [tooOld EXCEPT ![f] = <<>>], [tooOld EXCEPT ![f] = tooOld[f] \o page]}
  <2>1. <<>> \in Seq(OldIssues) /\ DOMAIN <<>> = {}
    OBVIOUS
  <2>2. CASE tooOld' \in {tooOld, [tooOld EXCEPT ![f] = <<>>]}
    BY <2>1, <2>2
  <2>3. CASE \E page \in Ascending(OnPage(freezePage[f])) :
               tooOld' = [tooOld EXCEPT ![f] = tooOld[f] \o page]
    BY <2>3, PageOfMatching DEF FreezeInv, FreezeTypeOK, FoundWereAncient
  <2>4. QED BY <2>2, <2>3 DEF StartFreeze, AllTooOldIssues, AllFrozen, FreezeInv, FreezeTypeOK
<1>5. tooOld' \in [Freezers -> Seq(OldIssues)]
      /\ \A g \in Freezers : \A k \in DOMAIN tooOld'[g] : tooOld'[g][k] \in wasAncient
  <2>1. PICK page \in Seq(OldIssues) :
          /\ \A k \in DOMAIN page : page[k] \in wasAncient
          /\ tooOld' \in {tooOld, [tooOld EXCEPT ![f] = <<>>], [tooOld EXCEPT ![f] = tooOld[f] \o page]}
    BY <1>4
  <2>2. tooOld[f] \in Seq(OldIssues) /\ \A k \in DOMAIN tooOld[f] : tooOld[f][k] \in wasAncient
    BY DEF FreezeInv, FreezeTypeOK, FoundWereAncient
  <2>3. tooOld[f] \o page \in Seq(OldIssues)
        /\ \A k \in DOMAIN (tooOld[f] \o page) : (tooOld[f] \o page)[k] \in wasAncient
    <3>1. /\ tooOld[f] \o page \in Seq(OldIssues)
          /\ Len(tooOld[f] \o page) = Len(tooOld[f]) + Len(page)
          /\ \A k \in 1 .. Len(tooOld[f]) + Len(page) :
               (tooOld[f] \o page)[k] = IF k <= Len(tooOld[f]) THEN tooOld[f][k]
                                        ELSE page[k - Len(tooOld[f])]
      BY <2>1, <2>2, ConcatProperties
    <3>2. DOMAIN (tooOld[f] \o page) = 1 .. Len(tooOld[f]) + Len(page)
      BY <3>1
    <3>3. ASSUME NEW k \in 1 .. Len(tooOld[f]) + Len(page)
          PROVE  (tooOld[f] \o page)[k] \in wasAncient
      <4>1. CASE k <= Len(tooOld[f])
        BY <2>2, <3>1, <4>1
      <4>2. CASE ~(k <= Len(tooOld[f]))
        <5>1. k - Len(tooOld[f]) \in DOMAIN page
          BY <2>1, <2>2, <4>2
        <5>2. QED BY <2>1, <3>1, <4>2, <5>1
      <4>3. QED BY <4>1, <4>2
    <3>4. QED BY <3>1, <3>2, <3>3
  <2>4. <<>> \in Seq(OldIssues) /\ DOMAIN <<>> = {}
    OBVIOUS
  <2>5. CASE tooOld' = tooOld
    BY <2>5 DEF FreezeInv, FreezeTypeOK, FoundWereAncient
  <2>6. CASE tooOld' = [tooOld EXCEPT ![f] = <<>>]
    BY <2>4, <2>6 DEF FreezeInv, FreezeTypeOK, FoundWereAncient
  <2>7. CASE tooOld' = [tooOld EXCEPT ![f] = tooOld[f] \o page]
    <3>1. DEFINE longer == tooOld[f] \o page
    <3>2. longer \in Seq(OldIssues) /\ \A k \in DOMAIN longer : longer[k] \in wasAncient
      BY <2>3
    <3>3. tooOld' = [tooOld EXCEPT ![f] = longer]
      BY <2>7
    <3>4. HIDE DEF longer
    <3>5. QED BY <3>2, <3>3 DEF FreezeInv, FreezeTypeOK, FoundWereAncient
  <2>8. QED BY <2>1, <2>5, <2>6, <2>7
<1>6. \A g \in Freezers : freezePc'[g] = "label" => g # f /\ freezePc[g] = "label"
  BY <1>2 DEF FreezeInv, FreezeTypeOK
<1>7. \A g \in Freezers \ {f} : tooOld'[g] = tooOld[g]
  BY <1>4 DEF FreezeInv, FreezeTypeOK
<1>8. FreezeTypeOK'
  BY <1>1, <1>2, <1>3, <1>5 DEF FreezeInv, FreezeTypeOK, freezeIssues
<1>9. FoundWereAncient'
  BY <1>1, <1>5 DEF FreezeInv, FoundWereAncient, freezeIssues
<1>10. LabelledAfterLock' /\ FrozenWereAncient'
  BY <1>1, <1>6, <1>7 DEF FreezeInv, LabelledAfterLock, FrozenWereAncient, freezeIssues
<1>11. QED BY <1>8, <1>9, <1>10 DEF FreezeInv

LEMMA LockIssueInv ==
  ASSUME FreezeInv, NEW f \in Freezers, LockIssue(f)
  PROVE  FreezeInv'
<1>1. UNCHANGED <<closed, frozen, matching, wasAncient, freed, freezePage, tooOld>>
      /\ tooOld[f] # <<>>
  BY DEF LockIssue
<1>2. Head(tooOld[f]) \in OldIssues /\ Head(tooOld[f]) \in wasAncient
  <2>1. tooOld[f] \in Seq(OldIssues) /\ 1 \in DOMAIN tooOld[f] /\ Head(tooOld[f]) = tooOld[f][1]
    BY <1>1 DEF FreezeInv, FreezeTypeOK
  <2>2. QED BY <2>1 DEF FreezeInv, FoundWereAncient
<1>3. locked' \in {locked, locked \cup {Head(tooOld[f])}} /\ ancient' \subseteq ancient
  BY DEF LockIssue, Touch
<1>4. /\ freezePc' \in {[freezePc EXCEPT ![f] = "label"], [freezePc EXCEPT ![f] = "idle"]}
      /\ freezePc' = [freezePc EXCEPT ![f] = "label"] => Head(tooOld[f]) \in locked'
  BY DEF LockIssue, GotoFreeze, FreezeInv, FreezeTypeOK
<1>5. FreezeTypeOK'
  BY <1>1, <1>2, <1>3, <1>4 DEF FreezeInv, FreezeTypeOK
<1>6. FoundWereAncient' /\ FrozenWereAncient'
  BY <1>1, <1>2, <1>3 DEF FreezeInv, FoundWereAncient, FrozenWereAncient
<1>7. LabelledAfterLock'
  BY <1>1, <1>3, <1>4 DEF FreezeInv, FreezeTypeOK, LabelledAfterLock
<1>8. QED BY <1>5, <1>6, <1>7 DEF FreezeInv

LEMMA LabelIssueInv ==
  ASSUME FreezeInv, NEW f \in Freezers, LabelIssue(f)
  PROVE  FreezeInv'
<1>1. UNCHANGED <<closed, locked, matching, wasAncient, freed, freezePage>> /\ freezePc[f] = "label"
      /\ tooOld' = [tooOld EXCEPT ![f] = Tail(tooOld[f])]
  BY DEF LabelIssue
<1>2. tooOld[f] # <<>> /\ Head(tooOld[f]) \in locked \cup freed /\ tooOld[f] \in Seq(OldIssues)
  BY <1>1 DEF FreezeInv, FreezeTypeOK, LabelledAfterLock
<1>3. /\ Tail(tooOld[f]) \in Seq(OldIssues)
      /\ \A k \in DOMAIN Tail(tooOld[f]) : Tail(tooOld[f])[k] \in wasAncient
  <2>1. /\ Tail(tooOld[f]) \in Seq(OldIssues) /\ Len(Tail(tooOld[f])) = Len(tooOld[f]) - 1
        /\ \A k \in 1..Len(Tail(tooOld[f])) : Tail(tooOld[f])[k] = tooOld[f][k + 1]
    BY <1>2, HeadTailProperties
  <2>2. ASSUME NEW k \in DOMAIN Tail(tooOld[f])
        PROVE  Tail(tooOld[f])[k] \in wasAncient
    <3>1. k \in 1..Len(Tail(tooOld[f])) /\ k + 1 \in DOMAIN tooOld[f]
      BY <1>2, <2>1
    <3>2. QED BY <2>1, <3>1 DEF FreezeInv, FoundWereAncient
  <2>3. QED BY <2>1, <2>2
<1>4. Head(tooOld[f]) \in OldIssues
  BY <1>2 DEF FreezeInv, FreezeTypeOK
<1>5. frozen' \in {frozen, frozen \cup {Head(tooOld[f])}} /\ ancient' \subseteq ancient
  BY DEF LabelIssue, Touch
<1>6. \E to \in {"lock", "idle"} : freezePc' = [freezePc EXCEPT ![f] = to]
  BY DEF LabelIssue, GotoFreeze
<1>7. tooOld' \in [Freezers -> Seq(OldIssues)]
      /\ \A g \in Freezers : \A k \in DOMAIN tooOld'[g] : tooOld'[g][k] \in wasAncient
  <2>1. DEFINE rest == Tail(tooOld[f])
  <2>2. rest \in Seq(OldIssues) /\ \A k \in DOMAIN rest : rest[k] \in wasAncient
    BY <1>3
  <2>3. tooOld' = [tooOld EXCEPT ![f] = rest]
    BY <1>1
  <2>4. HIDE DEF rest
  <2>5. QED BY <2>2, <2>3 DEF FreezeInv, FreezeTypeOK, FoundWereAncient
<1>8. FreezeTypeOK'
  BY <1>1, <1>4, <1>5, <1>6, <1>7 DEF FreezeInv, FreezeTypeOK
<1>9. FoundWereAncient'
  BY <1>1, <1>5, <1>7 DEF FreezeInv, FoundWereAncient
<1>10. FrozenWereAncient'
  BY <1>1, <1>2, <1>5 DEF FreezeInv, FrozenWereAncient
<1>11. LabelledAfterLock'
  BY <1>1, <1>6 DEF FreezeInv, FreezeTypeOK, LabelledAfterLock
<1>12. QED BY <1>8, <1>9, <1>10, <1>11 DEF FreezeInv

LEMMA FreezeNextInv == FreezeInv /\ [FreezeNext]_freezeVars => FreezeInv'
<1>1. FreezeInv /\ FreezeNext => FreezeInv'
  BY OldIssuesInv, ListInv, LockIssueInv, LabelIssueInv DEF FreezeNext, FreezeRun
<1>2. FreezeInv /\ UNCHANGED freezeVars => FreezeInv'
  BY DEF freezeVars, freezeIssues, freezeRuns, FreezeInv, FreezeTypeOK, FoundWereAncient,
         LabelledAfterLock, FrozenWereAncient
<1>3. QED BY <1>1, <1>2

\* Type correctness and what makes it inductive: the index and the lists of the runs
\* hold issues that were closed and ancient.
THEOREM FreezeInvariance == FreezeSpec => []FreezeInv
BY FreezeInitInv, FreezeNextInv, PTL DEF FreezeSpec

\* Only ancient issues are locked and only locked ones labelled, for any number of
\* issues, pages and overlapping runs (freeze.go:18, 50-57).
THEOREM OnlyAncientFreeze == FreezeSpec => []FrozenWereAncient
<1>1. FreezeInv => FrozenWereAncient
  BY DEF FreezeInv
<1>2. QED BY <1>1, FreezeInvariance, PTL

-----------------------------------------------------------------------------
(***************************************************************************)
(* The labels of the repositories                                          *)
(***************************************************************************)
NatLess == {p \in Nat \X Nat : p[1] < p[2]}

\* findLabel's loop ends at the first of the possible names that there is.
LEMMA LeastNat ==
  ASSUME NEW T \in SUBSET Nat, T # {}
  PROVE  \E x \in T : \A y \in T : x <= y
<1>1. IsWellFoundedOn(NatLess, Nat)
  BY NatLessThanWellFounded DEF OpToRel, NatLess
<1>2. PICK x \in T : \A y \in T : <<y, x>> \notin NatLess
  BY <1>1, WFMin
<1>3. \A y \in T : y \in Nat /\ x \in Nat /\ ~(y < x)
  BY <1>2 DEF NatLess
<1>4. QED BY <1>3

\* What the assumption says of one desired label.
LEMMA DesiredLabel ==
  ASSUME NEW i \in DOMAIN desiredLabels
  PROVE  /\ i \in Nat /\ i >= 1 /\ desiredLabels[i] \in LabelNames
         /\ desiredLabels[i] \in PossibleNames(desiredLabels[i])
         /\ PossibleNames(desiredLabels[i]) \subseteq LabelNames
         /\ DOMAIN allPossibleNames[desiredLabels[i]] \subseteq Nat
         /\ \A j \in DOMAIN desiredLabels \ {i} :
              PossibleNames(desiredLabels[i]) \cap PossibleNames(desiredLabels[j]) = {}
<1> DEFINE d == desiredLabels[i]
<1>1. /\ allPossibleNames[d] \in Seq(LabelNames) /\ d \in PossibleNames(d)
      /\ \A j \in DOMAIN desiredLabels \ {i} : PossibleNames(d) \cap PossibleNames(desiredLabels[j]) = {}
  BY UnifyAssumption
<1>2. i \in 1..Len(desiredLabels) /\ Len(desiredLabels) \in Nat /\ d \in LabelNames
  BY UnifyAssumption
<1>3. /\ DOMAIN allPossibleNames[d] \subseteq Nat
      /\ \A k \in DOMAIN allPossibleNames[d] : allPossibleNames[d][k] \in LabelNames
  BY <1>1
<1>4. PossibleNames(d) \subseteq LabelNames
  BY <1>3 DEF PossibleNames
<1>5. QED BY <1>1, <1>2, <1>3, <1>4

\* findLabel answers with a possible name that is on the page; without an answer,
\* none of them is.
LEMMA FoundLabel ==
  ASSUME NEW i \in DOMAIN desiredLabels, NEW labels
  PROVE  LET d == desiredLabels[i]
             found == findLabel(labels, d)
         IN \/ found \in PossibleNames(d) /\ found \in LabelNames /\ labels[found] # "none"
            \/ found = NoLabel
<1> DEFINE d == desiredLabels[i]
           possible == allPossibleNames[d]
           there == {k \in DOMAIN possible : labels[possible[k]] # "none"}
<1>1. CASE there = {}
  BY <1>1 DEF findLabel
<1>2. CASE there # {}
  <2>1. there \in SUBSET Nat
    BY DesiredLabel
  <2>2. PICK k \in there : \A j \in there : k <= j
    BY <1>2, <2>1, LeastNat
  <2>3. (CHOOSE m \in there : \A j \in there : m <= j) \in there
    BY <2>2
  <2>4. PICK m \in there : findLabel(labels, d) = possible[m]
    BY <1>2, <2>3 DEF findLabel
  <2>5. QED BY <2>4, DesiredLabel DEF PossibleNames
<1>3. QED BY <1>1, <1>2

LEMMA UnifyInitInv == UnifyInit => UnifyInv
<1>1. \A r \in 1..Len(UnifyRepos) :
        UnifyInit => labelsOf[r] \in [LabelNames -> Colours \cup {"none"}] /\ Distinct(labelsOf[r])
  BY UnifyAssumption DEF UnifyInit
<1>2. UnifyInit => labelsOf \in [1..Len(UnifyRepos) -> [LabelNames -> Colours \cup {"none"}]]
  BY <1>1 DEF UnifyInit
<1>3. 1 \in 1..Len(UnifyRepos) /\ 1 \in 1..Len(desiredLabels) + 1
  BY UnifyAssumption
<1>4. QED
  BY <1>1, <1>2, <1>3 DEF UnifyInit, UnifyInv, UnifyTypeOK, DealtWith, UnifiedWhenDone, NoLabels

\* People change the labels of a repository.
LEMMA EditLabelsInv ==
  ASSUME UnifyInv, NEW r \in 1..Len(UnifyRepos), EditLabels(r)
  PROVE  UnifyInv'
<1>1. UNCHANGED <<unifyRepo, unifyNext, listed>> /\ unified' = unified \ {r}
  BY DEF EditLabels
<1>2. PICK n \in LabelNames, c \in Colours \cup {"none"} : labelsOf' = [labelsOf EXCEPT ![r][n] = c]
  BY DEF EditLabels
<1>3. /\ labelsOf' \in [1..Len(UnifyRepos) -> [LabelNames -> Colours \cup {"none"}]]
      /\ \A q \in 1..Len(UnifyRepos) : q # r => labelsOf'[q] = labelsOf[q]
  BY <1>2 DEF UnifyInv, UnifyTypeOK
<1>4. \A q \in 1..Len(UnifyRepos) : Distinct(labelsOf'[q])
  BY <1>3 DEF EditLabels, UnifyInv, UnifyTypeOK
<1>5. unifyPc' = unifyPc \/ unifyPc' = "raced"
  BY DEF EditLabels
<1>6. UnifyTypeOK'
  BY <1>1, <1>3, <1>4, <1>5 DEF UnifyInv, UnifyTypeOK, Distinct, Names
<1>7. DealtWith'
  <2>1. unifyPc' = "labels" => unifyPc = "labels" /\ unifyRepo # r
    BY <1>5 DEF EditLabels
  <2>2. QED BY <1>1, <1>3, <2>1 DEF UnifyInv, UnifyTypeOK, DealtWith
<1>8. UnifiedWhenDone'
  BY <1>1, <1>3 DEF UnifyInv, UnifyTypeOK, UnifiedWhenDone, AsDesired
<1>9. QED BY <1>6, <1>7, <1>8 DEF UnifyInv

\* A run starts, or lists the labels of a repository.
LEMMA ListingInv ==
  ASSUME UnifyInv, StartUnify \/ ListLabels
  PROVE  UnifyInv'
<1>1. UNCHANGED <<labelsOf, labelEdits, unified>>
  BY DEF StartUnify, ListLabels
<1>2. UnifiedWhenDone'
  BY <1>1 DEF UnifyInv, UnifiedWhenDone, AsDesired
<1>3. CASE StartUnify
  <2>1. unifyPc' \in {"idle", "list"} /\ unifyRepo' \in {unifyRepo, 1} /\ UNCHANGED <<unifyNext, listed>>
    BY <1>3 DEF StartUnify
  <2>2. 1 \in 1..Len(UnifyRepos)
    BY UnifyAssumption
  <2>3. QED BY <1>1, <1>2, <2>1, <2>2 DEF UnifyInv, UnifyTypeOK, DealtWith
<1>4. CASE ListLabels
  <2> DEFINE labels == labelsOf[unifyRepo]
  <2>1. UNCHANGED unifyRepo /\ labels \in [LabelNames -> Colours \cup {"none"}]
    BY <1>4 DEF ListLabels, UnifyInv, UnifyTypeOK
  <2>2. \/ unifyPc' = "idle" /\ UNCHANGED <<listed, unifyNext>>
        \/ \E page \in SUBSET Names(labels) :
             /\ listed' = [n \in LabelNames |-> IF n \in page THEN labels[n] ELSE "none"]
             /\ unifyPc' = "labels" /\ unifyNext' = 1
    BY <1>4 DEF ListLabels, EndUnify
  <2>3. CASE unifyPc' = "idle" /\ UNCHANGED <<listed, unifyNext>>
    BY <1>1, <1>2, <2>1, <2>3 DEF UnifyInv, UnifyTypeOK, DealtWith
  <2>4. CASE \E page \in SUBSET Names(labels) :
               /\ listed' = [n \in LabelNames |-> IF n \in page THEN labels[n] ELSE "none"]
               /\ unifyPc' = "labels" /\ unifyNext' = 1
    <3>1. listed' \in [LabelNames -> Colours \cup {"none"}]
      BY <2>1, <2>4
    <3>2. \A n \in LabelNames : listed'[n] # "none" => labels[n] = listed'[n]
      BY <2>4
    <3>3. DealtWith'
      BY <1>1, <2>1, <2>4, <3>2, DesiredLabel DEF DealtWith
    <3>4. 1 \in 1..Len(desiredLabels) + 1
      BY UnifyAssumption
    <3>5. QED BY <1>1, <1>2, <2>1, <2>4, <3>1, <3>3, <3>4 DEF UnifyInv, UnifyTypeOK
  <2>5. QED BY <2>2, <2>3, <2>4
<1>5. QED BY <1>3, <1>4

\* A call that GitHub accepts makes one desired label right, and leaves alone what
\* the others may be called.
LEMMA SetLabelEffect ==
  ASSUME UnifyTypeOK, NEW i \in DOMAIN desiredLabels, NEW found,
         found \in PossibleNames(desiredLabels[i]) \/ found = NoLabel,
         Accepts(unifyRepo, found, desiredLabels[i]), SetLabel(unifyRepo, found, desiredLabels[i])
  PROVE  /\ labelsOf' \in [1..Len(UnifyRepos) -> [LabelNames -> Colours \cup {"none"}]]
         /\ \A q \in 1..Len(UnifyRepos) : Distinct(labelsOf'[q])
         /\ \A q \in 1..Len(UnifyRepos) \ {unifyRepo} : labelsOf'[q] = labelsOf[q]
         /\ labelsOf'[unifyRepo][desiredLabels[i]] = "right"
         /\ \A j \in DOMAIN desiredLabels \ {i} : \A n \in PossibleNames(desiredLabels[j]) :
              labelsOf'[unifyRepo][n] = labelsOf[unifyRepo][n]
<1> DEFINE d == desiredLabels[i]
           r == unifyRepo
           new == [n \in LabelNames |->
                     IF n = d THEN "right" ELSE IF n = found THEN "none" ELSE labelsOf[r][n]]
<1>1. r \in 1..Len(UnifyRepos) /\ labelsOf[r] \in [LabelNames -> Colours \cup {"none"}]
  BY DEF UnifyTypeOK
<1>2. labelsOf' = [labelsOf EXCEPT ![r] = new]
  BY DEF SetLabel
<1>3. new \in [LabelNames -> Colours \cup {"none"}]
  BY <1>1 DEF Colours
<1>4. labelsOf' \in [1..Len(UnifyRepos) -> [LabelNames -> Colours \cup {"none"}]]
  BY <1>1, <1>2, <1>3 DEF UnifyTypeOK
<1>5. labelsOf'[r] = new /\ \A q \in 1..Len(UnifyRepos) \ {r} : labelsOf'[q] = labelsOf[q]
  BY <1>1, <1>2 DEF UnifyTypeOK
<1>6. Distinct(new)
  <2>1. Distinct(labelsOf[r])
    BY <1>1 DEF UnifyTypeOK
  <2>2. \A n \in Names(new) : n = d \/ n \in Names(labelsOf[r]) \ {found}
    BY DEF Names
  <2>3. \A n \in Names(labelsOf[r]) \ {found} : LabelKey[n] # LabelKey[d]
    BY DEF Accepts
  <2>4. QED BY <2>1, <2>2, <2>3 DEF Distinct
<1>7. \A q \in 1..Len(UnifyRepos) : Distinct(labelsOf'[q])
  BY <1>5, <1>6 DEF UnifyTypeOK
<1>8. new[d] = "right"
  BY DesiredLabel
<1>9. ASSUME NEW j \in DOMAIN desiredLabels \ {i}, NEW n \in PossibleNames(desiredLabels[j])
      PROVE  new[n] = labelsOf[r][n]
  <2>1. n \in LabelNames /\ n # NoLabel
    BY DesiredLabel, UnifyAssumption
  <2>2. n \notin PossibleNames(d) /\ d \in PossibleNames(d)
    BY DesiredLabel
  <2>3. QED BY <2>1, <2>2
<1>10. QED BY <1>4, <1>5, <1>7, <1>8, <1>9

\* One desired label: it is right when the run goes on to the next.
LEMMA UnifyLabelInv ==
  ASSUME UnifyInv, UnifyLabel
  PROVE  UnifyInv'
<1> DEFINE i == unifyNext
           d == desiredLabels[i]
           found == findLabel(listed, d)
           r == unifyRepo
<1>1. UNCHANGED <<unified, unifyRepo, listed>> /\ InRepo /\ i <= Len(desiredLabels)
  BY DEF UnifyLabel
<1>2. i \in DOMAIN desiredLabels /\ i \in Nat /\ Len(desiredLabels) \in Nat
  BY <1>1, UnifyAssumption DEF UnifyInv, UnifyTypeOK
<1>3. \/ found \in PossibleNames(d) /\ found \in LabelNames /\ listed[found] # "none"
      \/ found = NoLabel
  BY <1>2, FoundLabel
<1>4. \/ /\ Accepts(r, found, d) /\ SetLabel(r, found, d)
         /\ (unifyNext' = i + 1 /\ UNCHANGED unifyPc) \/ (unifyPc' = "idle" /\ UNCHANGED unifyNext)
      \/ unifyPc' = "idle" /\ UNCHANGED <<labelsOf, unifyNext>>
      \/ /\ found # NoLabel /\ ~NeedsUpdate(listed, d)
         /\ unifyNext' = i + 1 /\ UNCHANGED <<labelsOf, unifyPc>>
  BY DEF UnifyLabel, NextLabel, EndUnify
<1>5. unifyPc' \in {"idle", "list", "labels", "raced"} /\ unifyNext' \in 1..Len(desiredLabels) + 1
  BY <1>1, <1>2, <1>4 DEF UnifyInv, UnifyTypeOK
<1>6. CASE Accepts(r, found, d) /\ SetLabel(r, found, d)
  <2>1. /\ labelsOf' \in [1..Len(UnifyRepos) -> [LabelNames -> Colours \cup {"none"}]]
        /\ \A q \in 1..Len(UnifyRepos) : Distinct(labelsOf'[q])
        /\ \A q \in 1..Len(UnifyRepos) \ {r} : labelsOf'[q] = labelsOf[q]
        /\ labelsOf'[r][d] = "right"
        /\ \A j \in DOMAIN desiredLabels \ {i} : \A n \in PossibleNames(desiredLabels[j]) :
             labelsOf'[r][n] = labelsOf[r][n]
    BY <1>2, <1>3, <1>6, SetLabelEffect DEF UnifyInv
  <2>2. UnifyTypeOK'
    BY <1>1, <1>5, <2>1 DEF UnifyInv, UnifyTypeOK, Distinct, Names
  <2>3. DealtWith'
    <3> SUFFICES ASSUME unifyPc' = "labels", NEW j \in DOMAIN desiredLabels
                 PROVE  IF j < unifyNext'
                          THEN labelsOf'[r][desiredLabels[j]] = "right"
                          ELSE \A n \in PossibleNames(desiredLabels[j]) :
                                 listed[n] # "none" => labelsOf'[r][n] = listed[n]
      BY <1>1 DEF DealtWith
    <3>1. unifyPc = "labels" /\ unifyNext' = i + 1
      BY <1>4
    <3>2. j \in Nat /\ desiredLabels[j] \in PossibleNames(desiredLabels[j])
      BY DesiredLabel
    <3>3. CASE j = i
      BY <1>2, <2>1, <3>1, <3>3
    <3>4. CASE j # i
      <4>1. \A n \in PossibleNames(desiredLabels[j]) : labelsOf'[r][n] = labelsOf[r][n]
        BY <2>1, <3>4
      <4>2. j < unifyNext' <=> j < i
        BY <1>2, <3>1, <3>2, <3>4
      <4>3. QED BY <3>1, <3>2, <4>1, <4>2 DEF UnifyInv, DealtWith
    <3>5. QED BY <3>3, <3>4
  <2>4. UnifiedWhenDone'
    <3> SUFFICES ASSUME NEW q \in unified, NEW j \in DOMAIN desiredLabels
                 PROVE  labelsOf'[q][desiredLabels[j]] = "right"
      BY <1>1 DEF UnifiedWhenDone, AsDesired
    <3>1. labelsOf[q][desiredLabels[j]] = "right" /\ q \in 1..Len(UnifyRepos)
      BY DEF UnifyInv, UnifyTypeOK, UnifiedWhenDone, AsDesired
    <3>2. CASE q = r /\ j # i
      BY <2>1, <3>1, <3>2, DesiredLabel
    <3>3. QED BY <2>1, <3>1, <3>2
  <2>5. QED BY <2>2, <2>3, <2>4 DEF UnifyInv
<1>7. CASE UNCHANGED labelsOf
  <2>1. UnifyTypeOK' /\ UnifiedWhenDone'
    BY <1>1, <1>5, <1>7 DEF UnifyInv, UnifyTypeOK, UnifiedWhenDone, AsDesired, Distinct, Names
  <2>2. CASE unifyPc' = "idle"
    BY <2>1, <2>2 DEF UnifyInv, DealtWith
  <2>3. CASE /\ found # NoLabel /\ ~NeedsUpdate(listed, d)
             /\ unifyNext' = i + 1 /\ UNCHANGED unifyPc
    <3>1. found = d /\ listed[d] = "right"
      BY <2>3 DEF NeedsUpdate
    <3>2. unifyPc = "labels" => labelsOf[r][d] = "right"
      BY <1>2, <3>1, DesiredLabel DEF UnifyInv, DealtWith
    <3>3. \A j \in DOMAIN desiredLabels : j \in Nat /\ (j < i + 1 <=> j < i \/ j = i)
      BY <1>2, DesiredLabel
    <3>4. DealtWith'
      BY <1>1, <1>7, <2>3, <3>2, <3>3 DEF UnifyInv, DealtWith
    <3>5. QED BY <2>1, <3>4 DEF UnifyInv
  <2>4. CASE Accepts(r, found, d) /\ SetLabel(r, found, d)
    BY <1>6, <2>4
  <2>5. QED BY <1>4, <2>2, <2>3, <2>4
<1>8. QED BY <1>4, <1>6, <1>7

LEMMA RepoUnifiedInv ==
  ASSUME UnifyInv, RepoUnified
  PROVE  UnifyInv'
<1>1. UNCHANGED <<labelsOf, unifyNext, listed>>
      /\ unifyPc' \in {"idle", "list"} /\ unified' \subseteq unified \cup {unifyRepo}
  BY DEF RepoUnified, EndUnify
<1>2. unifyRepo' \in 1..Len(UnifyRepos)
  BY UnifyAssumption DEF RepoUnified, UnifyInv, UnifyTypeOK
<1>3. unifyPc = "labels" => AsDesired(unifyRepo)
  <2> SUFFICES ASSUME unifyPc = "labels", NEW i \in DOMAIN desiredLabels
               PROVE  labelsOf[unifyRepo][desiredLabels[i]] = "right"
    BY DEF AsDesired
  <2>1. i < unifyNext
    BY UnifyAssumption DEF RepoUnified, UnifyInv, UnifyTypeOK
  <2>2. QED BY <2>1 DEF UnifyInv, DealtWith
<1>4. UnifiedWhenDone'
  BY <1>1, <1>3 DEF RepoUnified, UnifyInv, UnifiedWhenDone, AsDesired
<1>5. QED BY <1>1, <1>2, <1>4 DEF UnifyInv, UnifyTypeOK, DealtWith

LEMMA UnifyNextInv == UnifyInv /\ [UnifyStep]_unifyVars => UnifyInv'
<1>1. UnifyInv /\ UnifyStep => UnifyInv'
  BY EditLabelsInv, ListingInv, UnifyLabelInv, RepoUnifiedInv DEF UnifyStep, UnifyRun
<1>2. UnifyInv /\ UNCHANGED unifyVars => UnifyInv'
  BY DEF unifyVars, UnifyInv, UnifyTypeOK, DealtWith, UnifiedWhenDone, AsDesired, Distinct, Names
<1>3. QED BY <1>1, <1>2

\* Type correctness and what makes it inductive: what a run has dealt with in a
\* repository is as desired, and the rest as it was listed.
THEOREM UnifyInvariance == UnifySpec => []UnifyInv
BY UnifyInitInv, UnifyNextInv, PTL DEF UnifySpec

\* A run that got through a repository leaves every desired label there, for any
\* repositories, labels and pages, although it reads one page before its own changes
\* (unify_labels.go:81-121).
THEOREM UnifiedLabels == UnifySpec => []UnifiedWhenDone
<1>1. UnifyInv => UnifiedWhenDone
  BY DEF UnifyInv
<1>2. QED BY <1>1, UnifyInvariance, PTL
=============================================================================
