------------------------------ MODULE MCJekyllbot ------------------------------
(***************************************************************************)
(* Jekyllbot for TLC: the instance of each part.                           *)
(***************************************************************************)
EXTENDS Jekyllbot

\* One part at a time: they share so little that more multiplies the states.
MCExercised == {{p} : p \in Parts}

MCSubjects ==
  {FmtSubject(r) : r \in FmtRepos} \cup {NudgeSubject(r) : r \in NudgeRepos}
    \cup {DepSubject(g, v) : g \in Gems, v \in 1..MaxGem}

\* Two builds of one repository fail in fmt, that of another in its tests only,
\* and one on a branch.
MCStatusOf ==
  LET failure(r, branch) ==
        [repo |-> r, state |-> "failure", context |-> TravisPush, branch |-> branch]
  IN [e1 |-> failure("jekyll", "master"), e2 |-> failure("jekyll", "none"),
      e3 |-> failure("minima", "master"), e4 |-> failure("mercenary", "other")]

MCBuildJobs ==
  LET job(suite, state) == [suite |-> suite, state |-> state]
      fmt == <<job("test", "passed"), job("fmt", "failed")>>
  IN [e1 |-> fmt, e2 |-> fmt, e3 |-> <<job("test", "failed"), job("fmt", "passed")>>, e4 |-> fmt]

MCContaining ==
  [g \in Gems |-> IF g = "kramdown" THEN {"kramdown-parser-gfm"} ELSE {}]

MCDesiredLabels == <<"help-wanted", "ux">>

MCPossibleNames ==
  [d \in {"help-wanted", "ux"} |->
     IF d = "ux" THEN <<"ux">> ELSE <<"help-wanted", "help wanted", "Help-Wanted">>]

MCLabelKey ==
  [n \in LabelNames |-> IF n \in {"Help-Wanted", "Help-wanted"} THEN "help-wanted" ELSE n]

\* Any labels in the first repository, at most one, to be renamed, in the second.
MCStartLabels ==
  LET labels == {l \in [LabelNames -> {"none", "wrong"}] : Distinct(l)}
  IN <<labels, {l \in labels : Names(l) \subseteq {"help wanted"}}>>

MCUnifyRepos == <<"jekyll", "minima">>

\* A part of the table of jekyll/jekyll.go, and what its handlers dereference.
MCEventHandlers ==
  [issues |-> <<"DeprecateOldRepos", "AssignIssue">>,
   pull_request |-> <<"IssueHasPullRequestLabeler", "AssignPR">>,
   issue_comment |-> <<"MergeAndLabel", "AssignFromComment">>,
   pull_request_review |-> <<"MergeAndLabel">>]

MCAcceptedTypes ==
  [DeprecateOldRepos |-> {"issues"}, AssignIssue |-> {"issues"},
   IssueHasPullRequestLabeler |-> {"pull_request"},
   AssignPR |-> {"pull_request"},
   MergeAndLabel |-> {"issue_comment", "pull_request_review"},
   AssignFromComment |-> {"issue_comment"}]

MCReads ==
  [DeprecateOldRepos |-> {"number"}, AssignIssue |-> {"number", "text"},
   IssueHasPullRequestLabeler |-> {"text"},
   AssignPR |-> {"number", "text"}, MergeAndLabel |-> {"text"},
   AssignFromComment |-> {"number", "text"}]

MCEvents ==
  LET event(type, fields) ==
        [type |-> type, signature |-> "valid", parses |-> TRUE, fields |-> fields]
      comment == event("issue_comment", {"number", "text"})
      pull == event("pull_request", {"number", "text"})
  IN {comment, pull, event("pull_request", {"number"}), event("pull_request_review", {"number"}),
      event("issues", {"number"}),
      event("ping", {}), event("watch", {}),
      [event("ping", {}) EXCEPT !.parses = FALSE], [pull EXCEPT !.parses = FALSE],
      [comment EXCEPT !.signature = "invalid"], [comment EXCEPT !.signature = "no-secret"]}

MCRepoOf == [i1 |-> "jekyll-help", i2 |-> "jekyll"]
=============================================================================
