------------------------------ MODULE MCAffinity ------------------------------
(***************************************************************************)
(* Small instances of Affinity.  The delivery of ann's new pull request    *)
(* fires the assignment handler pr and the review handler review; a comment *)
(* of the bot itself, one of ben and a status event come from another      *)
(* repository.  A configuration picks the handlers.                        *)
(***************************************************************************)
EXTENDS Affinity

CONSTANTS pr, review, echo, mention, status, jekyll, other, ann, ben, cid, dan, bot

Opened(kind) ==
  [kind |-> kind, repo |-> jekyll, num |-> 1, sender |-> ann, acceptable |-> TRUE,
   assigned |-> FALSE, mentions |-> {"docs"}]

Comment(sender, teamsOfBody) ==
  [kind |-> "fromComment", repo |-> other, num |-> 2, sender |-> sender,
   acceptable |-> TRUE, assigned |-> FALSE, mentions |-> teamsOfBody]

MCEvent == [h \in Handlers |->
  CASE h = pr      -> Opened("assignPR")
    [] h = review  -> Opened("requestReview")
    [] h = echo    -> Comment(bot, {"docs", "build"})
    [] h = mention -> Comment(ben, {"build"})
    [] h = status  -> [Opened("statStatus") EXCEPT !.repo = other, !.mentions = {}]]

\* The server is told to add one team twice.
MCTeams   == <<"docs", "build", "docs">>
MCMembers == [t \in {"docs", "build"} |->
                IF t = "docs" THEN {ann, ben, cid, bot} ELSE {bot, dan}]
=============================================================================
