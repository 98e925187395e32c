--------------------------- MODULE MCMergeAndLabel ---------------------------
(***************************************************************************)
(* Small instances of MergeAndLabel.  A configuration picks the deliveries *)
(* and the pull requests; what they are like is fixed here.                *)
(***************************************************************************)
EXTENDS MergeAndLabel

CONSTANTS r1, r2, r3, p1, p2, h1

MCStartsWith == {<<"site", "site">>, <<"fix-it", "fix">>}

Comment(word, pull, commenter) ==
  [kind |-> "issue_comment", submitted |-> FALSE, onPull |-> TRUE,
   asksMerge |-> TRUE, word |-> word, pull |-> pull, commenter |-> commenter]

Review(word, pull, commenter) ==
  [kind |-> "pull_request_review", submitted |-> TRUE, onPull |-> TRUE,
   asksMerge |-> TRUE, word |-> word, pull |-> pull, commenter |-> commenter]

\* Two maintainers ask for p1, one of them in a review that names another
\* category; the third delivery asks for p2, without a category.
MCEvent == [r \in Requests |->
              CASE r = r1 -> Comment("fix-it", p1, "ann")
                [] r = r2 -> Review("site", p1, "ben")
                [] r = r3 -> Comment("none", p2, "ann")]

\* p1 has a branch of the repository, p2 a fork's branch of the same name.
MCHeadRef  == [p \in Pulls |-> "topic"]
MCHeadRepo == [p \in Pulls |-> IF p = p1 THEN "base" ELSE "fork"]

MCStaleCopy  == HandLines
MCUnparsable == {{r1}}
MCOversized  == {{h1}}
=============================================================================
