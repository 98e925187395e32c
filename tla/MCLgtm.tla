-------------------------------- MODULE MCLgtm --------------------------------
(***************************************************************************)
(* Small instances of Lgtm: ann comments twice and ben once, around one    *)
(* push.                                                                   *)
(***************************************************************************)
EXTENDS Lgtm, TLC

CONSTANTS c1, c2, c3

MCAuthor == [c \in Comments |-> IF c = c3 THEN "ben" ELSE "ann"]

\* c1 and c2 are alike.
MCSymmetry == Permutations({c1, c2})
=============================================================================
