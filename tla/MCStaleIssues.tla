---------------------------- MODULE MCStaleIssues ----------------------------
(***************************************************************************)
(* Small instances of StaleIssues: an issue and a pull request on pages of *)
(* their own, so that an update of the one between two pages hides the     *)
(* other.                                                                  *)
(***************************************************************************)
EXTENDS StaleIssues

CONSTANTS bug, pull
=============================================================================
