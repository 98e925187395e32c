-------------------------------- MODULE Calls --------------------------------
(***************************************************************************)
(* Calls to GitHub, Travis and RubyGems that fail.  A call that fails      *)
(* either was not applied, or was applied and its answer was lost; the     *)
(* actions that make calls say which outcomes they have.  Failures are     *)
(* bounded, so that liveness is about what happens after the last one.     *)
(***************************************************************************)
EXTENDS Naturals

CONSTANT MaxErrors \* bound: failing calls in a behaviour

ASSUME CallsAssumption == MaxErrors \in Nat

VARIABLE errors \* failed calls so far

CallsInit == errors = 0

Fail == errors < MaxErrors /\ errors' = errors + 1

\* A call that was applied: its answer arrives or is lost.
Applied == UNCHANGED errors \/ Fail
=============================================================================
