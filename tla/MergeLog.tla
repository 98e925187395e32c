------------------------------- MODULE MergeLog -------------------------------
(***************************************************************************)
(* What "@jekyllbot: merge" promises, without goroutines, SHAs or failures: *)
(* pull requests get merged, and a merged pull request may be recorded in  *)
(* the changelog, once, for good.                                          *)
(***************************************************************************)
CONSTANTS
  Pulls,       \* pull requests
  Requests,    \* requests to merge one
  PullOf       \* PullOf[r]: the pull request of request r

VARIABLES
  merged,      \* the merged pull requests
  log          \* the requests that have their line in the changelog

Init == merged = {} /\ log = {}

MergePull(p) ==
  /\ p \notin merged
  /\ merged' = merged \cup {p}
  /\ UNCHANGED log

Record(r) ==
  /\ PullOf[r] \in merged
  /\ \A s \in log : PullOf[s] # PullOf[r]
  /\ log' = log \cup {r}
  /\ UNCHANGED merged

Next == \/ \E p \in Pulls : MergePull(p)
        \/ \E r \in Requests : Record(r)

Spec == Init /\ [][Next]_<<merged, log>>
=============================================================================
