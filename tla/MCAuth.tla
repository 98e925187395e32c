-------------------------------- MODULE MCAuth --------------------------------
(***************************************************************************)
(* Small instances of Auth: ann is in a team that may only read, ben in    *)
(* one that may push.                                                      *)
(***************************************************************************)
EXTENDS Auth

CONSTANTS h1, h2, ann, ben, readers, writers

MCCommenter == [h \in Handlers |-> IF h = h1 THEN ann ELSE ben]
MCMembers   == [t \in Teams |-> IF t = readers THEN {ann} ELSE {ben}]
MCAccess    == [t \in Teams |-> IF t = readers THEN "pull" ELSE "push"]
=============================================================================
