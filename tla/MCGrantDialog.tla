--------------------------- MODULE MCGrantDialog ---------------------------
(* A user with a grant, a role with one and a role between: the smallest   *)
(* cluster with direct rows, an inherited row and a grantee without rows.  *)
EXTENDS GrantDialog
CONSTANTS u, r1, r2, p, select, usage

MCFits == [t \in ObjectTypes |-> IF t = "TABLE" THEN {select} ELSE {usage}]
MCPresets == {{select, usage}}
MCHeld == {[grantee |-> u, object |-> [type |-> "TABLE", place |-> p], privilege |-> select],
           [grantee |-> r1, object |-> [type |-> "CATALOG", place |-> Blank], privilege |-> usage]}
MCParents == {<<r2, r1>>}
=============================================================================
