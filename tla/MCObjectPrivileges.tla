------------------------- MODULE MCObjectPrivileges -------------------------
(* Instances of ObjectPrivileges for TLC.  Neither roles nor privileges    *)
(* are told apart by their names.                                          *)
EXTENDS ObjectPrivileges, TLC

Interchangeable == Permutations(Roles) \cup Permutations(Privileges)
=============================================================================
