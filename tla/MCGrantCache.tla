---------------------------- MODULE MCGrantCache ----------------------------
(* Instances of GrantCache for TLC.  OtherHostKeys are the keys of a       *)
(* second cluster; with one host there are none.                           *)
EXTENDS GrantCache, TLC

CONSTANTS Home, Away, OtherHostKeys

KeyHosts == [k \in Keys |-> IF k \in OtherHostKeys THEN Away ELSE Home]

Interchangeable == Permutations(Readers) \cup Permutations(Writers)
=============================================================================
