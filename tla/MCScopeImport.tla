---------------------------- MODULE MCScopeImport ----------------------------
(* Small instances of ScopeImport: one import offers both roots, one a     *)
(* single root.                                                            *)
EXTENDS ScopeImport

CONSTANTS i1, i2, t1, t2, r1, r2, o1, o2, c1, c2

RootsFound == [i \in Imports |-> IF i = i1 THEN Roots ELSE {r1}]
=============================================================================
