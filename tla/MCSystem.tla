------------------------------ MODULE MCSystem ------------------------------
(* Small instances of System for TLC.                                      *)
EXTENDS System, TLC

CONSTANTS c1, c2, c3, p1, p2

Symmetry == Permutations(Paths)
=============================================================================
