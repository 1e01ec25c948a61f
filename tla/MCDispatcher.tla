---------------------------- MODULE MCDispatcher ----------------------------
(* Small instances of Dispatcher for TLC.                                  *)
EXTENDS Dispatcher, TLC

CONSTANTS c1, c2, c3, k1, k2, t1, t2

\* All children ask for one name: the second one replaces the first.
MCChildName == [k \in Children |-> "name"]

Symmetry == Permutations(Calls) \cup Permutations(Children)
=============================================================================
