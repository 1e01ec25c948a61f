------------------------------ MODULE MCTimers ------------------------------
(* Small instances of Timers for TLC.                                      *)
EXTENDS Timers

CONSTANTS n1, n2
=============================================================================
