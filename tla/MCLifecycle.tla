---------------------------- MODULE MCLifecycle ----------------------------
(* A small instance of Lifecycle for TLC.                                  *)
EXTENDS Lifecycle

CONSTANTS a1, a2
=============================================================================
