--------------------------- MODULE MCStoreBuffer ---------------------------
(* A small instance of StoreBuffer for TLC.                                *)
EXTENDS StoreBuffer

CONSTANTS c1, c2, t1, t2

MCChildName == [k \in Children |-> "name"]
=============================================================================
