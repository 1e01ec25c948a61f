------------------------------ MODULE Buffers ------------------------------
(* What is in a queue, whatever the order; and that nothing is in it twice. *)
EXTENDS Naturals, Sequences

Elements(s) == {s[i] : i \in DOMAIN s}
Distinct(s) == \A i, j \in DOMAIN s : s[i] = s[j] => i = j
=============================================================================
