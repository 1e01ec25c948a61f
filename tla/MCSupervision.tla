--------------------------- MODULE MCSupervision ---------------------------
(* A small instance of Supervision for TLC: "$b" and "$b/a" as names, base  *)
(* 2 and the numbers 0 to 2 ("$a", "$b", "$ab") for the anonymous ones.     *)
EXTENDS Supervision

CONSTANTS t1, t2

MCAlphabet   == {"/", "$", "u", "a", "b", " "}
MCWhitespace == {" "}
MCUserNames  == {<<"$", "b">>, <<"$", "b", "/", "a">>}
MCChars      == <<"a", "b">>
MCRootName   == <<"a">>
=============================================================================
