---------------------------- MODULE MCInputBuffer ------------------------------
(***************************************************************************)
(* An instance of InputBuffer for TLC: programs print a word without an    *)
(* end, as a prompt, or a line.  The buffer is larger than what is typed,  *)
(* so it never warns.                                                      *)
(***************************************************************************)
EXTENDS InputBuffer

Texts == {<<"p">>, <<Newline>>}
None == <<>>
===============================================================================
