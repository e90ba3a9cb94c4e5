------------------------------ MODULE MCRunQueue ------------------------------
(***************************************************************************)
(* An instance of RunQueue for TLC, without symmetry: progress is stated   *)
(* of each structure.                                                      *)
(***************************************************************************)
EXTENDS RunQueue

CONSTANTS t1, t2, t3, t4

FourTasks == {t1, t2, t3, t4}
\* Waits for the first process the shell can start, and for any.
SomeWaits == {2, -1}
===============================================================================
