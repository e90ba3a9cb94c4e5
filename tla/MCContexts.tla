------------------------------ MODULE MCContexts ------------------------------
(***************************************************************************)
(* Instances of Contexts for TLC.                                          *)
(***************************************************************************)
EXTENDS Contexts, TLC

CONSTANTS t1, t2, t3, t4

ThreeTasks == {t1, t2, t3}
FourTasks == {t1, t2, t3, t4}
OthersOfThree == Permutations({t2, t3})
OthersOfFour == Permutations({t2, t3, t4})
===============================================================================
