-------------------------------- MODULE MCHeap --------------------------------
(***************************************************************************)
(* An instance of Heap for TLC: the arguments, two segments and the stack  *)
(* above everything, in the two orders of the list.                        *)
(***************************************************************************)
EXTENDS Heap

Piece(from, to, down) ==
    [start |-> from, end |-> to, grows_down |-> down, isNextFreed |-> FALSE]
Arguments == Piece(1, 2, FALSE)
Segments == <<Piece(3, 4, FALSE), Piece(4, 5, FALSE)>>
Stack == Piece(100, 101, TRUE)

First == <<Arguments>> \o Segments \o <<Stack>>
Executed == <<Arguments, Stack>> \o Segments
===============================================================================
