---------------------------- MODULE MCAddressSpace ----------------------------
(***************************************************************************)
(* Instances of AddressSpace for TLC.  Page 0 holds the arguments, page 1  *)
(* an entry of the environment, which only the area of the first shell     *)
(* covers, page 2 the image, pages 3 to 5 are the heap, page 6 the stack.  *)
(***************************************************************************)
EXTENDS AddressSpace, TLC

CONSTANTS t1, t2, t3

ThreeTasks == {t1, t2, t3}
Others == Permutations({t2, t3})

Piece(from, to, down) ==
    [start |-> from, end |-> to, grows_down |-> down, isNextFreed |-> FALSE]
Segment == Piece(4, 6, FALSE)
Stack == Piece(12, 14, TRUE)
First == <<Piece(0, 4, FALSE), Segment, Stack>>
Executed == <<Piece(0, 2, FALSE), Stack, Segment>>
===============================================================================
