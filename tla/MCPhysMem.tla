------------------------------ MODULE MCPhysMem -------------------------------
(***************************************************************************)
(* Instances of PhysMem for TLC.  Page size, row width and the first       *)
(* megabyte are the code's; the machine is small.                          *)
(***************************************************************************)
EXTENDS PhysMem

Pg(n) == n * 4096

\* Low memory, then a region around the kernel, an unusable one right after
\* it (as the firmware's tables after the memory of a PC), an empty one, one
\* with both ends in the middle of a page, and a last one that ends beyond the
\* bitmap (320 frames) and beyond the window: the boot loop writes two rows
\* of the area after the bitmap.
Map ==
    << [base |-> 0,               length |-> Pg(159),        type |-> 1],
       [base |-> Pg(256),         length |-> Pg(6),          type |-> 1],
       [base |-> Pg(262),         length |-> Pg(2),          type |-> 2],
       [base |-> Pg(268),         length |-> 0,              type |-> 1],
       [base |-> Pg(270) + 2048,  length |-> Pg(1) + 1024,   type |-> 1],
       [base |-> Pg(316),         length |-> Pg(100),        type |-> 1] >>
===============================================================================
