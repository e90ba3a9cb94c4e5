----------------------------- MODULE PageMapping ------------------------------
(***************************************************************************)
(* What the page tables promise the rest of the kernel: an address space   *)
(* is a function from pages to frames, a new one is empty, and an          *)
(* operation on one page of one space changes nothing else.                *)
(***************************************************************************)
CONSTANTS Space, Page, Frame,
          None          \* the frame of a page that is not mapped

VARIABLES live,         \* the address spaces in use
          mapping       \* [Space -> [Page -> Frame or None]]

mappingVars == <<live, mapping>>

Unmapped == [v \in Page |-> None]

Init ==
    /\ live = {}
    /\ mapping = [s \in Space |-> Unmapped]

Create ==
    \E s \in Space \ live :
        /\ live' = live \cup {s}
        /\ UNCHANGED mapping

Map ==
    \E s \in live, v \in Page, f \in Frame :
        /\ mapping' = [mapping EXCEPT ![s][v] = f]
        /\ UNCHANGED live

End ==
    \E s \in live :
        /\ live' = live \ {s}
        /\ mapping' = [mapping EXCEPT ![s] = Unmapped]

Next == Create \/ Map \/ End

Spec == Init /\ [][Next]_mappingVars
===============================================================================
