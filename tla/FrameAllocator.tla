---------------------------- MODULE FrameAllocator ----------------------------
(***************************************************************************)
(* What the physical page allocator promises the rest of the kernel: a     *)
(* frame is either free or held by exactly one caller, memory is donated   *)
(* to the allocator only while the kernel boots, an allocation hands out   *)
(* some free frame, and a release returns a frame that was held.           *)
(***************************************************************************)
CONSTANT Frame      \* the frame numbers the allocator can name

VARIABLES free,     \* frames that an allocation may hand out
          held,     \* frames handed out and not yet released
          booted    \* no memory is donated once this is TRUE

allocVars == <<free, held, booted>>

Init ==
    /\ free = {}
    /\ held = {}
    /\ booted = FALSE

\* The boot loop hands the usable memory of the machine to the allocator.
Donate ==
    /\ ~booted
    /\ free' \in SUBSET Frame
    /\ free \subseteq free'
    /\ booted' \in BOOLEAN
    /\ UNCHANGED held

Allocate ==
    \E f \in free :
        /\ free' = free \ {f}
        /\ held' = held \cup {f}
        /\ UNCHANGED booted

Release ==
    \E f \in held :
        /\ free' = free \cup {f}
        /\ held' = held \ {f}
        /\ UNCHANGED booted

Next == Donate \/ Allocate \/ Release

Spec == Init /\ [][Next]_allocVars
===============================================================================
