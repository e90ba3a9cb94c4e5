-------------------------------- MODULE Areas ---------------------------------
(***************************************************************************)
(* The list of areas of a process (memMap.mmap, the VMAs linked by next)   *)
(* as malloc(), free() and copyVMA() of src/sys/task.c change it.  The     *)
(* head of the list is the area of the arguments and the environment.      *)
(***************************************************************************)
EXTENDS Integers, SequencesExt, FiniteSetsExt

VMA == [start : Nat, end : Nat, grows_down : BOOLEAN, isNextFreed : BOOLEAN]

\* "temp->next->v_start-temp->v_end" is unsigned: it is huge if the next area
\* is below this one, as behind the stack.
GapFits(list, k, size) ==
    \/ list[k + 1].start < list[k].end
    \/ list[k + 1].start - list[k].end >= size
GapIs(list, k, size) == list[k + 1].start - list[k].end = size

\* The areas behind which the loop of malloc() breaks.
Reusable(list, size) ==
    {k \in 1 .. Len(list) - 1 : list[k].isNextFreed /\ GapFits(list, k, size)}

Ends(list, last) ==
    {0} \cup {list[k].end : k \in {j \in 2 .. last : ~list[j].grows_down}}

Area(start, size, flag) ==
    [start |-> start, end |-> start + size, grows_down |-> FALSE, isNextFreed |-> flag]

\* Mutant: the new area is linked in front of the next one.
mallocLinked(list, size) ==
    LET fit == Reusable(list, size)
        k == IF fit = {} THEN Len(list) ELSE Min(fit)
        last == IF fit = {} THEN k ELSE k + 1
        area == Area(Max(Ends(list, last)), size, fit # {} /\ ~GapIs(list, k, size))
    IN [SubSeq(list, 1, k) EXCEPT ![k].isNextFreed = (fit = {} /\ @)]
            \o <<area>> \o SubSeq(list, k + 1, Len(list))

\* Mutant: the loop breaks at every area the next of which was freed.
mallocAnyGap(list, size) ==
    LET fit == {k \in 1 .. Len(list) - 1 : list[k].isNextFreed}
        k == IF fit = {} THEN Len(list) ELSE Min(fit)
        last == IF fit = {} THEN k ELSE k + 1
        area == Area(Max(Ends(list, last)), size, fit # {} /\ ~GapIs(list, k, size))
    IN Append([SubSeq(list, 1, k) EXCEPT ![k].isNextFreed = (fit = {} /\ @)], area)

\* The list after malloc(): the new area is its last.  It starts at the highest
\* end that the loop has come to; if the loop stops at a gap, the areas behind
\* are no longer linked ("newVma->next=NULL").
malloc(list, size) ==
    LET fit == Reusable(list, size)
        k == IF fit = {} THEN Len(list) ELSE Min(fit)
        last == IF fit = {} THEN k ELSE k + 1
        area == Area(Max(Ends(list, last)), size, fit # {} /\ ~GapIs(list, k, size))
    IN Append([SubSeq(list, 1, k) EXCEPT ![k].isNextFreed = (fit = {} /\ @)], area)

\* The list after free(): the first area behind the head that starts at ptr is
\* unlinked, and the one before it marked.
free(list, ptr) ==
    LET found == {k \in 1 .. Len(list) - 1 : list[k + 1].start = ptr}
        k == Min(found)
    IN IF found = {} THEN list
       ELSE RemoveAt([list EXCEPT ![k].isNextFreed = TRUE], k + 1)

\* The list of the child: copyVMA() leaves isNextFreed out.
copyVMA(list) ==
    [k \in DOMAIN list |-> [list[k] EXCEPT !.isNextFreed = FALSE]]
===============================================================================
