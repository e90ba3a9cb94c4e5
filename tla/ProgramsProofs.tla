---------------------------- MODULE ProgramsProofs ----------------------------
(***************************************************************************)
(* What a program has to itself: the areas of its memory, and what it was  *)
(* started with.                                                           *)
(*                                                                         *)
(* First the areas, for any segments, sizes and numbers of areas: malloc() *)
(* and free() keep the arguments, the image and the stack and never let    *)
(* two areas overlap; and nothing that the shell, or a program that frees  *)
(* its youngest area first, still uses is lost or given twice.  Behind the *)
(* image and the stack the list is in the order of the addresses, because  *)
(* a new area starts above all those that stay in the list.  malloc() cuts *)
(* the list off only at a gap that free() has left; the shell leaves one   *)
(* at most, and the first malloc() of its next command fits there, when    *)
(* nothing behind it is in use.                                            *)
(*                                                                         *)
(* Then what exec() hands over, for any files, commands and variables: the *)
(* environments are dictionaries, the images are what loadFile() makes of  *)
(* the files, and the arguments are the words of the command. A program's  *)
(* pages of variables hold no name twice, and those behind the variables   *)
(* are empty; the pages of a child are the first ones of its parent's, and *)
(* while the child runs its parent's program a variable set on a shared    *)
(* page is seen by both. loadFile() takes free frames only, and clears     *)
(* behind a segment nothing but the rest of its last page. The page of     *)
(* arguments only grows, so that a string that is on it stays there.       *)
(***************************************************************************)
EXTENDS Heap, Exec, TLAPS, WellFoundedInduction, SequenceTheorems, FiniteSetTheorems

-------------------------------------------------------------------------------
(* Least and greatest numbers of a set, which malloc() and free() look for. *)

\* A set of natural numbers has a least one.
LEMMA LeastNatural ==
    ASSUME NEW T \in SUBSET Nat, T # {}
    PROVE  Min(T) \in T /\ \A y \in T : Min(T) <= y
<1>1. \E x \in T : \A y \in T : ~(<<y, x>> \in OpToRel(<, Nat))
  BY NatLessThanWellFounded, WFMin
<1>2. PICK x \in T : \A y \in T : ~(<<y, x>> \in OpToRel(<, Nat))
  BY <1>1
<1>3. \A y \in T : <<y, x>> \in Nat \X Nat
  OBVIOUS
<1>4. \A y \in T : ~(y < x)
  BY <1>2, <1>3 DEF OpToRel
<1>5. \E z \in T : \A y \in T : z <= y
  BY <1>4, SMT
<1> QED BY <1>5 DEF Min

\* One that is bounded has a greatest.
LEMMA GreatestNatural ==
    ASSUME NEW T \in SUBSET Nat, 0 \in T, NEW b \in Nat, \A y \in T : y <= b
    PROVE  Max(T) \in T /\ \A y \in T : y <= Max(T)
<1> DEFINE U == {n \in Nat : \A y \in T : y <= n}
<1>1. PICK m : m = Min(U)
  OBVIOUS
<1>2. m \in U /\ \A n \in U : m <= n
  BY <1>1, LeastNatural
<1>3. m \in Nat /\ \A y \in T : y <= m
  BY <1>2
<1>4. m \in T
  <2> SUFFICES ASSUME m \notin T PROVE FALSE
    OBVIOUS
  <2>1. m # 0
    OBVIOUS
  <2>2. m - 1 \in Nat /\ \A y \in T : y <= m - 1
    BY <1>3, <2>1, SMT
  <2>3. m <= m - 1
    BY <1>2, <2>2
  <2> QED BY <1>3, <2>3, SMT
<1>5. \E x \in T : \A y \in T : x >= y
  BY <1>3, <1>4, SMT
<1>6. PICK x : x = Max(T)
  OBVIOUS
<1>7. x \in T /\ \A y \in T : x >= y
  BY <1>5, <1>6 DEF Max
<1> QED BY <1>6, <1>7, SMT

-------------------------------------------------------------------------------
(* The lists that malloc() and free() make. *)

Known == Len(Loaded)
StackPlace == IF program = "first" THEN Known ELSE 2
SameArea(a, b) == a.start = b.start /\ a.end = b.end /\ a.grows_down = b.grows_down

\* An area with another mark is the same area.
LEMMA Marked ==
    ASSUME NEW v \in VMA, NEW f \in BOOLEAN
    PROVE  /\ [v EXCEPT !.isNextFreed = f] \in VMA
           /\ [v EXCEPT !.isNextFreed = f].isNextFreed = f
           /\ SameArea([v EXCEPT !.isNextFreed = f], v)
  BY DEF VMA, SameArea

\* A list that changed only in the mark of area k, which is f now.
Marking(list, new, k, f) ==
    /\ new \in Seq(VMA) /\ Len(new) = Len(list)
    /\ SameArea(new[k], list[k]) /\ new[k].isNextFreed = f
    /\ \A j \in 1 .. Len(list) : j # k => new[j] = list[j]

\* An assignment to a mark.
LEMMA MarkForm ==
    ASSUME NEW list \in Seq(VMA), NEW k \in 1 .. Len(list), NEW f \in BOOLEAN
    PROVE  Marking(list, [list EXCEPT ![k].isNextFreed = f], k, f)
<1> DEFINE v == [list[k] EXCEPT !.isNextFreed = f]
<1>1. v \in VMA /\ v.isNextFreed = f /\ SameArea(v, list[k])
  BY Marked
<1> HIDE DEF v
<1>2. [list EXCEPT ![k] = v] \in Seq(VMA) /\ Len([list EXCEPT ![k] = v]) = Len(list)
  BY <1>1
<1>3. [list EXCEPT ![k] = v][k] = v /\ \A j \in 1 .. Len(list) : j # k
        => [list EXCEPT ![k] = v][j] = list[j]
  BY <1>1
<1> QED BY <1>1, <1>2, <1>3 DEF Marking, v

\* The new area is behind area k of the list: the end of it, or a gap.
Allocated(list, new, k, size) ==
    /\ new \in Seq(VMA) /\ k \in 1 .. Len(list) /\ Len(new) = k + 1
    /\ \A j \in 1 .. k - 1 : new[j] = list[j]
    /\ SameArea(new[k], list[k])
    /\ new[k].isNextFreed <=> k = Len(list) /\ list[k].isNextFreed
    /\ ~new[k + 1].grows_down
    /\ new[k + 1].end = new[k + 1].start + size
    /\ \A j \in 2 .. k : ~list[j].grows_down => list[j].end <= new[k + 1].start
    /\ k = Len(list) => ~new[k + 1].isNextFreed /\ new[k + 1].start \in Ends(list, k)

\* Where the loop of malloc() stops.
StopsAt(list, size, k) ==
    \/ Reusable(list, size) = {} /\ k = Len(list)
    \/ k \in Reusable(list, size) /\ \A j \in Reusable(list, size) : k <= j

\* The list after malloc().
LEMMA MallocForm ==
    ASSUME NEW list \in Seq(VMA), Len(list) >= 1, NEW size \in Nat,
           NEW b \in Nat, \A j \in 2 .. Len(list) : ~list[j].grows_down => list[j].end <= b
    PROVE  \E k : StopsAt(list, size, k) /\ Allocated(list, malloc(list, size), k, size)
<1> DEFINE fit == Reusable(list, size)
<1>1. PICK k : k = IF fit = {} THEN Len(list) ELSE Min(fit)
  OBVIOUS
<1>2. fit \subseteq 1 .. Len(list) - 1 /\ fit \subseteq Nat
  BY DEF Reusable
<1>3. StopsAt(list, size, k) /\ k \in 1 .. Len(list) /\ (fit = {} <=> k = Len(list))
  <2>1. CASE fit = {}
    BY <1>1, <2>1 DEF StopsAt
  <2>2. CASE fit # {}
    <3>1. k \in fit /\ \A j \in fit : k <= j
      BY <1>1, <1>2, <2>2, LeastNatural
    <3> QED BY <1>2, <2>2, <3>1 DEF StopsAt
  <2> QED BY <2>1, <2>2
<1>4. PICK last : last = IF fit = {} THEN k ELSE k + 1
  OBVIOUS
<1>5. last \in 1 .. Len(list) /\ k <= last /\ (k = Len(list) => last = k)
  BY <1>2, <1>3, <1>4
<1>6. PICK s : s = Max(Ends(list, last))
  OBVIOUS
<1>7. Ends(list, last) \subseteq Nat /\ 0 \in Ends(list, last) /\ \A e \in Ends(list, last) : e <= b
  <2>1. \A j \in 1 .. Len(list) : list[j] \in VMA
    OBVIOUS
  <2>2. \A j \in 1 .. Len(list) : list[j].end \in Nat
    BY <2>1 DEF VMA
  <2>3. \A j \in 2 .. last : j \in 1 .. Len(list) /\ j \in 2 .. Len(list)
    BY <1>5
  <2>4. ASSUME NEW e \in Ends(list, last) PROVE e \in Nat /\ e <= b
    <3>1. CASE e = 0
      BY <3>1
    <3>2. CASE \E j \in 2 .. last : ~list[j].grows_down /\ e = list[j].end
      BY <2>2, <2>3, <3>2
    <3> QED BY <2>4, <3>1, <3>2 DEF Ends
  <2>5. 0 \in Ends(list, last)
    BY DEF Ends
  <2> QED BY <2>4, <2>5
<1>8. s \in Ends(list, last) /\ s \in Nat /\ \A e \in Ends(list, last) : e <= s
  BY <1>6, <1>7, GreatestNatural
<1>9. PICK f \in BOOLEAN : f = (fit # {} /\ ~GapIs(list, k, size))
  OBVIOUS
<1>10. PICK area : area = [start |-> s, end |-> s + size, grows_down |-> FALSE, isNextFreed |-> f]
  OBVIOUS
<1>11. PICK cut : cut = SubSeq(list, 1, k)
  OBVIOUS
<1>12. cut \in Seq(VMA) /\ Len(cut) = k /\ \A j \in 1 .. k : cut[j] = list[j]
  BY <1>3, <1>11
<1>13. PICK g \in BOOLEAN : g = (fit = {} /\ cut[k].isNextFreed)
  OBVIOUS
<1>14. PICK front : front = [cut EXCEPT ![k].isNextFreed = g]
  OBVIOUS
<1>15. Marking(cut, front, k, g)
  <2>1. k \in 1 .. Len(cut)
    BY <1>3, <1>12
  <2>2. Marking(cut, [cut EXCEPT ![k].isNextFreed = g], k, g)
    BY <1>12, <2>1, MarkForm
  <2> QED BY <1>14, <2>2
<1>16. malloc(list, size) = Append(front, area)
  <2>1. front = [SubSeq(list, 1, k) EXCEPT ![k].isNextFreed = (fit = {} /\ @)]
    BY <1>11, <1>13, <1>14
  <2>2. area = Area(Max(Ends(list, last)), size, fit # {} /\ ~GapIs(list, k, size))
    BY <1>6, <1>9, <1>10 DEF Area
  <2> QED BY <1>1, <1>4, <2>1, <2>2 DEF malloc
<1>17. area \in VMA /\ area.start = s /\ area.end = s + size /\ ~area.grows_down
        /\ area.isNextFreed = f
  BY <1>8, <1>10 DEF VMA
<1> HIDE DEF fit
<1>18. PICK new : new = Append(front, area)
  OBVIOUS
<1>19. /\ new \in Seq(VMA) /\ Len(new) = k + 1 /\ new[k + 1] = area
       /\ \A j \in 1 .. k : new[j] = front[j]
  BY <1>3, <1>12, <1>15, <1>17, <1>18 DEF Marking
<1>20. \A j \in 1 .. k - 1 : new[j] = list[j]
  <2> TAKE j \in 1 .. k - 1
  <2>1. j \in 1 .. k /\ j # k
    BY <1>3, SMT
  <2>2. front[j] = cut[j]
    BY <1>12, <1>15, <2>1 DEF Marking
  <2> QED BY <1>12, <1>19, <2>1, <2>2
<1>21. SameArea(new[k], list[k]) /\ (new[k].isNextFreed <=> k = Len(list) /\ list[k].isNextFreed)
  <2>1. k \in 1 .. k /\ new[k] = front[k] /\ cut[k] = list[k]
    BY <1>3, <1>12, <1>19
  <2>2. SameArea(front[k], cut[k]) /\ front[k].isNextFreed = g
    BY <1>15 DEF Marking
  <2>3. g = (k = Len(list) /\ list[k].isNextFreed)
    BY <1>3, <1>13, <2>1
  <2>4. SameArea(new[k], list[k])
    BY <2>1, <2>2
  <2>5. new[k].isNextFreed = g
    BY <2>1, <2>2
  <2> QED BY <2>3, <2>4, <2>5
<1>22. \A j \in 2 .. k : ~list[j].grows_down => list[j].end <= new[k + 1].start
  <2> TAKE j \in 2 .. k
  <2> HAVE ~list[j].grows_down
  <2>1. j \in 2 .. last
    BY <1>3, <1>5
  <2>2. list[j].end \in Ends(list, last)
    BY <2>1 DEF Ends
  <2> QED BY <1>8, <1>17, <1>19, <2>2
<1>23. k = Len(list) => ~new[k + 1].isNextFreed /\ new[k + 1].start \in Ends(list, k)
  BY <1>3, <1>5, <1>8, <1>9, <1>17, <1>19
<1>24. Allocated(list, new, k, size)
  BY <1>3, <1>17, <1>19, <1>20, <1>21, <1>22, <1>23 DEF Allocated
<1> QED BY <1>3, <1>16, <1>18, <1>24

-------------------------------------------------------------------------------
(* The order of the list. *)

\* The highest area of the image.
Highest == IF StackPlace = Known THEN Known - 1 ELSE Known
Top == Loaded[Highest].end

\* The arguments, the image and the stack are there and carry no mark, but the
\* last of them may; what malloc() added is in the order of the addresses, above
\* them all but the stack.
ListInv(list) ==
    /\ list \in Seq(VMA) /\ Len(list) >= Known
    /\ \A k \in 1 .. Known : SameArea(list[k], Loaded[k])
    /\ \A k \in 1 .. Known - 1 : ~list[k].isNextFreed
    /\ \A k \in Known + 1 .. Len(list) :
           ~list[k].grows_down /\ list[k].start < list[k].end /\ list[k].end <= Limit
    /\ \A k \in Known + 1 .. Len(list) : \A j \in 1 .. k - 1 :
           j # StackPlace => list[j].end <= list[k].start

\* Both layouts are in order.
LEMMA LoadedStarts == Starts(Loaded, StackPlace) /\ StackPlace \in {2, Known}
  BY HeapAssumption DEF Loaded, StackPlace, Known

\* The areas of a program when it starts.
LEMMA LoadedOrder ==
    /\ Known \in Nat /\ Known >= 3 /\ Top \in Nat /\ StackPlace \in 2 .. Known
    /\ Highest \in 2 .. Known /\ Highest \in Known - 1 .. Known /\ Highest # StackPlace
    /\ \A k \in 1 .. Known : /\ Loaded[k].start \in Nat /\ Loaded[k].end \in Nat
                             /\ Loaded[k].start < Loaded[k].end
                             /\ Loaded[k].grows_down <=> k = StackPlace
    /\ \A k \in 1 .. Known : k # StackPlace => /\ Loaded[k].end <= Top
                                              /\ Loaded[k].end <= Loaded[StackPlace].start
    /\ \A k \in 1 .. Known : \A j \in 1 .. k - 1 :
           j # StackPlace => Loaded[j].end <= Loaded[k].start
    /\ Limit \in Nat /\ Limit <= Loaded[StackPlace].start
<1>1. Known \in Nat /\ Known >= 3 /\ DOMAIN Loaded = 1 .. Known
  BY LoadedStarts DEF Starts, Known
<1>2. ASSUME NEW k \in 1 .. Known
      PROVE  /\ Loaded[k].start \in Nat /\ Loaded[k].end \in Nat
             /\ Loaded[k].start < Loaded[k].end
             /\ Loaded[k].grows_down <=> k = StackPlace
  <2>1. Loaded[k] \in VMA
    <3>1. Loaded \in Seq(VMA)
      BY LoadedStarts DEF Starts
    <3> QED BY <3>1 DEF Known
  <2>2. Loaded[k].start \in Nat /\ Loaded[k].end \in Nat
    BY <2>1 DEF VMA
  <2>3. k \in DOMAIN Loaded
    BY <1>1
  <2>4. Loaded[k].start < Loaded[k].end /\ (Loaded[k].grows_down <=> k = StackPlace)
    BY <2>3, LoadedStarts DEF Starts
  <2> QED BY <2>2, <2>4
<1>3. /\ \A k \in 1 .. Known : \A j \in 1 .. k - 1 :
             j # StackPlace => Loaded[j].end <= Loaded[k].start
      /\ \A k \in 1 .. Known : k # StackPlace => Loaded[k].end <= Loaded[StackPlace].start
      /\ Limit \in Nat /\ Limit <= Loaded[StackPlace].start
  BY <1>1, LoadedStarts, HeapAssumption DEF Starts
<1>4. /\ StackPlace \in 2 .. Known /\ Highest \in 2 .. Known
      /\ Highest \in Known - 1 .. Known /\ Highest # StackPlace
  <2>1. StackPlace \in 2 .. Known
    BY <1>1, LoadedStarts
  <2>2. CASE StackPlace = Known
    BY <1>1, <2>1, <2>2 DEF Highest
  <2>3. CASE StackPlace # Known
    BY <1>1, <2>1, <2>3 DEF Highest
  <2> QED BY <2>1, <2>2, <2>3
<1>5. Highest \in 1 .. Known /\ Top \in Nat
  <2>1. Highest \in 1 .. Known
    BY <1>1, <1>4
  <2> QED BY <1>2, <2>1 DEF Top
<1>6. ASSUME NEW k \in 1 .. Known, k # StackPlace PROVE Loaded[k].end <= Top
  <2>1. CASE k = Highest
    BY <1>5, <2>1 DEF Top
  <2>2. CASE k # Highest
    <3>1. k \in 1 .. Highest - 1
      <4>1. CASE StackPlace = Known
        BY <1>1, <1>6, <2>2, <4>1 DEF Highest
      <4>2. CASE StackPlace # Known
        BY <1>1, <2>2, <4>2 DEF Highest
      <4> QED BY <4>1, <4>2
    <3>2. Loaded[k].end <= Loaded[Highest].start
      BY <1>3, <1>5, <1>6, <3>1
    <3>3. /\ Loaded[k].end \in Nat /\ Loaded[Highest].start \in Nat
          /\ Loaded[Highest].end \in Nat /\ Loaded[Highest].start < Loaded[Highest].end
      BY <1>2, <1>5
    <3> QED BY <3>2, <3>3 DEF Top
  <2> QED BY <2>1, <2>2
<1> QED BY <1>1, <1>2, <1>3, <1>4, <1>5, <1>6

\* What one finds in a list of this kind.
LEMMA ListEntries ==
    ASSUME NEW list, ListInv(list)
    PROVE  /\ list \in Seq(VMA) /\ Len(list) \in Nat /\ Len(list) >= Known
           /\ \A k \in 1 .. Len(list) : /\ list[k].start \in Nat /\ list[k].end \in Nat
                                        /\ list[k].start < list[k].end
                                        /\ list[k].grows_down <=> k = StackPlace
           /\ \A k \in 1 .. Len(list) : k # StackPlace => list[k].end <= Top + Limit
           /\ list[1].end <= list[Highest].start
<1>1. list \in Seq(VMA) /\ Len(list) \in Nat /\ Len(list) >= Known
  BY DEF ListInv
<1>2. Known \in Nat /\ Known >= 3 /\ Top \in Nat /\ Limit \in Nat /\ StackPlace \in 2 .. Known
  BY LoadedOrder, HeapAssumption
<1>3. ASSUME NEW k \in 1 .. Len(list)
      PROVE  /\ list[k].start \in Nat /\ list[k].end \in Nat
             /\ list[k].start < list[k].end
             /\ list[k].grows_down <=> k = StackPlace
             /\ k # StackPlace => list[k].end <= Top + Limit
  <2>1. list[k] \in VMA
    BY <1>1
  <2>2. list[k].start \in Nat /\ list[k].end \in Nat
    BY <2>1 DEF VMA
  <2>3. CASE k \in 1 .. Known
    <3>1. SameArea(list[k], Loaded[k])
      BY <2>3 DEF ListInv
    <3>2. /\ list[k].start < list[k].end
          /\ list[k].grows_down <=> k = StackPlace
      BY <2>3, <3>1, LoadedOrder DEF SameArea
    <3>3. ASSUME k # StackPlace PROVE list[k].end <= Top + Limit
      <4>2. list[k].end <= Top
        BY <2>3, <3>1, <3>3, LoadedOrder DEF SameArea
      <4> QED BY <1>2, <2>2, <4>2
    <3> QED BY <2>2, <3>2, <3>3
  <2>4. CASE k \notin 1 .. Known
    <3>1. k \in Known + 1 .. Len(list)
      BY <1>1, <1>2, <2>4
    <3>2. ~list[k].grows_down /\ list[k].start < list[k].end /\ list[k].end <= Limit
      BY <3>1 DEF ListInv
    <3> QED BY <1>2, <2>2, <3>1, <3>2
  <2> QED BY <2>3, <2>4
<1>4. list[1].end <= list[Highest].start
  <2>1. 1 \in 1 .. Known /\ Highest \in 1 .. Known /\ 1 \in 1 .. Highest - 1 /\ 1 # StackPlace
    BY <1>2, LoadedOrder
  <2>2. SameArea(list[1], Loaded[1]) /\ SameArea(list[Highest], Loaded[Highest])
    BY <2>1 DEF ListInv
  <2>3. Loaded[1].end <= Loaded[Highest].start
    BY <2>1, LoadedOrder
  <2> QED BY <2>2, <2>3 DEF SameArea
<1> QED BY <1>1, <1>3, <1>4

\* The last area of a list that malloc() made is new: above all the others but
\* the stack.
Newest(list, k, size) ==
    /\ Len(list) = k + 1 /\ k >= Known
    /\ list[k + 1].start >= Top
    /\ list[k + 1].end = list[k + 1].start + size

\* malloc() keeps the order of the list.
LEMMA MallocKeeps ==
    ASSUME NEW list, ListInv(list), NEW size \in Nat \ {0}, Fits(malloc(list, size))
    PROVE  /\ ListInv(malloc(list, size))
           /\ \E k \in 1 .. Len(list) : /\ StopsAt(list, size, k)
                                        /\ Allocated(list, malloc(list, size), k, size)
                                        /\ Newest(malloc(list, size), k, size)
<1>1. /\ list \in Seq(VMA) /\ Len(list) \in Nat /\ Len(list) >= Known
      /\ \A k \in 1 .. Len(list) : /\ list[k].start \in Nat /\ list[k].end \in Nat
                                   /\ list[k].start < list[k].end
                                   /\ list[k].grows_down <=> k = StackPlace
      /\ \A k \in 1 .. Len(list) : k # StackPlace => list[k].end <= Top + Limit
      /\ list[1].end <= list[Highest].start
  BY ListEntries
<1>2. /\ Known \in Nat /\ Known >= 3 /\ Top \in Nat /\ Limit \in Nat /\ size \in Nat /\ size > 0
      /\ StackPlace \in 2 .. Known
      /\ Highest \in 2 .. Known /\ Highest # StackPlace
  BY LoadedOrder
<1>3. PICK new : new = malloc(list, size)
  OBVIOUS
<1>4. PICK b \in Nat : b = Top + Limit
  BY <1>2
<1>5. \A j \in 2 .. Len(list) : ~list[j].grows_down => list[j].end <= b
  BY <1>1, <1>4
<1>6. PICK k : StopsAt(list, size, k) /\ Allocated(list, new, k, size)
  <2>1. Len(list) >= 1
    BY <1>1, <1>2
  <2> QED BY <1>1, <1>2, <1>3, <1>5, <2>1, MallocForm
<1>7. k \in 1 .. Len(list) /\ new \in Seq(VMA) /\ Len(new) = k + 1
  BY <1>6 DEF Allocated
<1>8. k >= Known
  <2>1. CASE k = Len(list)
    BY <1>1, <2>1
  <2>2. CASE k \in Reusable(list, size)
    <3>1. list[k].isNextFreed
      BY <2>2 DEF Reusable
    <3>2. k \notin 1 .. Known - 1
      BY <3>1 DEF ListInv
    <3> QED BY <1>2, <1>7, <3>2
  <2> QED BY <1>6, <2>1, <2>2 DEF StopsAt
<1>9. \A j \in 1 .. k : SameArea(new[j], list[j])
  <2> TAKE j \in 1 .. k
  <2>1. CASE j = k
    BY <1>6, <2>1 DEF Allocated
  <2>2. CASE j # k
    <3>1. j \in 1 .. k - 1
      BY <1>7, <2>2
    <3> QED BY <1>6, <3>1 DEF Allocated, SameArea
  <2> QED BY <2>1, <2>2
<1>10. new[k + 1].start \in Nat /\ new[k + 1].end \in Nat
  <2>1. new[k + 1] \in VMA
    BY <1>7
  <2> QED BY <2>1 DEF VMA
<1>11. new[k + 1].end = new[k + 1].start + size /\ ~new[k + 1].grows_down
  BY <1>6 DEF Allocated
<1>12. new[k + 1].end <= Limit
  BY <1>3, <1>7 DEF Fits
<1>13. \A j \in 1 .. k : j # StackPlace => list[j].end <= new[k + 1].start
  <2>1. \A j \in 2 .. k : j # StackPlace => list[j].end <= new[k + 1].start
    <3> TAKE j \in 2 .. k
    <3> HAVE j # StackPlace
    <3>1. ~list[j].grows_down
      BY <1>1, <1>7
    <3> QED BY <1>6, <3>1 DEF Allocated
  <2>2. list[1].end <= new[k + 1].start
    <3>1. Highest \in 2 .. k /\ 1 \in 1 .. Len(list) /\ Highest \in 1 .. Len(list)
      BY <1>1, <1>2, <1>7, <1>8
    <3>2. list[Highest].end <= new[k + 1].start
      BY <1>2, <2>1, <3>1
    <3>3. /\ list[1].end \in Nat /\ list[Highest].start \in Nat /\ list[Highest].end \in Nat
          /\ list[Highest].start < list[Highest].end
      BY <1>1, <3>1
    <3> QED BY <1>1, <1>10, <3>2, <3>3
  <2> TAKE j \in 1 .. k
  <2>3. j = 1 \/ j \in 2 .. k
    BY <1>7
  <2> QED BY <2>1, <2>2, <2>3
<1>14. new[k + 1].start >= Top
  <2>1. Highest \in 1 .. k /\ Highest \in 1 .. Known
    BY <1>2, <1>8, <1>7
  <2>2. list[Highest].end = Top
    BY <2>1 DEF ListInv, SameArea, Top
  <2>3. list[Highest].end <= new[k + 1].start
    BY <1>2, <1>13, <2>1
  <2> QED BY <1>2, <1>10, <2>2, <2>3
<1>15. ListInv(new)
  <2>1. Len(new) >= Known
    BY <1>2, <1>7, <1>8
  <2>2. \A j \in 1 .. Known : SameArea(new[j], Loaded[j])
    <3> TAKE j \in 1 .. Known
    <3>1. j \in 1 .. k
      BY <1>2, <1>7, <1>8
    <3>2. SameArea(new[j], list[j])
      BY <1>9, <3>1
    <3>3. SameArea(list[j], Loaded[j])
      BY DEF ListInv
    <3> QED BY <3>2, <3>3 DEF SameArea
  <2>3. \A j \in 1 .. Known - 1 : ~new[j].isNextFreed
    <3> TAKE j \in 1 .. Known - 1
    <3>1. j \in 1 .. k - 1
      BY <1>2, <1>7, <1>8
    <3>2. new[j] = list[j]
      BY <1>6, <3>1 DEF Allocated
    <3> QED BY <3>2 DEF ListInv
  <2>4. \A j \in Known + 1 .. Len(new) :
            ~new[j].grows_down /\ new[j].start < new[j].end /\ new[j].end <= Limit
    <3> TAKE j \in Known + 1 .. Len(new)
    <3>1. CASE j = k + 1
      <4>1. new[k + 1].start < new[k + 1].end
        BY <1>2, <1>10, <1>11
      <4> QED BY <1>11, <1>12, <3>1, <4>1
    <3>2. CASE j # k + 1
      <4>1. j \in 1 .. k /\ j \in Known + 1 .. Len(list)
        BY <1>2, <1>7, <3>2
      <4>2. SameArea(new[j], list[j])
        BY <1>9, <4>1
      <4>3. ~list[j].grows_down /\ list[j].start < list[j].end /\ list[j].end <= Limit
        BY <4>1 DEF ListInv
      <4> QED BY <4>2, <4>3 DEF SameArea
    <3> QED BY <3>1, <3>2
  <2>5. \A m \in Known + 1 .. Len(new) : \A j \in 1 .. m - 1 :
            j # StackPlace => new[j].end <= new[m].start
    <3> TAKE m \in Known + 1 .. Len(new)
    <3> TAKE j \in 1 .. m - 1
    <3> HAVE j # StackPlace
    <3>1. j \in 1 .. k /\ SameArea(new[j], list[j])
      <4>1. j \in 1 .. k
        BY <1>2, <1>7
      <4> QED BY <1>9, <4>1
    <3>2. CASE m = k + 1
      BY <1>13, <3>1, <3>2 DEF SameArea
    <3>3. CASE m # k + 1
      <4>1. m \in 1 .. k /\ m \in Known + 1 .. Len(list)
        BY <1>2, <1>7, <3>3
      <4>2. SameArea(new[m], list[m])
        BY <1>9, <4>1
      <4>3. list[j].end <= list[m].start
        BY <4>1 DEF ListInv
      <4> QED BY <3>1, <4>2, <4>3 DEF SameArea
    <3> QED BY <3>2, <3>3
  <2> QED BY <1>7, <2>1, <2>2, <2>3, <2>4, <2>5 DEF ListInv
<1>16. Newest(new, k, size)
  BY <1>7, <1>8, <1>11, <1>14 DEF Newest
<1> QED BY <1>3, <1>6, <1>7, <1>15, <1>16

-------------------------------------------------------------------------------
(* The gaps that free() leaves. *)

\* Area k carries a mark and an area of some size would be put behind it: any
\* fits behind the stack.
Leaves(list, k) ==
    list[k].isNextFreed /\ (k = StackPlace \/ list[k + 1].start # list[k].end)

\* None but area g does.
OnlyAt(list, g) == \A k \in Known .. Len(list) - 1 : k # g => ~Leaves(list, k)

\* No gap.  The stack carries no mark, though it may be the last of the list.
NoneLeft(list) ==
    /\ StackPlace = Known => ~list[Known].isNextFreed
    /\ \A k \in Known .. Len(list) - 1 : ~Leaves(list, k)

\* One gap, where an area of this size fits.
OneLeft(list, size) ==
    \E g \in Known .. Len(list) - 1 :
        list[g].isNextFreed /\ GapFits(list, g, size) /\ OnlyAt(list, g)

\* The new area is behind all the others.
Added(list, new) ==
    /\ Len(new) = Len(list) + 1
    /\ \A j \in 1 .. Len(list) : SameArea(new[j], list[j])

\* The last area is one that malloc() returned.
Given(new, size) ==
    /\ Len(new) > Known
    /\ new[Len(new)].start >= Top
    /\ new[Len(new)].end = new[Len(new)].start + size

\* Behind the image everything is above what is before it in the list.
LEMMA ListInOrder ==
    ASSUME NEW list, ListInv(list), NEW k \in Known .. Len(list), NEW j \in 1 .. k - 1,
           j # StackPlace
    PROVE  list[j].end <= list[k].start
<1>1. CASE k = Known
  <2>1. Known \in 1 .. Known /\ j \in 1 .. Known
    BY <1>1, LoadedOrder
  <2>2. SameArea(list[j], Loaded[j]) /\ SameArea(list[Known], Loaded[Known])
    BY <2>1 DEF ListInv
  <2>3. Loaded[j].end <= Loaded[Known].start
    BY <1>1, <2>1, LoadedOrder
  <2> QED BY <1>1, <2>2, <2>3 DEF SameArea
<1>2. CASE k # Known
  <2>1. k \in Known + 1 .. Len(list)
    BY <1>2, LoadedOrder, ListEntries
  <2> QED BY <2>1 DEF ListInv
<1> QED BY <1>1, <1>2

\* malloc() breaks off only at a gap.
LEMMA ReusableLeaves ==
    ASSUME NEW list, ListInv(list), NEW size \in Nat \ {0}, NEW k \in Reusable(list, size)
    PROVE  k \in Known .. Len(list) - 1 /\ Leaves(list, k)
<1>1. k \in 1 .. Len(list) - 1 /\ list[k].isNextFreed /\ GapFits(list, k, size)
  BY DEF Reusable
<1>2. Known \in Nat /\ Len(list) \in Nat
  BY LoadedOrder, ListEntries
<1>3. k \in Known .. Len(list) - 1
  <2>1. k \notin 1 .. Known - 1
    BY <1>1 DEF ListInv
  <2> QED BY <1>1, <1>2, <2>1
<1>4. /\ list[k].end \in Nat /\ list[k + 1].start \in Nat
  <2>1. k \in 1 .. Len(list) /\ k + 1 \in 1 .. Len(list)
    BY <1>1, <1>2
  <2> QED BY <2>1, ListEntries
<1>5. list[k + 1].start # list[k].end
  BY <1>1, <1>4 DEF GapFits
<1> QED BY <1>1, <1>3, <1>5 DEF Leaves

\* Where nothing is left malloc() puts the new area behind all the others, and
\* nothing is left again.
LEMMA MallocAdds ==
    ASSUME NEW list, ListInv(list), NEW size \in Nat \ {0}, Fits(malloc(list, size)),
           NoneLeft(list)
    PROVE  /\ ListInv(malloc(list, size)) /\ NoneLeft(malloc(list, size))
           /\ Added(list, malloc(list, size)) /\ Given(malloc(list, size), size)
<1>1. PICK new : new = malloc(list, size)
  OBVIOUS
<1>2. PICK k \in 1 .. Len(list) : /\ ListInv(new) /\ StopsAt(list, size, k)
                                  /\ Allocated(list, new, k, size) /\ Newest(new, k, size)
  BY <1>1, MallocKeeps
<1>3. /\ Known \in Nat /\ Known >= 3 /\ Len(list) \in Nat /\ Len(list) >= Known
      /\ StackPlace \in 2 .. Known
  BY LoadedOrder, ListEntries
<1>4. Reusable(list, size) = {}
  <2> SUFFICES ASSUME NEW j \in Reusable(list, size) PROVE FALSE
    OBVIOUS
  <2>1. j \in Known .. Len(list) - 1 /\ Leaves(list, j)
    BY ReusableLeaves
  <2> QED BY <2>1 DEF NoneLeft
<1>5. k = Len(list)
  BY <1>2, <1>4 DEF StopsAt
<1>6. Len(new) = Len(list) + 1 /\ \A j \in 1 .. Len(list) - 1 : new[j] = list[j]
  BY <1>2, <1>5 DEF Allocated
<1>7. SameArea(new[k], list[k]) /\ (new[k].isNextFreed <=> list[k].isNextFreed)
  BY <1>2, <1>5 DEF Allocated
<1>8. \A j \in 1 .. Len(list) : /\ SameArea(new[j], list[j])
                                /\ new[j].isNextFreed <=> list[j].isNextFreed
  <2> TAKE j \in 1 .. Len(list)
  <2>1. CASE j = k
    BY <1>7, <2>1
  <2>2. CASE j # k
    <3>1. j \in 1 .. Len(list) - 1
      BY <1>3, <1>5, <2>2
    <3> QED BY <1>6, <3>1 DEF SameArea
  <2> QED BY <2>1, <2>2
<1>9. StackPlace = Known => ~new[Known].isNextFreed
  BY <1>3, <1>8 DEF NoneLeft
<1>10. ASSUME NEW j \in Known .. Len(new) - 1, j # StackPlace PROVE ~Leaves(new, j)
  <2>1. j \in 1 .. Len(list) /\ j \in Known .. Len(list)
    BY <1>3, <1>6
  <2>2. CASE j = k
    <3>1. new[k + 1].start \in Ends(list, k)
      BY <1>2, <1>5 DEF Allocated
    <3>2. j \in 1 .. Len(new) /\ j + 1 \in 1 .. Len(new) /\ j + 1 \in Known + 1 .. Len(new)
          /\ j \in 1 .. (j + 1) - 1
      BY <1>3, <1>6, <2>1
    <3>3. new[j].end <= new[j + 1].start
      BY <1>2, <1>10, <3>2 DEF ListInv
    <3>4. new[j].end = list[k].end
      BY <1>7, <2>2 DEF SameArea
    <3>5. /\ new[j].end \in Nat /\ new[j + 1].start \in Nat
          /\ list[k].start \in Nat /\ list[k].end \in Nat /\ list[k].start < list[k].end
      BY <1>2, <2>1, <2>2, <3>2, ListEntries
    <3>6. \A e \in Ends(list, k) : e <= list[k].end
      <4> SUFFICES ASSUME NEW i \in 2 .. k, ~list[i].grows_down PROVE list[i].end <= list[k].end
        BY <3>5 DEF Ends
      <4>1. i \in 1 .. Len(list) /\ i # StackPlace
        BY <1>3, <1>5, ListEntries
      <4>2. CASE i = k
        BY <3>5, <4>2
      <4>3. CASE i # k
        <5>1. i \in 1 .. k - 1
          BY <4>1, <4>3
        <5>2. list[i].end <= list[k].start
          BY <2>1, <2>2, <4>1, <5>1, ListInOrder
        <5>3. list[i].end \in Nat
          BY <4>1, ListEntries
        <5> QED BY <3>5, <5>2, <5>3
      <4> QED BY <4>2, <4>3
    <3>7. new[j + 1].start <= new[j].end
      BY <2>2, <3>1, <3>4, <3>6
    <3>8. new[j + 1].start = new[j].end
      BY <3>3, <3>5, <3>7
    <3> QED BY <1>10, <3>2, <3>8 DEF Leaves
  <2>3. CASE j # k
    <3>1. j \in Known .. Len(list) - 1 /\ j + 1 \in 1 .. Len(list)
      BY <1>3, <1>5, <2>1, <2>3
    <3>2. ~Leaves(list, j)
      BY <3>1 DEF NoneLeft
    <3>3. new[j].end = list[j].end /\ (new[j].isNextFreed <=> list[j].isNextFreed)
      BY <1>8, <2>1 DEF SameArea
    <3>4. new[j + 1].start = list[j + 1].start
      BY <1>8, <3>1 DEF SameArea
    <3> QED BY <3>1, <3>2, <3>3, <3>4 DEF Leaves
  <2> QED BY <2>2, <2>3
<1>11. NoneLeft(new)
  <2> SUFFICES ASSUME NEW j \in Known .. Len(new) - 1, j = StackPlace PROVE ~Leaves(new, j)
    BY <1>9, <1>10 DEF NoneLeft
  <2>1. j = Known
    BY <1>3
  <2> QED BY <1>9, <2>1 DEF Leaves
<1>12. Given(new, size)
  <2>1. Len(new) = k + 1 /\ Len(new) > Known
    BY <1>3, <1>5, <1>6
  <2> QED BY <1>2, <2>1 DEF Newest, Given
<1> QED BY <1>1, <1>2, <1>6, <1>8, <1>11, <1>12 DEF Added

\* Where one gap is left malloc() of a size that fits there uses it: what was
\* behind it is no longer in the list, and nothing is left.
LEMMA MallocFills ==
    ASSUME NEW list, ListInv(list), NEW size \in Nat \ {0}, Fits(malloc(list, size)),
           NoneLeft(list) \/ OneLeft(list, size)
    PROVE  /\ ListInv(malloc(list, size)) /\ NoneLeft(malloc(list, size))
           /\ Given(malloc(list, size), size)
<1> SUFFICES ASSUME OneLeft(list, size)
             PROVE  /\ ListInv(malloc(list, size)) /\ NoneLeft(malloc(list, size))
                    /\ Given(malloc(list, size), size)
  BY MallocAdds
<1>1. PICK new : new = malloc(list, size)
  OBVIOUS
<1>2. PICK k \in 1 .. Len(list) : /\ ListInv(new) /\ StopsAt(list, size, k)
                                  /\ Allocated(list, new, k, size) /\ Newest(new, k, size)
  BY <1>1, MallocKeeps
<1>3. Known \in Nat /\ Known >= 3 /\ Len(list) \in Nat /\ Len(list) >= Known
  BY LoadedOrder, ListEntries
<1>4. PICK g \in Known .. Len(list) - 1 :
          list[g].isNextFreed /\ GapFits(list, g, size) /\ OnlyAt(list, g)
  BY DEF OneLeft
<1>5. g \in Reusable(list, size)
  <2>1. g \in 1 .. Len(list) - 1
    BY <1>3
  <2> QED BY <1>4, <2>1 DEF Reusable
<1>6. k = g
  <2>1. k \in Reusable(list, size)
    BY <1>2, <1>5 DEF StopsAt
  <2>2. k \in Known .. Len(list) - 1 /\ Leaves(list, k)
    BY <2>1, ReusableLeaves
  <2> QED BY <1>4, <2>2 DEF OnlyAt
<1>7. Len(new) = g + 1 /\ \A j \in 1 .. g - 1 : new[j] = list[j]
  BY <1>2, <1>6 DEF Allocated
<1>8. SameArea(new[g], list[g]) /\ ~new[g].isNextFreed
  <2>1. g # Len(list)
    BY <1>3
  <2> QED BY <1>2, <1>6, <2>1 DEF Allocated
<1>9. ASSUME NEW j \in Known .. g, Leaves(new, j) PROVE FALSE
  <2>1. j # g
    BY <1>8, <1>9 DEF Leaves
  <2>2. /\ j \in 1 .. g - 1 /\ j \in Known .. Len(list) - 1
        /\ j + 1 = g \/ j + 1 \in 1 .. g - 1
    BY <1>3, <2>1
  <2>3. new[j] = list[j]
    BY <1>7, <2>2
  <2>4. new[j + 1].start = list[j + 1].start
    BY <1>7, <1>8, <2>2 DEF SameArea
  <2>5. Leaves(list, j)
    BY <1>9, <2>3, <2>4 DEF Leaves
  <2> QED BY <1>4, <2>1, <2>2, <2>5 DEF OnlyAt
<1>10. NoneLeft(new)
  <2>1. \A j \in Known .. g : ~Leaves(new, j)
    BY <1>9
  <2>2. \A j \in Known .. Len(new) - 1 : j \in Known .. g
    BY <1>3, <1>7
  <2>3. StackPlace = Known => ~new[Known].isNextFreed
    <3>1. Known \in Known .. g
      BY <1>3
    <3> QED BY <2>1, <3>1 DEF Leaves
  <2> QED BY <2>1, <2>2, <2>3 DEF NoneLeft
<1>11. Given(new, size)
  <2>1. Len(new) = k + 1 /\ Len(new) > Known
    BY <1>3, <1>6, <1>7
  <2> QED BY <1>2, <2>1 DEF Newest, Given
<1> QED BY <1>1, <1>2, <1>10, <1>11

-------------------------------------------------------------------------------
(* The lists that free() and fork() make. *)

\* A sequence without its element p.
LEMMA Without ==
    ASSUME NEW S, NEW s \in Seq(S), NEW p \in 1 .. Len(s)
    PROVE  /\ RemoveAt(s, p) \in Seq(S) /\ Len(RemoveAt(s, p)) = Len(s) - 1
           /\ \A j \in 1 .. p - 1 : RemoveAt(s, p)[j] = s[j]
           /\ \A j \in p .. Len(s) - 1 : RemoveAt(s, p)[j] = s[j + 1]
<1>1. PICK u : u = SubSeq(s, 1, p - 1)
  OBVIOUS
<1>2. PICK v : v = SubSeq(s, p + 1, Len(s))
  OBVIOUS
<1>3. u \in Seq(S) /\ Len(u) = p - 1 /\ \A j \in 1 .. p - 1 : u[j] = s[j]
  BY <1>1
<1>4. v \in Seq(S) /\ Len(v) = Len(s) - p /\ \A j \in 1 .. Len(s) - p : v[j] = s[p + j]
  BY <1>2
<1>5. RemoveAt(s, p) = u \o v
  BY <1>1, <1>2 DEF RemoveAt
<1>6. u \o v \in Seq(S) /\ Len(u \o v) = Len(s) - 1
  BY <1>3, <1>4
<1>7. ASSUME NEW j \in 1 .. p - 1 PROVE (u \o v)[j] = s[j]
  BY <1>3, <1>4
<1>8. ASSUME NEW j \in p .. Len(s) - 1 PROVE (u \o v)[j] = s[j + 1]
  <2>1. (u \o v)[j] = v[j - (p - 1)]
    BY <1>3, <1>4
  <2>2. j - (p - 1) \in 1 .. Len(s) - p /\ p + (j - (p - 1)) = j + 1
    OBVIOUS
  <2> QED BY <1>4, <2>1, <2>2
<1> QED BY <1>5, <1>6, <1>7, <1>8

\* Area p is no longer in the list, and the one before it is marked.
Removed(list, new, p) ==
    /\ new \in Seq(VMA) /\ Len(new) = Len(list) - 1
    /\ \A j \in 1 .. p - 2 : new[j] = list[j]
    /\ SameArea(new[p - 1], list[p - 1]) /\ new[p - 1].isNextFreed
    /\ \A j \in p .. Len(list) - 1 : new[j] = list[j + 1]

\* free() of an address above the image and below the stack takes an area that
\* malloc() added, or none.
LEMMA FreeForm ==
    ASSUME NEW list, ListInv(list), NEW ptr \in Nat, ptr >= Top, ptr < Limit
    PROVE  \/ /\ free(list, ptr) = list
              /\ \A p \in Known + 1 .. Len(list) : list[p].start # ptr
           \/ \E p \in Known + 1 .. Len(list) :
                  list[p].start = ptr /\ Removed(list, free(list, ptr), p)
<1> DEFINE found == {k \in 1 .. Len(list) - 1 : list[k + 1].start = ptr}
<1>1. PICK T : T = found
  OBVIOUS
<1>2. PICK k : k = Min(T)
  OBVIOUS
<1>3. Known \in Nat /\ Known >= 3 /\ Len(list) \in Nat /\ Len(list) >= Known /\ list \in Seq(VMA)
  BY LoadedOrder, ListEntries
<1>4. CASE T = {}
  <2>1. free(list, ptr) = list
    BY <1>1, <1>4 DEF free
  <2>2. \A p \in Known + 1 .. Len(list) : list[p].start # ptr
    <3> SUFFICES ASSUME NEW p \in Known + 1 .. Len(list), list[p].start = ptr PROVE FALSE
      OBVIOUS
    <3>1. p - 1 \in 1 .. Len(list) - 1 /\ (p - 1) + 1 = p
      BY <1>3
    <3> QED BY <1>1, <1>4, <3>1
  <2> QED BY <2>1, <2>2
<1>5. CASE T # {}
  <2>1. k \in 1 .. Len(list) - 1 /\ list[k + 1].start = ptr
    <3>1. T \subseteq Nat
      BY <1>1, <1>3
    <3>2. k \in T
      BY <1>2, <1>5, <3>1, LeastNatural
    <3> QED BY <1>1, <3>2
  <2>2. PICK p : p = k + 1
    OBVIOUS
  <2>3. p \in 2 .. Len(list) /\ k = p - 1 /\ list[p].start = ptr
    BY <1>3, <2>1, <2>2
  <2>4. p > Known
    <3> SUFFICES ASSUME p \in 1 .. Known PROVE FALSE
      BY <1>3, <2>3
    <3>1. SameArea(list[p], Loaded[p])
      BY DEF ListInv
    <3>2. Loaded[p].start \in Nat /\ Loaded[p].end \in Nat /\ Loaded[p].start < Loaded[p].end
      BY LoadedOrder
    <3>3. CASE p = StackPlace
      <4>1. Limit <= Loaded[StackPlace].start /\ Limit \in Nat
        BY LoadedOrder
      <4> QED BY <2>3, <3>1, <3>2, <3>3, <4>1 DEF SameArea
    <3>4. CASE p # StackPlace
      <4>1. Loaded[p].end <= Top /\ Top \in Nat
        BY <3>4, LoadedOrder
      <4> QED BY <2>3, <3>1, <3>2, <4>1 DEF SameArea
    <3> QED BY <3>3, <3>4
  <2>5. PICK marked : marked = [list EXCEPT ![k].isNextFreed = TRUE]
    OBVIOUS
  <2>6. Marking(list, marked, k, TRUE)
    <3>1. k \in 1 .. Len(list)
      BY <1>3, <2>1
    <3>2. Marking(list, [list EXCEPT ![k].isNextFreed = TRUE], k, TRUE)
      BY <1>3, <3>1, MarkForm
    <3> QED BY <2>5, <3>2
  <2>7. PICK new : new = RemoveAt(marked, p)
    OBVIOUS
  <2>8. free(list, ptr) = new
    BY <1>1, <1>2, <1>5, <2>2, <2>5, <2>7 DEF free
  <2>9. marked \in Seq(VMA) /\ Len(marked) = Len(list) /\ p \in 1 .. Len(marked)
    BY <2>3, <2>6 DEF Marking
  <2>10. /\ new \in Seq(VMA) /\ Len(new) = Len(list) - 1
         /\ \A j \in 1 .. p - 1 : new[j] = marked[j]
         /\ \A j \in p .. Len(list) - 1 : new[j] = marked[j + 1]
    BY <2>7, <2>9, Without
  <2>11. \A j \in 1 .. p - 2 : new[j] = list[j]
    <3> TAKE j \in 1 .. p - 2
    <3>1. j \in 1 .. p - 1 /\ j \in 1 .. Len(list) /\ j # k
      BY <1>3, <2>3
    <3>2. marked[j] = list[j]
      BY <2>6, <3>1 DEF Marking
    <3> QED BY <2>10, <3>1, <3>2
  <2>12. SameArea(new[p - 1], list[p - 1]) /\ new[p - 1].isNextFreed
    <3>1. p - 1 \in 1 .. p - 1
      BY <2>3
    <3>2. new[p - 1] = marked[k]
      BY <2>3, <2>10, <3>1
    <3>3. SameArea(marked[k], list[k]) /\ marked[k].isNextFreed
      BY <2>6 DEF Marking
    <3> QED BY <2>3, <3>2, <3>3
  <2>13. \A j \in p .. Len(list) - 1 : new[j] = list[j + 1]
    <3> TAKE j \in p .. Len(list) - 1
    <3>1. j + 1 \in 1 .. Len(list) /\ j + 1 # k
      BY <1>3, <2>3
    <3>2. marked[j + 1] = list[j + 1]
      BY <2>6, <3>1 DEF Marking
    <3> QED BY <2>10, <3>2
  <2>14. p \in Known + 1 .. Len(list)
    BY <1>3, <2>3, <2>4
  <2>15. Removed(list, new, p)
    BY <2>10, <2>11, <2>12, <2>13 DEF Removed
  <2> QED BY <2>3, <2>8, <2>14, <2>15
<1> QED BY <1>4, <1>5

\* Where the areas of the new list are in the old one.
Old(p, j) == IF j < p THEN j ELSE j + 1

\* Every area of the new list is one of the old.
LEMMA OldAreas ==
    ASSUME NEW list, ListInv(list), NEW p \in Known + 1 .. Len(list),
           NEW new, Removed(list, new, p), NEW j \in 1 .. Len(list) - 1
    PROVE  /\ Old(p, j) \in 1 .. Len(list) /\ SameArea(new[j], list[Old(p, j)])
           /\ j # p - 1 => new[j] = list[Old(p, j)]
<1>1. Known \in Nat /\ Known >= 3 /\ Len(list) \in Nat
  BY LoadedOrder, ListEntries
<1>2. CASE j < p /\ j # p - 1
  <2>1. j \in 1 .. p - 2 /\ Old(p, j) = j
    BY <1>1, <1>2 DEF Old
  <2>2. new[j] = list[j]
    BY <2>1 DEF Removed
  <2> QED BY <1>1, <2>1, <2>2 DEF SameArea
<1>3. CASE j = p - 1
  <2>1. Old(p, j) = j
    BY <1>1, <1>3 DEF Old
  <2>2. SameArea(new[j], list[j])
    BY <1>3 DEF Removed
  <2> QED BY <1>1, <1>3, <2>1, <2>2
<1>4. CASE ~(j < p)
  <2>1. j \in p .. Len(list) - 1 /\ Old(p, j) = j + 1
    BY <1>1, <1>4 DEF Old
  <2>2. new[j] = list[j + 1]
    BY <2>1 DEF Removed
  <2> QED BY <1>1, <2>1, <2>2 DEF SameArea
<1> QED BY <1>2, <1>3, <1>4

\* free() keeps the order of the list.
LEMMA FreeKeeps ==
    ASSUME NEW list, ListInv(list), NEW p \in Known + 1 .. Len(list),
           NEW new, Removed(list, new, p)
    PROVE  ListInv(new)
<1>1. /\ Known \in Nat /\ Known >= 3 /\ Len(list) \in Nat /\ Len(list) >= Known
      /\ StackPlace \in 2 .. Known
  BY LoadedOrder, ListEntries
<1>2. new \in Seq(VMA) /\ Len(new) = Len(list) - 1 /\ Len(new) >= Known
  <2>1. new \in Seq(VMA) /\ Len(new) = Len(list) - 1
    BY DEF Removed
  <2> QED BY <1>1, <2>1
<1>3. \A k \in 1 .. Known : SameArea(new[k], Loaded[k])
  <2> TAKE k \in 1 .. Known
  <2>1. k \in 1 .. Len(list) - 1 /\ Old(p, k) = k
    BY <1>1 DEF Old
  <2>2. SameArea(new[k], list[k])
    BY <2>1, OldAreas
  <2>3. SameArea(list[k], Loaded[k])
    BY DEF ListInv
  <2> QED BY <2>2, <2>3 DEF SameArea
<1>4. \A k \in 1 .. Known - 1 : ~new[k].isNextFreed
  <2> TAKE k \in 1 .. Known - 1
  <2>1. k \in 1 .. p - 2
    BY <1>1
  <2>2. new[k] = list[k]
    BY <2>1 DEF Removed
  <2> QED BY <2>2 DEF ListInv
<1>5. \A k \in Known + 1 .. Len(new) :
          ~new[k].grows_down /\ new[k].start < new[k].end /\ new[k].end <= Limit
  <2> TAKE k \in Known + 1 .. Len(new)
  <2>1. k \in 1 .. Len(list) - 1
    BY <1>1, <1>2
  <2>2. Old(p, k) \in Known + 1 .. Len(list)
    BY <1>1, <1>2 DEF Old
  <2>3. SameArea(new[k], list[Old(p, k)])
    BY <2>1, OldAreas
  <2>4. /\ ~list[Old(p, k)].grows_down /\ list[Old(p, k)].start < list[Old(p, k)].end
        /\ list[Old(p, k)].end <= Limit
    BY <2>2 DEF ListInv
  <2> QED BY <2>3, <2>4 DEF SameArea
<1>6. \A k \in Known + 1 .. Len(new) : \A j \in 1 .. k - 1 :
          j # StackPlace => new[j].end <= new[k].start
  <2> TAKE k \in Known + 1 .. Len(new)
  <2> TAKE j \in 1 .. k - 1
  <2> HAVE j # StackPlace
  <2>1. k \in 1 .. Len(list) - 1 /\ j \in 1 .. Len(list) - 1
    BY <1>1, <1>2
  <2>2. /\ Old(p, k) \in Known + 1 .. Len(list)
        /\ Old(p, j) \in 1 .. Old(p, k) - 1 /\ Old(p, j) # StackPlace
    BY <1>1, <1>2 DEF Old
  <2>3. list[Old(p, j)].end <= list[Old(p, k)].start
    BY <2>2 DEF ListInv
  <2>4. SameArea(new[k], list[Old(p, k)])
    BY <2>1, OldAreas
  <2>5. SameArea(new[j], list[Old(p, j)])
    BY <2>1, OldAreas
  <2> QED BY <2>3, <2>4, <2>5 DEF SameArea
<1> QED BY <1>2, <1>3, <1>4, <1>5, <1>6 DEF ListInv

\* Whoever is freed, no gap comes about but where it was.
LEMMA FreeLeaves ==
    ASSUME NEW list, ListInv(list), NEW p \in Known + 1 .. Len(list),
           NEW new, Removed(list, new, p), OnlyAt(list, p - 1)
    PROVE  OnlyAt(new, p - 1)
<1>1. /\ Known \in Nat /\ Known >= 3 /\ Len(list) \in Nat /\ Len(new) = Len(list) - 1
      /\ StackPlace \in 2 .. Known
  BY LoadedOrder, ListEntries DEF Removed
<1> SUFFICES ASSUME NEW k \in Known .. Len(new) - 1, k # p - 1, Leaves(new, k) PROVE FALSE
  BY DEF OnlyAt
<1>2. /\ k \in 1 .. Len(list) - 1 /\ k + 1 \in 1 .. Len(list) - 1
  BY <1>1
<1>3. /\ Old(p, k) \in Known .. Len(list) - 1 /\ Old(p, k) # p - 1
      /\ Old(p, k + 1) = Old(p, k) + 1
      /\ Old(p, k) = StackPlace <=> k = StackPlace
  BY <1>1 DEF Old
<1>4. new[k] = list[Old(p, k)]
  BY <1>2, OldAreas
<1>5. SameArea(new[k + 1], list[Old(p, k) + 1])
  BY <1>2, <1>3, OldAreas
<1>6. Leaves(list, Old(p, k))
  BY <1>3, <1>4, <1>5 DEF Leaves, SameArea
<1> QED BY <1>3, <1>6 DEF OnlyAt

\* What malloc() added is above the image, below the limit and in order.
LEMMA AddedAreas ==
    ASSUME NEW list, ListInv(list), NEW p \in Known + 1 .. Len(list)
    PROVE  /\ list[p].start \in Nat /\ list[p].end \in Nat
           /\ list[p].start >= Top /\ list[p].start < list[p].end /\ list[p].end <= Limit
           /\ \A q \in p + 1 .. Len(list) : list[p].end <= list[q].start
<1>1. /\ Known \in Nat /\ Known >= 3 /\ Top \in Nat /\ Limit \in Nat
      /\ Len(list) \in Nat /\ Len(list) >= Known /\ StackPlace \in 2 .. Known
      /\ Highest \in 2 .. Known /\ Highest # StackPlace
  BY LoadedOrder, ListEntries
<1>2. p \in 1 .. Len(list) /\ p # StackPlace
  BY <1>1
<1>3. list[p].start \in Nat /\ list[p].end \in Nat /\ list[p].start < list[p].end
  BY <1>2, ListEntries
<1>4. list[p].end <= Limit
  BY DEF ListInv
<1>5. list[p].start >= Top
  <2>1. Highest \in 1 .. p - 1 /\ Highest \in 1 .. Known
    BY <1>1
  <2>2. list[Highest].end <= list[p].start
    BY <1>1, <2>1 DEF ListInv
  <2>3. list[Highest].end = Top
    BY <2>1 DEF ListInv, SameArea, Top
  <2> QED BY <1>1, <1>3, <2>2, <2>3
<1>6. \A q \in p + 1 .. Len(list) : list[p].end <= list[q].start
  <2> TAKE q \in p + 1 .. Len(list)
  <2>1. q \in Known + 1 .. Len(list) /\ p \in 1 .. q - 1
    BY <1>1
  <2> QED BY <1>2, <2>1 DEF ListInv
<1> QED BY <1>3, <1>4, <1>5, <1>6

\* free() takes the area that it is told to: no two start at one address.
LEMMA FreeTakes ==
    ASSUME NEW list, ListInv(list), NEW q \in Known + 1 .. Len(list)
    PROVE  Removed(list, free(list, list[q].start), q)
<1>1. Known \in Nat /\ Len(list) \in Nat /\ Limit \in Nat
  BY LoadedOrder, ListEntries, HeapAssumption
<1>2. PICK ptr : ptr = list[q].start
  OBVIOUS
<1>3. ptr \in Nat /\ ptr >= Top /\ ptr < Limit
  <2>1. /\ list[q].start \in Nat /\ list[q].end \in Nat
        /\ list[q].start >= Top /\ list[q].start < list[q].end /\ list[q].end <= Limit
    BY AddedAreas
  <2> QED BY <1>1, <1>2, <2>1
<1>4. PICK p \in Known + 1 .. Len(list) : list[p].start = ptr /\ Removed(list, free(list, ptr), p)
  BY <1>2, <1>3, FreeForm
<1>5. ASSUME NEW i \in Known + 1 .. Len(list), NEW j \in Known + 1 .. Len(list), i < j
      PROVE  list[i].start # list[j].start
  <2>1. j \in i + 1 .. Len(list)
    BY <1>1, <1>5
  <2>2. list[i].end <= list[j].start
    BY <2>1, AddedAreas
  <2>3. list[i].start \in Nat /\ list[i].end \in Nat /\ list[i].start < list[i].end
    BY AddedAreas
  <2>4. list[j].start \in Nat
    BY AddedAreas
  <2> QED BY <2>2, <2>3, <2>4
<1>6. p = q
  BY <1>1, <1>2, <1>4, <1>5
<1> QED BY <1>2, <1>4, <1>6

\* Behind area p - 1, whose next is freed, fits what fitted in that one, or in
\* the gap that was there before.
LEMMA FreeOpens ==
    ASSUME NEW list, ListInv(list), NEW p \in Known + 1 .. Len(list) - 1,
           NEW new, Removed(list, new, p), NEW size \in Nat,
           \/ list[p].end - list[p].start >= size
           \/ GapFits(list, p - 1, size)
    PROVE  /\ p - 1 \in Known .. Len(new) - 1
           /\ new[p - 1].isNextFreed /\ GapFits(new, p - 1, size)
<1>1. Known \in Nat /\ Known >= 3 /\ Len(list) \in Nat /\ Limit \in Nat
  BY LoadedOrder, ListEntries, HeapAssumption
<1>2. p - 1 \in Known .. Len(new) - 1 /\ new[p - 1].isNextFreed
  BY <1>1 DEF Removed
<1>3. new[p].start = list[p + 1].start
  <2>1. p \in p .. Len(list) - 1
    BY <1>1
  <2> QED BY <2>1 DEF Removed
<1>4. new[p - 1].end = list[p - 1].end
  BY DEF Removed, SameArea
<1>5. p \in Known + 1 .. Len(list) /\ p + 1 \in Known + 1 .. Len(list)
        /\ p + 1 \in p + 1 .. Len(list)
  BY <1>1
<1>6. /\ list[p].start \in Nat /\ list[p].end \in Nat /\ list[p].start < list[p].end
      /\ list[p].end <= list[p + 1].start
  BY <1>5, AddedAreas
<1>7. /\ list[p + 1].start \in Nat /\ list[p + 1].end \in Nat
      /\ list[p + 1].start < list[p + 1].end /\ list[p + 1].end <= Limit
  BY <1>5, AddedAreas
<1>8. list[p - 1].end \in Nat
  <2>1. p - 1 \in 1 .. Len(list)
    BY <1>1
  <2> QED BY <2>1, ListEntries
<1>9. (p - 1) + 1 = p
  BY <1>1
<1>10. CASE p - 1 = StackPlace
  <2>1. list[StackPlace].end = Loaded[StackPlace].end
    <3>1. StackPlace \in 1 .. Known
      BY LoadedOrder
    <3> QED BY <3>1 DEF ListInv, SameArea
  <2>2. /\ Loaded[StackPlace].start \in Nat /\ Loaded[StackPlace].end \in Nat
        /\ Loaded[StackPlace].start < Loaded[StackPlace].end
    <3>1. StackPlace \in 1 .. Known
      BY LoadedOrder
    <3> QED BY <3>1, LoadedOrder
  <2>3. Limit <= Loaded[StackPlace].start
    BY LoadedOrder
  <2>4. list[p + 1].start < list[p - 1].end
    BY <1>1, <1>7, <1>10, <2>1, <2>2, <2>3
  <2>5. GapFits(new, p - 1, size)
    BY <1>3, <1>4, <1>9, <2>4 DEF GapFits
  <2> QED BY <1>2, <2>5
<1>11. CASE p - 1 # StackPlace
  <2>1. p - 1 \in 1 .. p - 1
    BY <1>1
  <2>2. list[p - 1].end <= list[p].start
    BY <1>5, <1>11, <2>1 DEF ListInv
  <2>3. list[p + 1].start - list[p - 1].end >= size
    <3> DEFINE a == list[p - 1].end
               b == list[p].start
               c == list[p].end
               d == list[p + 1].start
    <3>1. a \in Nat /\ b \in Nat /\ c \in Nat /\ d \in Nat /\ a <= b /\ b < c /\ c <= d
      BY <1>6, <1>7, <1>8, <2>2
    <3>2. c - b >= size \/ b - a >= size
      <4>1. CASE GapFits(list, p - 1, size)
        <5>1. b < a \/ b - a >= size
          BY <1>9, <4>1 DEF GapFits
        <5> QED BY <3>1, <5>1
      <4> QED BY <4>1
    <3> HIDE DEF a, b, c, d
    <3>3. d - a >= size
      BY <3>1, <3>2
    <3> QED BY <3>3 DEF a, d
  <2>4. GapFits(new, p - 1, size)
    BY <1>3, <1>4, <1>9, <2>3 DEF GapFits
  <2> QED BY <1>2, <2>4
<1> QED BY <1>10, <1>11

\* A child has the areas of its parent, and no marks.
LEMMA CopyKeeps ==
    ASSUME NEW list, ListInv(list)
    PROVE  /\ ListInv(copyVMA(list)) /\ NoneLeft(copyVMA(list))
           /\ Len(copyVMA(list)) = Len(list)
           /\ \A k \in 1 .. Len(list) : SameArea(copyVMA(list)[k], list[k])
<1>1. Known \in Nat /\ Known >= 3 /\ Len(list) \in Nat /\ Len(list) >= Known /\ list \in Seq(VMA)
  BY LoadedOrder, ListEntries
<1>2. PICK new : new = copyVMA(list)
  OBVIOUS
<1>3. DOMAIN list = 1 .. Len(list)
  BY <1>1
<1>4. ASSUME NEW k \in 1 .. Len(list)
      PROVE  new[k] \in VMA /\ ~new[k].isNextFreed /\ SameArea(new[k], list[k])
  <2>1. new[k] = [list[k] EXCEPT !.isNextFreed = FALSE]
    BY <1>2, <1>3 DEF copyVMA
  <2>2. list[k] \in VMA
    BY <1>1
  <2> QED BY <2>1, <2>2, Marked
<1>5. new \in Seq(VMA) /\ Len(new) = Len(list)
  <2>1. new = [k \in 1 .. Len(list) |-> new[k]]
    BY <1>2, <1>3 DEF copyVMA
  <2>2. new \in [1 .. Len(list) -> VMA]
    BY <1>4, <2>1
  <2> QED BY <1>1, <2>2
<1>6. NoneLeft(new)
  <2>1. \A k \in Known .. Len(new) - 1 : ~new[k].isNextFreed
    BY <1>1, <1>4, <1>5
  <2>2. ~new[Known].isNextFreed
    BY <1>1, <1>4
  <2> QED BY <1>1, <2>1, <2>2 DEF NoneLeft, Leaves
<1>7. ListInv(new)
  <2>1. \A k \in 1 .. Known : SameArea(new[k], Loaded[k])
    <3> TAKE k \in 1 .. Known
    <3>1. SameArea(new[k], list[k])
      BY <1>1, <1>4
    <3>2. SameArea(list[k], Loaded[k])
      BY DEF ListInv
    <3> QED BY <3>1, <3>2 DEF SameArea
  <2>2. \A k \in 1 .. Known - 1 : ~new[k].isNextFreed
    BY <1>1, <1>4
  <2>3. \A k \in Known + 1 .. Len(new) :
            ~new[k].grows_down /\ new[k].start < new[k].end /\ new[k].end <= Limit
    <3> TAKE k \in Known + 1 .. Len(new)
    <3>1. k \in 1 .. Len(list) /\ k \in Known + 1 .. Len(list)
      BY <1>1, <1>5
    <3>2. SameArea(new[k], list[k])
      BY <1>4, <3>1
    <3>3. ~list[k].grows_down /\ list[k].start < list[k].end /\ list[k].end <= Limit
      BY <3>1 DEF ListInv
    <3> QED BY <3>2, <3>3 DEF SameArea
  <2>4. \A k \in Known + 1 .. Len(new) : \A j \in 1 .. k - 1 :
            j # StackPlace => new[j].end <= new[k].start
    <3> TAKE k \in Known + 1 .. Len(new)
    <3> TAKE j \in 1 .. k - 1
    <3> HAVE j # StackPlace
    <3>1. j \in 1 .. Len(list) /\ k \in 1 .. Len(list) /\ k \in Known + 1 .. Len(list)
      BY <1>1, <1>5
    <3>2. SameArea(new[j], list[j])
      BY <1>4, <3>1
    <3>3. SameArea(new[k], list[k])
      BY <1>4, <3>1
    <3>4. list[j].end <= list[k].start
      BY <3>1 DEF ListInv
    <3> QED BY <3>2, <3>3, <3>4 DEF SameArea
  <2> QED BY <1>1, <1>5, <2>1, <2>2, <2>3, <2>4 DEF ListInv
<1> QED BY <1>2, <1>4, <1>5, <1>6, <1>7

-------------------------------------------------------------------------------
(* The inductive invariant. *)

\* What a program holds is above the image and below the limit.
Blocks ==
    {b \in [start : Nat, end : Nat, use : {"any", "command", "com_args", "token"}] :
        b.start >= Top /\ b.start < b.end /\ b.end <= Limit}

TypeInv ==
    /\ program \in ShellLoops \cup {"other"} /\ step \in {"prompt", "words", "run"}
    /\ held \in Seq(Blocks)

At(k, b) == mmap[k].start = b.start /\ mmap[k].end = b.end

\* Where the shell's areas are: at the end of the list, but behind a script's
\* line there is the character that read_line() reads into.
Place(i) ==
    Len(mmap) - Len(held) + i - (IF program = "script" /\ i = 1 THEN 1 ELSE 0)

\* The first malloc() of a command.
FirstSize == IF program \in Keyboards THEN CommandSize ELSE LineSize

\* The shell while it has a command: all it uses is at the end of the list, and
\* there is no gap.
WordsInv ==
    /\ NoneLeft(mmap)
    /\ Len(held) >= 2 /\ Place(1) > Known /\ \A i \in 1 .. Len(held) : At(Place(i), held[i])
    /\ step = "run" => Len(held) >= 3
    /\ program \in Keyboards => held[1].end - held[1].start = CommandSize
    /\ held[2].end - held[2].start = ArgsSize

\* Between two commands it uses nothing, and there is one gap at most.
ShellInv ==
    /\ step = "prompt" => held = <<>> /\ (NoneLeft(mmap) \/ OneLeft(mmap, FirstSize))
    /\ step # "prompt" => WordsInv

\* A program that frees its youngest area first has exactly its areas in the list.
OtherInv ==
    inOrder => /\ NoneLeft(mmap) /\ Len(mmap) = Known + Len(held)
               /\ \A i \in 1 .. Len(held) : At(Known + i, held[i])

HeapInv ==
    /\ TypeInv /\ ListInv(mmap)
    /\ program \in ShellLoops => ShellInv
    /\ program = "other" => OtherInv

\* A program stays the same, and with it what it was loaded with.
LEMMA SameProgram ==
    ASSUME program' = program
    PROVE  /\ Known' = Known /\ Blocks' = Blocks /\ FirstSize' = FirstSize
           /\ ListInv(mmap') => ListInv(mmap)'
           /\ NoneLeft(mmap') => NoneLeft(mmap)'
           /\ OneLeft(mmap', FirstSize) => OneLeft(mmap, FirstSize)'
<1>1. Loaded' = Loaded
  BY DEF Loaded
<1>2. Known' = Known /\ StackPlace' = StackPlace
  BY <1>1 DEF Known, StackPlace
<1>3. Top' = Top
  BY <1>1, <1>2 DEF Top, Highest
<1>4. Blocks' = Blocks /\ FirstSize' = FirstSize
  BY <1>3 DEF Blocks, FirstSize
<1>5. ListInv(mmap') => ListInv(mmap)'
  BY <1>1, <1>2 DEF ListInv
<1>6. NoneLeft(mmap') => NoneLeft(mmap)'
  BY <1>2 DEF NoneLeft, Leaves
<1>7. OneLeft(mmap', FirstSize) => OneLeft(mmap, FirstSize)'
  BY <1>2, <1>4 DEF OneLeft, OnlyAt, Leaves
<1> QED BY <1>2, <1>4, <1>5, <1>6, <1>7

\* The program starts with a list in order.
LEMMA LoadedListed == ListInv(Loaded) /\ NoneLeft(Loaded)
<1>1. Known \in Nat /\ Known >= 3 /\ Loaded \in Seq(VMA) /\ Len(Loaded) = Known
  BY LoadedOrder, LoadedStarts DEF Starts, Known
<1>2. \A k \in 1 .. Known : ~Loaded[k].isNextFreed
  BY <1>1, LoadedStarts DEF Starts
<1>3. \A k \in 1 .. Known : SameArea(Loaded[k], Loaded[k])
  BY DEF SameArea
<1>4. \A k \in 1 .. Known - 1 : ~Loaded[k].isNextFreed
  BY <1>1, <1>2
<1>5. ListInv(Loaded)
  BY <1>1, <1>3, <1>4 DEF ListInv
<1>6. NoneLeft(Loaded)
  BY <1>1, <1>2 DEF NoneLeft, Leaves
<1> QED BY <1>5, <1>6

\* The sizes that the shell and the other program ask for.
LEMMA SizesPositive ==
    /\ CommandSize \in Nat \ {0} /\ LineSize \in Nat \ {0} /\ CharSize \in Nat \ {0}
    /\ ArgsSize \in Nat \ {0} /\ LineSize <= ArgsSize
    /\ Sizes \subseteq Nat \ {0} /\ TokenSizes \subseteq Nat \ {0}
  BY HeapAssumption

\* What malloc() returns.
LEMMA NewBlock ==
    ASSUME NEW list, ListInv(list), NEW size \in Nat \ {0}, Given(list, size),
           NEW use \in {"any", "command", "com_args", "token"}
    PROVE  /\ Block(list, use) \in Blocks
           /\ Block(list, use).start = list[Len(list)].start
           /\ Block(list, use).end = list[Len(list)].end
           /\ Block(list, use).end - Block(list, use).start = size
<1>1. Known \in Nat /\ Len(list) \in Nat /\ Len(list) > Known
  BY LoadedOrder, ListEntries DEF Given
<1>2. Len(list) \in Known + 1 .. Len(list)
  BY <1>1
<1>3. /\ list[Len(list)].start \in Nat /\ list[Len(list)].end \in Nat
      /\ list[Len(list)].start >= Top /\ list[Len(list)].start < list[Len(list)].end
      /\ list[Len(list)].end <= Limit
  BY <1>2, AddedAreas
<1>4. list[Len(list)].end = list[Len(list)].start + size
  BY DEF Given
<1>5. Block(list, use) \in Blocks
  BY <1>3 DEF Block, Blocks
<1>6. list[Len(list)].end - list[Len(list)].start = size
  BY <1>3, <1>4
<1> QED BY <1>5, <1>6 DEF Block

\* A block of a program.
LEMMA HeldBlocks ==
    ASSUME TypeInv, NEW i \in 1 .. Len(held)
    PROVE  /\ held[i].start \in Nat /\ held[i].end \in Nat
           /\ held[i].start >= Top /\ held[i].start < held[i].end /\ held[i].end <= Limit
<1>1. held[i] \in Blocks
  BY DEF TypeInv
<1> QED BY <1>1 DEF Blocks

\* The shell's places are in the list, in order.
LEMMA ShellPlaces ==
    ASSUME HeapInv, program \in ShellLoops, step # "prompt"
    PROVE  /\ Len(held) \in Nat /\ Len(held) >= 2
           /\ \A i \in 1 .. Len(held) : /\ Place(i) \in Known + 1 .. Len(mmap)
                                        /\ At(Place(i), held[i])
           /\ \A i \in 1 .. Len(held) : \A j \in 1 .. Len(held) : i < j => Place(i) < Place(j)
<1>1. WordsInv /\ held \in Seq(Blocks) /\ ListInv(mmap)
  BY DEF HeapInv, ShellInv, TypeInv
<1>2. Known \in Nat /\ Len(mmap) \in Nat /\ Len(held) \in Nat
  BY <1>1, LoadedOrder, ListEntries
<1>3. Len(held) >= 2 /\ Place(1) > Known /\ \A i \in 1 .. Len(held) : At(Place(i), held[i])
  BY <1>1 DEF WordsInv
<1>4. \A i \in 1 .. Len(held) : Place(i) \in Known + 1 .. Len(mmap)
  <2> TAKE i \in 1 .. Len(held)
  <2>1. CASE program = "script"
    BY <1>2, <1>3, <2>1 DEF Place
  <2>2. CASE program # "script"
    BY <1>2, <1>3, <2>2 DEF Place
  <2> QED BY <2>1, <2>2
<1>5. \A i \in 1 .. Len(held) : \A j \in 1 .. Len(held) : i < j => Place(i) < Place(j)
  <2> TAKE i \in 1 .. Len(held)
  <2> TAKE j \in 1 .. Len(held)
  <2>1. CASE program = "script"
    BY <1>2, <1>3, <2>1 DEF Place
  <2>2. CASE program # "script"
    BY <1>2, <1>3, <2>2 DEF Place
  <2> QED BY <2>1, <2>2
<1> QED BY <1>2, <1>3, <1>4, <1>5

\* Initially.
LEMMA HeapInit == Init => HeapInv
<1> SUFFICES ASSUME Init PROVE HeapInv
  OBVIOUS
<1>1. /\ program \in ShellLoops \cup {"other"} /\ held = <<>> /\ step = "prompt"
      /\ mmap = IF program = "script" THEN malloc(malloc(Loaded, LineSize), CharSize) ELSE Loaded
  BY DEF Init
<1>2. TypeInv
  BY <1>1 DEF TypeInv
<1>3. ListInv(mmap) /\ NoneLeft(mmap)
  <2>1. CASE program = "script"
    <3>1. PICK line : line = malloc(Loaded, LineSize)
      OBVIOUS
    <3>2. Fits(line) /\ Fits(malloc(line, CharSize))
      BY <2>1, <3>1 DEF Init
    <3>3. ListInv(line) /\ NoneLeft(line)
      BY <3>1, <3>2, LoadedListed, SizesPositive, MallocAdds
    <3>4. ListInv(malloc(line, CharSize)) /\ NoneLeft(malloc(line, CharSize))
      BY <3>2, <3>3, SizesPositive, MallocAdds
    <3> QED BY <1>1, <2>1, <3>1, <3>4
  <2>2. CASE program # "script"
    BY <1>1, <2>2, LoadedListed
  <2> QED BY <2>1, <2>2
<1>4. program \in ShellLoops => ShellInv
  BY <1>1, <1>3 DEF ShellInv
<1>5. program = "other" => OtherInv
  <2> SUFFICES ASSUME program = "other" PROVE OtherInv
    OBVIOUS
  <2>1. mmap = Loaded /\ Len(held) = 0 /\ Known \in Nat
    BY <1>1, LoadedOrder DEF ShellLoops
  <2>2. Len(mmap) = Known + Len(held)
    BY <2>1 DEF Known
  <2> QED BY <1>3, <2>1, <2>2 DEF OtherInv
<1> QED BY <1>2, <1>3, <1>4, <1>5 DEF HeapInv

\* malloc() of the other program.
LEMMA MallocStep ==
    ASSUME HeapInv, NEW size \in Sizes, Malloc(size)
    PROVE  HeapInv'
<1>1. PICK list : list = malloc(mmap, size)
  OBVIOUS
<1>2. /\ program = "other" /\ program' = program /\ step' = step /\ inOrder' = inOrder
      /\ Fits(list) /\ mmap' = list /\ held' = Append(held, Block(list, "any"))
  BY <1>1 DEF Malloc
<1>3. size \in Nat \ {0} /\ ListInv(mmap) /\ TypeInv /\ OtherInv
  BY <1>2, SizesPositive DEF HeapInv
<1>4. ListInv(list) /\ Given(list, size)
  <2>1. PICK k \in 1 .. Len(mmap) : Newest(list, k, size)
    BY <1>1, <1>2, <1>3, MallocKeeps
  <2>2. Known \in Nat
    BY LoadedOrder
  <2>3. Given(list, size)
    BY <2>1, <2>2 DEF Newest, Given
  <2> QED BY <1>1, <1>2, <1>3, <2>3, MallocKeeps
<1>5. PICK b : b = Block(list, "any")
  OBVIOUS
<1>6. b \in Blocks /\ b.start = list[Len(list)].start /\ b.end = list[Len(list)].end
  BY <1>3, <1>4, <1>5, NewBlock
<1>7. held \in Seq(Blocks) /\ held' = Append(held, b)
  BY <1>2, <1>3, <1>5 DEF TypeInv
<1>8. /\ held' \in Seq(Blocks) /\ Len(held') = Len(held) + 1 /\ Len(held) \in Nat
      /\ held'[Len(held) + 1] = b /\ \A i \in 1 .. Len(held) : held'[i] = held[i]
  BY <1>6, <1>7
<1>9. TypeInv'
  BY <1>2, <1>3, <1>8, SameProgram DEF TypeInv
<1>10. ASSUME inOrder
       PROVE  /\ NoneLeft(list) /\ Len(list) = Known + Len(held')
              /\ \A i \in 1 .. Len(held') : At(Known + i, held[i])'
  <2>1. /\ NoneLeft(mmap) /\ Len(mmap) = Known + Len(held)
        /\ \A i \in 1 .. Len(held) : At(Known + i, held[i])
    BY <1>3, <1>10 DEF OtherInv
  <2>2. NoneLeft(list) /\ Added(mmap, list)
    BY <1>1, <1>2, <1>3, <2>1, MallocAdds
  <2>3. Len(list) = Known + Len(held') /\ Len(list) = Known + (Len(held) + 1) /\ Known \in Nat
    BY <1>8, <2>1, <2>2, LoadedOrder DEF Added
  <2>4. ASSUME NEW i \in 1 .. Len(held') PROVE At(Known + i, held[i])'
    <3>1. CASE i = Len(held) + 1
      BY <1>2, <1>6, <1>8, <2>3, <3>1, SameProgram DEF At
    <3>2. CASE i # Len(held) + 1
      <4>1. i \in 1 .. Len(held) /\ Known + i \in 1 .. Len(mmap)
        BY <1>8, <2>1, <2>3, <3>2
      <4>2. held'[i] = held[i] /\ At(Known + i, held[i])
        BY <1>8, <2>1, <4>1
      <4>3. SameArea(list[Known + i], mmap[Known + i])
        BY <2>2, <4>1 DEF Added
      <4> QED BY <1>2, <4>2, <4>3, SameProgram DEF At, SameArea
    <3> QED BY <3>1, <3>2
  <2> QED BY <2>2, <2>3, <2>4
<1>11. OtherInv'
  BY <1>2, <1>10, SameProgram DEF OtherInv
<1> QED BY <1>2, <1>4, <1>9, <1>11, SameProgram DEF HeapInv, ShellLoops, Keyboards

\* fork() of the other program.
LEMMA ForkStep ==
    ASSUME HeapInv, Fork
    PROVE  HeapInv'
<1>1. PICK list : list = copyVMA(mmap)
  OBVIOUS
<1>2. /\ program = "other" /\ program' = program /\ step' = step /\ inOrder' = inOrder
      /\ mmap' = list /\ held' = held
  BY <1>1 DEF Fork
<1>3. ListInv(mmap) /\ TypeInv /\ OtherInv
  BY <1>2 DEF HeapInv
<1>4. /\ ListInv(list) /\ NoneLeft(list) /\ Len(list) = Len(mmap)
      /\ \A k \in 1 .. Len(mmap) : SameArea(list[k], mmap[k])
  BY <1>1, <1>3, CopyKeeps
<1>5. TypeInv'
  BY <1>2, <1>3, SameProgram DEF TypeInv
<1>6. OtherInv'
  <2> SUFFICES ASSUME inOrder
               PROVE  /\ Len(list) = Known + Len(held)
                      /\ \A i \in 1 .. Len(held) : At(Known + i, held[i])'
    BY <1>2, <1>4, SameProgram DEF OtherInv
  <2>1. Len(mmap) = Known + Len(held) /\ \A i \in 1 .. Len(held) : At(Known + i, held[i])
    BY <1>3 DEF OtherInv
  <2>2. Known \in Nat /\ Len(held) \in Nat
    BY <1>3, LoadedOrder DEF TypeInv
  <2>3. ASSUME NEW i \in 1 .. Len(held) PROVE At(Known + i, held[i])'
    <3>1. Known + i \in 1 .. Len(mmap)
      BY <2>1, <2>2
    <3>2. SameArea(list[Known + i], mmap[Known + i])
      BY <1>4, <3>1
    <3> QED BY <1>2, <2>1, <3>2, SameProgram DEF At, SameArea
  <2> QED BY <1>4, <2>1, <2>3
<1> QED BY <1>2, <1>4, <1>5, <1>6, SameProgram DEF HeapInv, ShellLoops, Keyboards

\* free() of the other program.
LEMMA FreeStep ==
    ASSUME HeapInv, NEW k \in DOMAIN held, Free(k)
    PROVE  HeapInv'
<1>1. PICK list : list = free(mmap, held[k].start)
  OBVIOUS
<1>2. /\ program = "other" /\ program' = program /\ step' = step
      /\ inOrder' = (inOrder /\ k = Len(held))
      /\ mmap' = list /\ held' = RemoveAt(held, k)
  BY <1>1 DEF Free
<1>3. /\ ListInv(mmap) /\ TypeInv /\ OtherInv /\ held \in Seq(Blocks) /\ Len(held) \in Nat
      /\ k \in 1 .. Len(held)
  BY <1>2 DEF HeapInv, TypeInv
<1>4. /\ held' \in Seq(Blocks) /\ Len(held') = Len(held) - 1
      /\ \A i \in 1 .. k - 1 : held'[i] = held[i]
  BY <1>2, <1>3, Without
<1>5. /\ Known \in Nat /\ Known >= 3 /\ Limit \in Nat /\ Len(mmap) \in Nat
      /\ mmap \in Seq(VMA) /\ Len(mmap) >= Known /\ StackPlace # Known
  BY <1>2, <1>3, LoadedOrder, ListEntries DEF StackPlace
<1>6. held[k].start \in Nat /\ held[k].start >= Top /\ held[k].start < Limit
  <2>1. /\ held[k].start \in Nat /\ held[k].end \in Nat
        /\ held[k].start >= Top /\ held[k].start < held[k].end /\ held[k].end <= Limit
    BY <1>3, HeldBlocks
  <2> QED BY <1>5, <2>1
<1>7. ListInv(list)
  <2>1. \/ list = mmap
        \/ \E p \in Known + 1 .. Len(mmap) : Removed(mmap, list, p)
    BY <1>1, <1>3, <1>6, FreeForm
  <2> QED BY <1>3, <2>1, FreeKeeps
<1>8. TypeInv'
  BY <1>2, <1>3, <1>4, SameProgram DEF TypeInv
<1>9. ASSUME inOrder, k = Len(held)
      PROVE  /\ NoneLeft(list) /\ Len(list) = Known + Len(held')
             /\ \A i \in 1 .. Len(held') : At(Known + i, held[i])'
  <2>1. /\ NoneLeft(mmap) /\ Len(mmap) = Known + Len(held)
        /\ \A i \in 1 .. Len(held) : At(Known + i, held[i])
    BY <1>3, <1>9 DEF OtherInv
  <2>2. PICK p : p = Len(mmap)
    OBVIOUS
  <2>3. p = Known + k /\ p \in Known + 1 .. Len(mmap) /\ mmap[p].start = held[k].start
    <3>1. p = Known + k /\ p \in Known + 1 .. Len(mmap)
      BY <1>3, <1>5, <1>9, <2>1, <2>2
    <3> QED BY <1>3, <2>1, <3>1 DEF At
  <2>4. Removed(mmap, list, p)
    <3>1. Removed(mmap, free(mmap, mmap[p].start), p)
      BY <1>3, <2>3, FreeTakes
    <3> QED BY <1>1, <2>3, <3>1
  <2>5. Len(list) = Len(mmap) - 1 /\ Len(list) = Known + Len(held')
    BY <1>3, <1>4, <1>5, <2>1, <2>4 DEF Removed
  <2>6. OnlyAt(mmap, p - 1)
    BY <2>1 DEF NoneLeft, OnlyAt
  <2>7. OnlyAt(list, p - 1)
    BY <1>3, <2>3, <2>4, <2>6, FreeLeaves
  <2>8. NoneLeft(list)
    <3>1. \A j \in Known .. Len(list) - 1 : ~Leaves(list, j)
      <4> TAKE j \in Known .. Len(list) - 1
      <4>1. j # p - 1
        BY <1>5, <2>2, <2>5
      <4> QED BY <2>7, <4>1 DEF OnlyAt
    <3> QED BY <1>5, <3>1 DEF NoneLeft
  <2>9. ASSUME NEW i \in 1 .. Len(held') PROVE At(Known + i, held[i])'
    <3>1. i \in 1 .. k - 1 /\ i \in 1 .. Len(held)
      BY <1>3, <1>4, <1>9
    <3>2. held'[i] = held[i] /\ At(Known + i, held[i])
      BY <1>4, <2>1, <3>1
    <3>3. Known + i \in 1 .. Len(mmap) - 1 /\ Old(p, Known + i) = Known + i
      BY <1>3, <1>5, <1>9, <2>3, <3>1 DEF Old
    <3>4. SameArea(list[Known + i], mmap[Known + i])
      BY <1>3, <2>3, <2>4, <3>3, OldAreas
    <3> QED BY <1>2, <3>2, <3>4, SameProgram DEF At, SameArea
  <2> QED BY <2>5, <2>8, <2>9
<1>10. OtherInv'
  BY <1>2, <1>9, SameProgram DEF OtherInv
<1> QED BY <1>2, <1>7, <1>8, <1>10, SameProgram DEF HeapInv, ShellLoops, Keyboards

\* A new command: its line, and behind it the array for its words.
LEMMA WordsStart ==
    ASSUME HeapInv, program \in ShellLoops, UNCHANGED program, step' = "words",
           NEW line, ListInv(line), NEW size \in Nat \ {0}, Given(line, size),
           program \in Keyboards => size = CommandSize,
           NEW list, ListInv(list), NoneLeft(list), Given(list, ArgsSize),
           Len(list) = Len(line) + (IF program = "script" THEN 2 ELSE 1),
           SameArea(list[Len(line)], line[Len(line)]),
           mmap' = list, held' = <<Block(line, "command"), Block(list, "com_args")>>
    PROVE  HeapInv'
<1>1. PICK b : b = Block(line, "command")
  OBVIOUS
<1>2. PICK c : c = Block(list, "com_args")
  OBVIOUS
<1>3. held' = <<b, c>> /\ Len(held') = 2 /\ held'[1] = b /\ held'[2] = c
  BY <1>1, <1>2
<1>4. /\ b \in Blocks /\ b.start = line[Len(line)].start /\ b.end = line[Len(line)].end
      /\ b.end - b.start = size
  BY <1>1, NewBlock
<1>5. /\ c \in Blocks /\ c.start = list[Len(list)].start /\ c.end = list[Len(list)].end
      /\ c.end - c.start = ArgsSize
  BY <1>2, SizesPositive, NewBlock
<1>6. Known \in Nat /\ Len(line) \in Nat /\ Len(line) > Known /\ Len(list) \in Nat
  BY LoadedOrder, ListEntries DEF Given
<1>7. TypeInv'
  <2>1. held' \in Seq(Blocks)
    BY <1>3, <1>4, <1>5
  <2> QED BY <2>1, SameProgram DEF HeapInv, TypeInv
<1>8. Place(1)' = Len(line) /\ Place(2)' = Len(list)
  <2>1. CASE program = "script"
    BY <1>3, <1>6, <2>1 DEF Place
  <2>2. CASE program # "script"
    BY <1>3, <1>6, <2>2 DEF Place
  <2> QED BY <2>1, <2>2
<1>9. At(Place(1), held[1])' /\ At(Place(2), held[2])'
  BY <1>3, <1>4, <1>5, <1>8 DEF At, SameArea
<1>10. (\A i \in 1 .. Len(held) : At(Place(i), held[i]))'
  <2>1. \A i \in 1 .. Len(held') : i = 1 \/ i = 2
    BY <1>3
  <2> QED BY <1>9, <2>1
<1>11. WordsInv'
  BY <1>3, <1>4, <1>5, <1>6, <1>8, <1>10, SameProgram DEF WordsInv
<1> QED BY <1>7, <1>11, SameProgram DEF HeapInv, ShellInv, ShellLoops, Keyboards

\* A new command from the keyboard.
LEMMA ReadCommandStep ==
    ASSUME HeapInv, ReadCommand
    PROVE  HeapInv'
<1>1. PICK line : line = malloc(mmap, CommandSize)
  OBVIOUS
<1>2. PICK list : list = malloc(line, ArgsSize)
  OBVIOUS
<1>3. /\ program \in Keyboards /\ step = "prompt" /\ Fits(line) /\ Fits(list)
      /\ mmap' = list /\ held' = <<Block(line, "command"), Block(list, "com_args")>>
      /\ step' = "words" /\ UNCHANGED program
  BY <1>1, <1>2 DEF ReadCommand
<1>4. ListInv(mmap) /\ (NoneLeft(mmap) \/ OneLeft(mmap, CommandSize))
  BY <1>3 DEF HeapInv, ShellInv, ShellLoops, FirstSize
<1>5. ListInv(line) /\ NoneLeft(line) /\ Given(line, CommandSize)
  BY <1>1, <1>3, <1>4, SizesPositive, MallocFills
<1>6. ListInv(list) /\ NoneLeft(list) /\ Added(line, list) /\ Given(list, ArgsSize)
  BY <1>2, <1>3, <1>5, SizesPositive, MallocAdds
<1>7. Len(list) = Len(line) + 1 /\ SameArea(list[Len(line)], line[Len(line)])
  <2>1. Len(line) \in 1 .. Len(line)
    BY <1>5, LoadedOrder, ListEntries
  <2> QED BY <1>6, <2>1 DEF Added
<1>8. program \in ShellLoops /\ program # "script"
  BY <1>3 DEF ShellLoops, Keyboards
<1> QED BY <1>3, <1>5, <1>6, <1>7, <1>8, SizesPositive, WordsStart

\* The areas of a line of a script.
LEMMA ScriptLine ==
    ASSUME HeapInv, program = "script", step = "prompt",
           NEW line, line = malloc(mmap, LineSize), Fits(line),
           NEW char, char = malloc(line, CharSize), Fits(char),
           NEW list, list = malloc(char, ArgsSize), Fits(list)
    PROVE  /\ ListInv(line) /\ Given(line, LineSize)
           /\ ListInv(list) /\ NoneLeft(list) /\ Given(list, ArgsSize)
           /\ Len(list) = Len(line) + 2 /\ SameArea(list[Len(line)], line[Len(line)])
<1>1. ListInv(mmap) /\ (NoneLeft(mmap) \/ OneLeft(mmap, LineSize))
  BY DEF HeapInv, ShellInv, ShellLoops, Keyboards, FirstSize
<1>2. ListInv(line) /\ NoneLeft(line) /\ Given(line, LineSize)
  BY <1>1, SizesPositive, MallocFills
<1>3. ListInv(char) /\ NoneLeft(char) /\ Added(line, char)
  BY <1>2, SizesPositive, MallocAdds
<1>4. ListInv(list) /\ NoneLeft(list) /\ Added(char, list) /\ Given(list, ArgsSize)
  BY <1>3, SizesPositive, MallocAdds
<1>5. Len(char) = Len(line) + 1 /\ Len(list) = Len(char) + 1 /\ Len(line) \in Nat
  BY <1>2, <1>3, <1>4, ListEntries DEF Added
<1>6. Len(line) \in 1 .. Len(line) /\ Len(line) \in 1 .. Len(char)
  BY <1>2, <1>5, LoadedOrder, ListEntries
<1>7. SameArea(char[Len(line)], line[Len(line)])
  BY <1>3, <1>6 DEF Added
<1>8. SameArea(list[Len(line)], char[Len(line)])
  BY <1>4, <1>6 DEF Added
<1> QED BY <1>2, <1>4, <1>5, <1>7, <1>8 DEF SameArea

\* A new command from a script.
LEMMA ReadLineStep ==
    ASSUME HeapInv, ReadLine
    PROVE  HeapInv'
<1>1. PICK line : line = malloc(mmap, LineSize)
  OBVIOUS
<1>2. PICK char : char = malloc(line, CharSize)
  OBVIOUS
<1>3. PICK list : list = malloc(char, ArgsSize)
  OBVIOUS
<1>4. /\ program = "script" /\ step = "prompt" /\ Fits(line) /\ Fits(char) /\ Fits(list)
      /\ mmap' = list /\ held' = <<Block(line, "command"), Block(list, "com_args")>>
      /\ step' = "words" /\ UNCHANGED program
  BY <1>1, <1>2, <1>3 DEF ReadLine
<1>5. /\ ListInv(line) /\ Given(line, LineSize)
      /\ ListInv(list) /\ NoneLeft(list) /\ Given(list, ArgsSize)
      /\ Len(list) = Len(line) + 2 /\ SameArea(list[Len(line)], line[Len(line)])
  BY <1>1, <1>2, <1>3, <1>4, ScriptLine
<1>6. program \in ShellLoops /\ program \notin Keyboards
  BY <1>4 DEF ShellLoops, Keyboards
<1> QED BY <1>4, <1>5, <1>6, SizesPositive, WordsStart

\* An empty line of a script.
LEMMA EmptyLineStep ==
    ASSUME HeapInv, EmptyLine
    PROVE  HeapInv'
<1>1. PICK line : line = malloc(mmap, LineSize)
  OBVIOUS
<1>2. PICK char : char = malloc(line, CharSize)
  OBVIOUS
<1>3. PICK list : list = malloc(char, ArgsSize)
  OBVIOUS
<1>4. /\ program = "script" /\ step = "prompt" /\ Fits(line) /\ Fits(char) /\ Fits(list)
      /\ mmap' = list /\ UNCHANGED <<program, held, step>>
  BY <1>1, <1>2, <1>3 DEF EmptyLine
<1>5. ListInv(list) /\ NoneLeft(list)
  BY <1>1, <1>2, <1>3, <1>4, ScriptLine
<1>6. held = <<>>
  BY <1>4 DEF HeapInv, ShellInv, ShellLoops
<1>7. TypeInv'
  BY <1>4, SameProgram DEF HeapInv, TypeInv
<1>8. ShellInv'
  BY <1>4, <1>5, <1>6, SameProgram DEF ShellInv
<1> QED BY <1>4, <1>5, <1>7, <1>8, SameProgram DEF HeapInv

\* A word of the command.
LEMMA TokenStep ==
    ASSUME HeapInv, NEW size \in TokenSizes, Token(size)
    PROVE  HeapInv'
<1>1. PICK list : list = malloc(mmap, size)
  OBVIOUS
<1>2. /\ program \in ShellLoops /\ step = "words" /\ Fits(list) /\ mmap' = list
      /\ held' = Append(held, Block(list, "token")) /\ UNCHANGED <<program, step>>
  BY <1>1 DEF Token
<1>3. ListInv(mmap) /\ TypeInv /\ WordsInv /\ NoneLeft(mmap) /\ held \in Seq(Blocks)
  BY <1>2 DEF HeapInv, ShellInv, WordsInv, TypeInv
<1>4. size \in Nat \ {0}
  BY SizesPositive
<1>5. ListInv(list) /\ NoneLeft(list) /\ Added(mmap, list) /\ Given(list, size)
  BY <1>1, <1>2, <1>3, <1>4, MallocAdds
<1>6. PICK b : b = Block(list, "token")
  OBVIOUS
<1>7. b \in Blocks /\ b.start = list[Len(list)].start /\ b.end = list[Len(list)].end
  BY <1>4, <1>5, <1>6, NewBlock
<1>8. /\ held' \in Seq(Blocks) /\ Len(held') = Len(held) + 1 /\ Len(held) \in Nat
      /\ held'[Len(held) + 1] = b /\ \A i \in 1 .. Len(held) : held'[i] = held[i]
  BY <1>2, <1>3, <1>6, <1>7
<1>9. TypeInv'
  BY <1>2, <1>3, <1>8, SameProgram DEF TypeInv
<1>10. /\ Len(held) >= 2 /\ Known \in Nat /\ Len(mmap) \in Nat /\ Len(list) = Len(mmap) + 1
       /\ \A i \in 1 .. Len(held) : Place(i) \in Known + 1 .. Len(mmap) /\ At(Place(i), held[i])
  BY <1>2, <1>3, <1>5, LoadedOrder, ListEntries, ShellPlaces DEF Added
<1>11. \A i \in 1 .. Len(held) : Place(i)' = Place(i)
  <2> TAKE i \in 1 .. Len(held)
  <2>1. CASE program = "script"
    BY <1>2, <1>8, <1>10, <2>1 DEF Place
  <2>2. CASE program # "script"
    BY <1>2, <1>8, <1>10, <2>2 DEF Place
  <2> QED BY <2>1, <2>2
<1>12. ASSUME NEW i \in Nat, i = Len(held) + 1 PROVE Place(i)' = Len(list)
  <2>1. i # 1 /\ i = Len(held')
    BY <1>8, <1>10, <1>12
  <2> QED BY <1>2, <1>8, <1>10, <2>1 DEF Place
<1>13. ASSUME NEW i \in 1 .. Len(held') PROVE At(Place(i), held[i])'
  <2>1. CASE i = Len(held) + 1
    <3>1. Place(i)' = Len(list)
      BY <1>8, <1>12, <2>1
    <3> QED BY <1>2, <1>7, <1>8, <2>1, <3>1 DEF At
  <2>2. CASE i # Len(held) + 1
    <3>1. i \in 1 .. Len(held) /\ Place(i) \in 1 .. Len(mmap)
      BY <1>8, <1>10, <2>2
    <3>2. held'[i] = held[i] /\ At(Place(i), held[i]) /\ Place(i)' = Place(i)
      BY <1>8, <1>10, <1>11, <3>1
    <3>3. SameArea(list[Place(i)], mmap[Place(i)])
      BY <1>5, <3>1 DEF Added
    <3> QED BY <1>2, <3>2, <3>3 DEF At, SameArea
  <2> QED BY <2>1, <2>2
<1>14. /\ 1 \in 1 .. Len(held) /\ 2 \in 1 .. Len(held)
  BY <1>8, <1>10
<1>15. Place(1)' > Known
  <2>1. Place(1) \in Known + 1 .. Len(mmap) /\ Place(1)' = Place(1)
    BY <1>10, <1>11, <1>14
  <2> QED BY <1>10, <2>1
<1>16. held'[1] = held[1] /\ held'[2] = held[2]
  BY <1>8, <1>14
<1>17. WordsInv'
  <2>1. Len(held') >= 2
    BY <1>8, <1>10
  <2>2. /\ program \in Keyboards => held[1].end - held[1].start = CommandSize
        /\ held[2].end - held[2].start = ArgsSize
    BY <1>3 DEF WordsInv
  <2> QED BY <1>2, <1>5, <1>13, <1>15, <1>16, <2>1, <2>2, SameProgram DEF WordsInv
<1>18. ShellInv'
  BY <1>2, <1>17 DEF ShellInv
<1> QED BY <1>2, <1>5, <1>9, <1>18, SameProgram DEF HeapInv, ShellLoops, Keyboards

\* The command runs.
LEMMA ExecuteStep ==
    ASSUME HeapInv, Execute
    PROVE  HeapInv'
<1>1. /\ program \in ShellLoops /\ step = "words" /\ Len(held) > 2 /\ step' = "run"
      /\ UNCHANGED <<program, mmap, held>>
  BY DEF Execute
<1>2. ListInv(mmap) /\ TypeInv /\ WordsInv /\ held \in Seq(Blocks)
  BY <1>1 DEF HeapInv, ShellInv, TypeInv
<1>3. TypeInv'
  BY <1>1, <1>2, SameProgram DEF TypeInv
<1>4. Len(held) >= 3
  BY <1>1, <1>2
<1>5. WordsInv'
  BY <1>1, <1>2, <1>4, SameProgram DEF WordsInv, Place, At
<1>6. ShellInv'
  BY <1>1, <1>5 DEF ShellInv
<1> QED BY <1>1, <1>2, <1>3, <1>6, SameProgram DEF HeapInv, ShellLoops, Keyboards

\* One area fewer: the gap behind it, when there is no other, and what follows
\* moves up.
LEMMA OneFree ==
    ASSUME NEW list, ListInv(list), NEW q \in Known + 1 .. Len(list) - 1,
           OnlyAt(list, q - 1), NEW size \in Nat,
           \/ list[q].end - list[q].start >= size
           \/ GapFits(list, q - 1, size)
    PROVE  LET new == free(list, list[q].start) IN
           /\ ListInv(new) /\ Len(new) = Len(list) - 1 /\ new[q] = list[q + 1]
           /\ q - 1 \in Known .. Len(new) - 1 /\ new[q - 1].isNextFreed
           /\ GapFits(new, q - 1, size) /\ OnlyAt(new, q - 1)
<1>1. PICK new : new = free(list, list[q].start)
  OBVIOUS
<1>2. Known \in Nat /\ Len(list) \in Nat
  BY LoadedOrder, ListEntries
<1>3. q \in Known + 1 .. Len(list) /\ q \in q .. Len(list) - 1
  BY <1>2
<1>4. Removed(list, new, q)
  BY <1>1, <1>3, FreeTakes
<1>5. ListInv(new) /\ OnlyAt(new, q - 1)
  BY <1>3, <1>4, FreeKeeps, FreeLeaves
<1>6. Len(new) = Len(list) - 1 /\ new[q] = list[q + 1]
  BY <1>3, <1>4 DEF Removed
<1>7. q - 1 \in Known .. Len(new) - 1 /\ new[q - 1].isNextFreed /\ GapFits(new, q - 1, size)
  BY <1>4, FreeOpens
<1> QED BY <1>1, <1>5, <1>6, <1>7

\* Where nothing is left, nothing is left elsewhere.
LEMMA NoneElsewhere ==
    ASSUME NEW list, NoneLeft(list), NEW g
    PROVE  OnlyAt(list, g)
  BY DEF NoneLeft, OnlyAt

\* The command and its array are freed: they leave one gap, where the next
\* command's first malloc() fits.
LEMMA FreeCommandStep ==
    ASSUME HeapInv, FreeCommand
    PROVE  HeapInv'
<1>1. /\ program \in ShellLoops /\ step = "run" /\ held' = <<>> /\ step' = "prompt"
      /\ UNCHANGED program
  BY DEF FreeCommand
<1>2. ListInv(mmap) /\ WordsInv /\ NoneLeft(mmap) /\ Len(held) >= 3 /\ held \in Seq(Blocks)
  BY <1>1 DEF HeapInv, ShellInv, WordsInv, TypeInv
<1>3. /\ Known \in Nat /\ Len(mmap) \in Nat /\ Len(held) \in Nat
  BY <1>2, LoadedOrder, ListEntries
<1>4. \A i \in 1 .. Len(held) : Place(i) \in Known + 1 .. Len(mmap) /\ At(Place(i), held[i])
  BY <1>1, ShellPlaces
<1>5. /\ 1 \in 1 .. Len(held) /\ 2 \in 1 .. Len(held) /\ 3 \in 1 .. Len(held)
  BY <1>2, <1>3
<1>6. PICK q : q = Place(2)
  OBVIOUS
<1>7. /\ q \in Known + 1 .. Len(mmap) - 1 /\ At(q, held[2])
  <2>1. q \in Known + 1 .. Len(mmap) /\ Place(3) \in Known + 1 .. Len(mmap) /\ At(q, held[2])
    BY <1>4, <1>5, <1>6
  <2>2. Place(3) = q + 1
    BY <1>3, <1>6 DEF Place
  <2> QED BY <1>3, <2>1, <2>2
<1>8. mmap[q].end - mmap[q].start = ArgsSize /\ mmap[q].start = held[2].start
  BY <1>2, <1>7 DEF WordsInv, At
<1>9. OneLeft(mmap', FirstSize)
  <2>1. CASE program = "script"
    <3>1. mmap' = free(mmap, mmap[q].start)
      BY <1>8, <2>1 DEF FreeCommand
    <3>2. OnlyAt(mmap, q - 1)
      BY <1>2, NoneElsewhere
    <3>3. mmap[q].end - mmap[q].start >= LineSize /\ LineSize \in Nat
      BY <1>8, SizesPositive
    <3>4. /\ q - 1 \in Known .. Len(mmap') - 1 /\ mmap'[q - 1].isNextFreed
          /\ GapFits(mmap', q - 1, LineSize) /\ OnlyAt(mmap', q - 1)
      BY <1>2, <1>7, <3>1, <3>2, <3>3, OneFree
    <3> QED BY <2>1, <3>4 DEF OneLeft, FirstSize, Keyboards
  <2>2. CASE program \in Keyboards
    <3>1. PICK p : p = Place(1)
      OBVIOUS
    <3>2. p \in Known + 1 .. Len(mmap) - 1 /\ At(p, held[1]) /\ q = p + 1
      <4>1. q = p + 1
        BY <1>3, <1>6, <2>2, <3>1 DEF Place, Keyboards
      <4> QED BY <1>3, <1>4, <1>5, <1>7, <3>1, <4>1
    <3>3. mmap[p].end - mmap[p].start = CommandSize /\ mmap[p].start = held[1].start
      BY <1>2, <2>2, <3>2 DEF WordsInv, At
    <3>4. PICK list : list = free(mmap, mmap[p].start)
      OBVIOUS
    <3>5. mmap' = free(list, held[2].start)
      BY <2>2, <3>3, <3>4 DEF FreeCommand, Keyboards
    <3>6. mmap[p].end - mmap[p].start >= CommandSize /\ CommandSize \in Nat
      BY <3>3, SizesPositive
    <3>7. OnlyAt(mmap, p - 1)
      BY <1>2, NoneElsewhere
    <3>8. /\ ListInv(list) /\ Len(list) = Len(mmap) - 1 /\ list[p] = mmap[p + 1]
          /\ p - 1 \in Known .. Len(list) - 1 /\ list[p - 1].isNextFreed
          /\ GapFits(list, p - 1, CommandSize) /\ OnlyAt(list, p - 1)
      BY <1>2, <3>2, <3>4, <3>6, <3>7, OneFree
    <3>9. p \in Known + 1 .. Len(list) - 1 /\ list[p].start = held[2].start
      BY <1>3, <1>7, <1>8, <3>2, <3>8
    <3>10. mmap' = free(list, list[p].start)
      BY <3>5, <3>9
    <3>11. /\ p - 1 \in Known .. Len(mmap') - 1 /\ mmap'[p - 1].isNextFreed
           /\ GapFits(mmap', p - 1, CommandSize) /\ OnlyAt(mmap', p - 1)
      BY <3>6, <3>8, <3>9, <3>10, OneFree
    <3> QED BY <2>2, <3>11 DEF OneLeft, FirstSize
  <2> QED BY <1>1, <2>1, <2>2 DEF ShellLoops
<1>10. ListInv(mmap')
  <2>1. \A i \in 1 .. Len(held) : /\ held[i].start \in Nat /\ held[i].start >= Top
                                  /\ held[i].start < Limit
    <3> TAKE i \in 1 .. Len(held)
    <3>1. /\ held[i].start \in Nat /\ held[i].end \in Nat
          /\ held[i].start >= Top /\ held[i].start < held[i].end /\ held[i].end <= Limit
      BY HeldBlocks DEF HeapInv
    <3> QED BY <3>1, LoadedOrder
  <2>2. ASSUME NEW list, ListInv(list), NEW i \in 1 .. Len(held)
        PROVE  ListInv(free(list, held[i].start))
    <3>1. \/ free(list, held[i].start) = list
          \/ \E p \in Known + 1 .. Len(list) : Removed(list, free(list, held[i].start), p)
      BY <2>1, <2>2, FreeForm
    <3> QED BY <2>2, <3>1, FreeKeeps
  <2> QED BY <1>2, <1>5, <2>2 DEF FreeCommand
<1>11. TypeInv'
  BY <1>1, SameProgram DEF HeapInv, TypeInv
<1>12. ShellInv'
  <2>1. OneLeft(mmap, FirstSize)'
    BY <1>1, <1>9, SameProgram
  <2> QED BY <1>1, <2>1 DEF ShellInv
<1> QED BY <1>1, <1>10, <1>11, <1>12, SameProgram DEF HeapInv, ShellLoops, Keyboards

\* Every step keeps the invariant.
LEMMA HeapNext == HeapInv /\ [Next]_vars => HeapInv'
<1> SUFFICES ASSUME HeapInv, [Next]_vars PROVE HeapInv'
  OBVIOUS
<1>1. CASE UNCHANGED vars
  <2>1. UNCHANGED <<program, mmap, held, step, inOrder>>
    BY <1>1 DEF vars
  <2>2. /\ Known' = Known /\ Blocks' = Blocks /\ FirstSize' = FirstSize
        /\ ListInv(mmap) => ListInv(mmap)'
        /\ NoneLeft(mmap) => NoneLeft(mmap)'
        /\ OneLeft(mmap, FirstSize) => OneLeft(mmap, FirstSize)'
    BY <2>1, SameProgram
  <2> QED BY <2>1, <2>2 DEF HeapInv, TypeInv, ShellInv, OtherInv, WordsInv, Place, At
<1>2. ASSUME NEW size \in Sizes, Malloc(size) PROVE HeapInv'
  BY <1>2, MallocStep
<1>3. ASSUME NEW k \in DOMAIN held, Free(k) PROVE HeapInv'
  BY <1>3, FreeStep
<1>4. CASE Fork
  BY <1>4, ForkStep
<1>5. CASE ReadCommand
  BY <1>5, ReadCommandStep
<1>6. CASE EmptyLine
  BY <1>6, EmptyLineStep
<1>7. CASE ReadLine
  BY <1>7, ReadLineStep
<1>8. ASSUME NEW size \in TokenSizes, Token(size) PROVE HeapInv'
  BY <1>8, TokenStep
<1>9. CASE Execute
  BY <1>9, ExecuteStep
<1>10. CASE FreeCommand
  BY <1>10, FreeCommandStep
<1> QED BY <1>1, <1>2, <1>3, <1>4, <1>5, <1>6, <1>7, <1>8, <1>9, <1>10 DEF Next

\* The invariant.
LEMMA HeapInvariant == Spec => []HeapInv
<1> QED BY HeapInit, HeapNext, PTL DEF Spec

-------------------------------------------------------------------------------
(* The theorems. *)

\* malloc() and free() keep the arguments, the image and the stack in the list,
\* and no two areas of it overlap, whatever the program allocates and frees and
\* whenever it forks.
THEOREM ListIsInOrder == Spec => []AreasAreApart
<1>1. HeapInv => AreasAreApart
  <2> SUFFICES ASSUME HeapInv PROVE AreasAreApart
    OBVIOUS
  <2>1. ListInv(mmap)
    BY DEF HeapInv
  <2>2. /\ Known \in Nat /\ Known >= 3 /\ Len(mmap) \in Nat /\ Len(mmap) >= Known
        /\ DOMAIN mmap = 1 .. Len(mmap) /\ DOMAIN Loaded = 1 .. Known /\ Limit \in Nat
        /\ StackPlace \in 1 .. Known
    BY <2>1, LoadedOrder, ListEntries, LoadedStarts DEF Known, Starts
  <2>3. \A k \in 1 .. Known : mmap[k].start = Loaded[k].start /\ mmap[k].end = Loaded[k].end
    BY <2>1 DEF ListInv, SameArea
  <2>4. ASSUME NEW j \in 1 .. Len(mmap), NEW k \in 1 .. Len(mmap), j < k
        PROVE  mmap[j].end <= mmap[k].start \/ mmap[k].end <= mmap[j].start
    <3>1. CASE k \in 1 .. Known
      <4>1. j \in 1 .. k - 1 /\ j \in 1 .. Known
        BY <2>2, <2>4, <3>1
      <4>2. CASE j # StackPlace
        <5>1. Loaded[j].end <= Loaded[k].start
          BY <3>1, <4>1, <4>2, LoadedOrder
        <5> QED BY <2>3, <3>1, <4>1, <5>1
      <4>3. CASE j = StackPlace
        <5>1. k # StackPlace
          BY <2>4, <4>3
        <5>2. Loaded[k].end <= Loaded[j].start
          BY <3>1, <4>3, <5>1, LoadedOrder
        <5> QED BY <2>3, <3>1, <4>1, <5>2
      <4> QED BY <4>2, <4>3
    <3>2. CASE k \notin 1 .. Known
      <4>1. k \in Known + 1 .. Len(mmap) /\ j \in 1 .. k - 1
        BY <2>2, <2>4, <3>2
      <4>2. CASE j # StackPlace
        BY <2>1, <4>1, <4>2 DEF ListInv
      <4>3. CASE j = StackPlace
        <5>1. mmap[k].end <= Limit /\ mmap[k].end \in Nat
          BY <2>1, <4>1, AddedAreas
        <5>2. mmap[j].start = Loaded[StackPlace].start
          BY <2>2, <2>3, <4>3
        <5>3. Limit <= Loaded[StackPlace].start /\ Loaded[StackPlace].start \in Nat
          BY <2>2, LoadedOrder
        <5>4. mmap[k].end <= mmap[j].start
          BY <2>2, <5>1, <5>2, <5>3
        <5> QED BY <5>4
      <4> QED BY <4>2, <4>3
    <3> QED BY <3>1, <3>2
  <2> QED BY <2>2, <2>3, <2>4 DEF AreasAreApart, Apart, Known
<1> QED BY <1>1, HeapInvariant, PTL

\* What is held is in the list, and apart, if it is at increasing places there.
LEMMA SoundPlaces ==
    ASSUME HeapInv, NEW pos \in [1 .. Len(held) -> Known + 1 .. Len(mmap)],
           \A i \in 1 .. Len(held) : At(pos[i], held[i]),
           \A i \in 1 .. Len(held) : \A j \in 1 .. Len(held) : i < j => pos[i] < pos[j]
    PROVE  Sound
<1>1. ListInv(mmap) /\ held \in Seq(Blocks)
  BY DEF HeapInv, TypeInv
<1>2. /\ Known \in Nat /\ Len(mmap) \in Nat /\ DOMAIN held = 1 .. Len(held) /\ Len(held) \in Nat
      /\ DOMAIN mmap = 1 .. Len(mmap)
  BY <1>1, LoadedOrder, ListEntries
<1>3. ASSUME NEW i \in 1 .. Len(held) PROVE Listed(held[i])
  <2>1. pos[i] \in DOMAIN mmap
    BY <1>2
  <2> QED BY <2>1 DEF At, Listed
<1>4. ASSUME NEW i \in 1 .. Len(held), NEW j \in 1 .. Len(held), i < j
      PROVE  Apart(held[i], held[j])
  <2>1. pos[i] \in Known + 1 .. Len(mmap) /\ pos[j] \in pos[i] + 1 .. Len(mmap)
    BY <1>2, <1>4
  <2>2. mmap[pos[i]].end <= mmap[pos[j]].start
    BY <1>1, <2>1, AddedAreas
  <2> QED BY <2>2 DEF At, Apart
<1> QED BY <1>2, <1>3, <1>4 DEF Sound

\* What the shell uses for its command, or a program that frees its youngest
\* area first has allocated, is in the list and nothing of it
\* overlaps: malloc() cuts off none of it and gives none of it twice.
THEOREM NothingIsLost == Spec => []NothingInUseIsLost
<1>1. HeapInv => NothingInUseIsLost
  <2> SUFFICES ASSUME HeapInv, inOrder \/ program \in ShellLoops PROVE Sound
    BY DEF NothingInUseIsLost
  <2>1. held \in Seq(Blocks) /\ Len(held) \in Nat /\ Known \in Nat /\ Len(mmap) \in Nat
    BY LoadedOrder, ListEntries DEF HeapInv, TypeInv
  <2>2. CASE program \in ShellLoops /\ step = "prompt"
    <3>1. held = <<>>
      BY <2>2 DEF HeapInv, ShellInv
    <3> QED BY <3>1 DEF Sound
  <2>3. CASE program \in ShellLoops /\ step # "prompt"
    <3>1. PICK pos : pos = [i \in 1 .. Len(held) |-> Place(i)]
      OBVIOUS
    <3>2. \A i \in 1 .. Len(held) : pos[i] = Place(i)
      BY <3>1
    <3>3. /\ \A i \in 1 .. Len(held) : Place(i) \in Known + 1 .. Len(mmap) /\ At(Place(i), held[i])
          /\ \A i \in 1 .. Len(held) : \A j \in 1 .. Len(held) : i < j => Place(i) < Place(j)
      BY <2>3, ShellPlaces
    <3>4. pos \in [1 .. Len(held) -> Known + 1 .. Len(mmap)]
      BY <3>1, <3>3
    <3> QED BY <3>2, <3>3, <3>4, SoundPlaces
  <2>4. CASE program = "other" /\ inOrder
    <3>1. /\ Len(mmap) = Known + Len(held)
          /\ \A i \in 1 .. Len(held) : At(Known + i, held[i])
      BY <2>4 DEF HeapInv, OtherInv
    <3>2. PICK pos : pos = [i \in 1 .. Len(held) |-> Known + i]
      OBVIOUS
    <3>3. \A i \in 1 .. Len(held) : pos[i] = Known + i
      BY <3>2
    <3>4. pos \in [1 .. Len(held) -> Known + 1 .. Len(mmap)]
      BY <2>1, <3>1, <3>2
    <3>5. \A i \in 1 .. Len(held) : \A j \in 1 .. Len(held) : i < j => pos[i] < pos[j]
      BY <2>1, <3>3
    <3> QED BY <3>1, <3>3, <3>4, <3>5, SoundPlaces
  <2> QED BY <2>2, <2>3, <2>4 DEF HeapInv, TypeInv
<1> QED BY <1>1, HeapInvariant, PTL


-------------------------------------------------------------------------------
(* Numbers. *)

\* The smaller and the larger of two.
LEMMA TwoNumbers ==
    ASSUME NEW a \in Int, NEW b \in Int
    PROVE  /\ Min({a, b}) = IF a <= b THEN a ELSE b
           /\ Max({a, b}) = IF a <= b THEN b ELSE a
<1>1. PICK x : x = Min({a, b})
  OBVIOUS
<1>2. \E y \in {a, b} : \A z \in {a, b} : y <= z
  BY SMT
<1>3. x \in {a, b} /\ \A z \in {a, b} : x <= z
  BY <1>1, <1>2 DEF Min
<1>4. x = IF a <= b THEN a ELSE b
  BY <1>3, SMT
<1>5. PICK w : w = Max({a, b})
  OBVIOUS
<1>6. \E y \in {a, b} : \A z \in {a, b} : y >= z
  BY SMT
<1>7. w \in {a, b} /\ \A z \in {a, b} : w >= z
  BY <1>5, <1>6 DEF Max
<1>8. w = IF a <= b THEN b ELSE a
  BY <1>7, SMT
<1> QED BY <1>1, <1>4, <1>5, <1>8

\* The least of one.
LEMMA OneNumber == ASSUME NEW a \in Int PROVE Min({a}) = a
  BY SMT DEF Min

-------------------------------------------------------------------------------
(* Parts of sequences. *)

\* v is the part of s from a on, of length n.
Part(v, S, s, a, n) ==
    /\ v \in Seq(S) /\ Len(v) = n /\ v = [l \in 1 .. n |-> v[l]]
    /\ \A l \in 1 .. n : v[l] = s[a + l - 1]

\* A part of a sequence.
LEMMA PartIs ==
    ASSUME NEW S, NEW s, NEW a \in Int, NEW b \in Int, \A y \in a .. b : s[y] \in S,
           NEW n \in Nat, n = b - a + 1, NEW v, v = SubSeq(s, a, b)
    PROVE  Part(v, S, s, a, n)
<1>1. /\ v \in Seq(S) /\ Len(v) = IF a <= b THEN b - a + 1 ELSE 0
      /\ \A l \in 1 .. b - a + 1 : v[l] = s[a + l - 1]
  BY SubSeqProperties
<1>2. PICK x : x = Len(v)
  OBVIOUS
<1>3. (a <= b => x = b - a + 1) /\ (~(a <= b) => x = 0)
  BY <1>1, <1>2, Zenon
<1>4. x = n
  BY <1>3, SMT
<1>5. Len(v) = n
  BY <1>2, <1>4
<1>6. v = [l \in 1 .. n |-> v[l]]
  BY <1>1, <1>5
<1> QED BY <1>1, <1>5, <1>6 DEF Part

\* v is the beginning of w, of length n.
Begins(v, S, w, n) ==
    /\ v \in Seq(S) /\ Len(v) = n /\ \A l \in 1 .. n : v[l] = w[l]
    /\ n = Len(w) => v = w
    /\ IsPrefix(v, w)

\* The beginning of a word.
LEMMA BeginningIs ==
    ASSUME NEW S, NEW w \in Seq(S), NEW n \in 0 .. Len(w), NEW v, v = SubSeq(w, 1, n)
    PROVE  Begins(v, S, w, n)
<1>1. PICK m : m = Len(w)
  OBVIOUS
<1>2. m \in Nat /\ n \in Nat /\ n <= m /\ n \in Int /\ 1 \in Int /\ w = [l \in 1 .. m |-> w[l]]
  BY <1>1
<1>3. PICK a : a = 1
  OBVIOUS
<1>4. a \in Int /\ n = n - a + 1 /\ \A l \in 1 .. n : a + l - 1 = l
  BY <1>2, <1>3, SMT
<1>5. \A l \in a .. n : w[l] \in S
  <2> TAKE l \in a .. n
  <2>1. l \in 1 .. m
    BY <1>2, <1>3, SMT
  <2> QED BY <1>1, <2>1
<1>6. v \in Seq(S) /\ Len(v) = n /\ v = [l \in 1 .. n |-> v[l]]
        /\ \A l \in 1 .. n : v[l] = w[a + l - 1]
  <2>1. v = SubSeq(w, a, n)
    BY <1>3
  <2>2. Part(v, S, w, a, n)
    BY <1>2, <1>4, <1>5, <2>1, PartIs
  <2> QED BY <2>2 DEF Part
<1>7. \A l \in 1 .. n : v[l] = w[l]
  BY <1>4, <1>6
<1>8. n = m => v = w
  BY <1>2, <1>6, <1>7
<1>9. PICK u : u = SubSeq(v, a, n)
  OBVIOUS
<1>10. u = v
  <2>1. \A l \in a .. n : v[l] \in S
    BY <1>3, <1>5, <1>7
  <2>2. u = [l \in 1 .. n |-> u[l]] /\ \A l \in 1 .. n : u[l] = v[a + l - 1]
    <3>1. Part(u, S, v, a, n)
      BY <1>2, <1>4, <1>9, <2>1, PartIs
    <3> QED BY <3>1 DEF Part
  <2> QED BY <1>4, <1>6, <2>2
<1>11. IsPrefix(v, w)
  <2>1. Len(v) <= Len(w)
    BY <1>1, <1>2, <1>6
  <2>2. SubSeq(w, 1, Len(v)) = v /\ SubSeq(v, 1, Len(v)) = v
    BY <1>3, <1>6, <1>9, <1>10
  <2> QED BY <2>1, <2>2 DEF IsPrefix
<1> QED BY <1>1, <1>6, <1>7, <1>8, <1>11 DEF Begins

-------------------------------------------------------------------------------
(* The children that have not called exec() yet. *)

ChildrenInv ==
    /\ live \subseteq Proc /\ parent \in [Proc -> Proc \cup {None}]
    /\ \A q \in Proc : parent[q] # None =>
            q \in live /\ parent[q] \in live /\ parent[parent[q]] = None

LEMMA ChildrenInit == ExecInit => ChildrenInv /\ forked = {}
  BY ExecAssumption DEF ExecInit, ChildrenInv, forked

LEMMA ChildrenFork ==
    ASSUME ChildrenInv, NEW p \in Proc, NEW q \in Proc, fork(p, q)
    PROVE  ChildrenInv' /\ forked' = forked \cup {q} /\ q \notin live /\ p \in live \ forked
<1>1. /\ p \in live \ forked /\ q \notin live /\ live' = live \cup {q}
      /\ parent' = [parent EXCEPT ![q] = p]
  BY DEF fork
<1>2. p # None /\ parent[p] = None
  BY <1>1, ExecAssumption DEF forked
<1>3. parent'[q] = p /\ \A r \in Proc : r # q => parent'[r] = parent[r]
  BY <1>1 DEF ChildrenInv
<1>4. forked' = forked \cup {q}
  BY <1>1, <1>2, <1>3 DEF forked, ChildrenInv
<1>5. parent' \in [Proc -> Proc \cup {None}]
  BY <1>1 DEF ChildrenInv
<1> QED BY <1>1, <1>2, <1>3, <1>4, <1>5 DEF ChildrenInv

LEMMA ChildrenExec ==
    ASSUME ChildrenInv, NEW q \in Proc, NEW line, exec(q, line)
    PROVE  ChildrenInv' /\ forked' = forked \ {q} /\ q \in forked
<1>1. /\ q \in forked /\ live' = live /\ parent' = [parent EXCEPT ![q] = None]
  BY DEF exec
<1>2. parent'[q] = None /\ \A r \in Proc : r # q => parent'[r] = parent[r]
  BY <1>1 DEF ChildrenInv
<1>3. forked' = forked \ {q}
  BY <1>1, <1>2 DEF forked, ChildrenInv
<1>4. parent' \in [Proc -> Proc \cup {None}]
  BY <1>1 DEF ChildrenInv
<1> QED BY <1>1, <1>2, <1>3, <1>4 DEF ChildrenInv

LEMMA ChildrenExit ==
    ASSUME ChildrenInv, NEW q \in Proc, exit(q)
    PROVE  ChildrenInv' /\ forked' = forked /\ \A r \in Proc : parent[r] # q
<1>1. /\ q \in live \ forked /\ \A r \in forked : parent[r] # q
      /\ live' = live \ {q} /\ parent' = parent
  BY DEF exit
<1>2. \A r \in Proc : parent[r] # q
  BY <1>1, ExecAssumption DEF forked, ChildrenInv
<1>3. forked' = forked
  BY <1>1 DEF forked
<1>4. \A r \in Proc : parent[r] # None => r # q
  BY <1>1 DEF forked
<1> QED BY <1>1, <1>2, <1>3, <1>4 DEF ChildrenInv

LEMMA ChildrenSame ==
    ASSUME ChildrenInv, live' = live, parent' = parent
    PROVE  ChildrenInv' /\ forked' = forked
  BY DEF ChildrenInv, forked

-------------------------------------------------------------------------------
(* The pages of an environment es, as getenv() and setenv() read them. *)

EntryType == [name : Name \cup {None}, value : Seq(STRING)]

\* They hold n variables, each once, and the entries behind them, if any, are empty.
HasVariables(es, n) ==
    /\ es \in Seq(EntryType) /\ n \in Nat /\ n <= Len(es)
    /\ \A k \in 1 .. n : es[k].name \in Name
    /\ \A k \in n + 1 .. Len(es) : es[k] = Ended
    /\ \A k, l \in 1 .. n : es[k].name = es[l].name => k = l

\* Then they are named, and reached; those behind them are not named.
LEMMA ReachedAre ==
    ASSUME NEW es, NEW n, HasVariables(es, n)
    PROVE  /\ n \in Nat /\ Len(es) \in Nat /\ DOMAIN es = 1 .. Len(es) /\ n <= Len(es)
           /\ \A k \in 1 .. n : k \in DOMAIN es /\ Reached(es, k) /\ es[k] # Ended
           /\ \A k \in DOMAIN es : k \notin 1 .. n => es[k] = Ended /\ es[k].name \notin Name
<1>1. n \in Nat /\ n <= Len(es) /\ Len(es) \in Nat /\ DOMAIN es = 1 .. Len(es)
  BY DEF HasVariables
<1>2. \A k \in 1 .. n : es[k] # Ended
  BY ExecAssumption DEF HasVariables, Ended, Entry
<1>3. ASSUME NEW k \in 1 .. n PROVE k \in DOMAIN es /\ Reached(es, k)
  <2>1. k \in 1 .. Len(es) /\ \A l \in 1 .. k - 1 : l \in 1 .. n
    BY <1>1, SMT
  <2> QED BY <1>1, <1>2, <2>1 DEF Reached
<1>4. ASSUME NEW k \in DOMAIN es, k \notin 1 .. n PROVE es[k] = Ended /\ es[k].name \notin Name
  <2>1. k \in n + 1 .. Len(es)
    BY <1>1, <1>4, SMT
  <2>2. es[k] = Ended
    BY <2>1 DEF HasVariables
  <2> QED BY <2>2, ExecAssumption DEF Ended, Entry
<1> QED BY <1>1, <1>2, <1>3, <1>4

\* They are counted, ...
LEMMA CountIs ==
    ASSUME NEW es, NEW n, HasVariables(es, n)
    PROVE  Entries(es) = n
<1>1. n \in Nat
  BY ReachedAre
<1>2. {k \in DOMAIN es : es[k] # Ended /\ Reached(es, k)} = 1 .. n
  BY ReachedAre
<1>3. Cardinality(1 .. n) = n
  <2>1. Cardinality(1 .. n) = IF 1 > n THEN 0 ELSE n - 1 + 1
    BY <1>1, FS_Interval
  <2> QED BY <1>1, <2>1, SMT
<1> QED BY <1>2, <1>3 DEF Entries

\* ... and each is found by its name, ...
LEMMA VariableIs ==
    ASSUME NEW es, NEW n, HasVariables(es, n), NEW k \in 1 .. n
    PROVE  /\ Holding(es, es[k].name) = {k}
           /\ Min(Holding(es, es[k].name)) = k
           /\ getenv(es, es[k].name) = es[k].value
<1>1. ASSUME NEW l \in DOMAIN es, es[l].name = es[k].name PROVE l = k
  <2>1. es[k].name \in Name
    BY DEF HasVariables
  <2>2. l \in 1 .. n
    BY <1>1, <2>1, ReachedAre
  <2> QED BY <1>1, <2>2 DEF HasVariables
<1>2. k \in DOMAIN es /\ Reached(es, k)
  BY ReachedAre
<1>3. Holding(es, es[k].name) = {k}
  BY <1>1, <1>2 DEF Holding
<1>4. k \in Int
  OBVIOUS
<1>5. Min({k}) = k
  BY <1>4, OneNumber
<1> QED BY <1>3, <1>5 DEF getenv

\* ... and no other name is.
LEMMA NoVariable ==
    ASSUME NEW es, NEW n, HasVariables(es, n), NEW x \in Name,
           \A k \in 1 .. n : es[k].name # x
    PROVE  Holding(es, x) = {} /\ getenv(es, x) = None
<1>1. \A l \in DOMAIN es : es[l].name # x
  BY ReachedAre
<1>2. Holding(es, x) = {}
  BY <1>1 DEF Holding
<1> QED BY <1>2 DEF getenv

\* An entry has a name and a value.
LEMMA EntryIs ==
    ASSUME NEW x \in Name \cup {None}, NEW v \in Seq(STRING)
    PROVE  /\ Entry(x, v) \in EntryType /\ Entry(x, v).name = x /\ Entry(x, v).value = v
           /\ Ended \in EntryType /\ Ended.name = None
<1>1. <<>> \in Seq(STRING)
  OBVIOUS
<1> QED BY <1>1 DEF Entry, EntryType, Ended

\* x is given the value v at place k: where it was, or behind the n variables.
PutAt(es, n, k, x, v, new) ==
    /\ new \in Seq(EntryType) /\ Len(es) <= Len(new) /\ k \in 1 .. Len(new)
    /\ new[k] = Entry(x, v)
    /\ \A l \in 1 .. Len(es) : l # k => new[l] = es[l]
    /\ \A l \in Len(es) + 1 .. Len(new) : l # k => new[l] = Ended
    /\ \/ k \in 1 .. n /\ es[k].name = x
       \/ k = n + 1 /\ \A l \in 1 .. n : es[l].name # x

\* setenv() does so on the pages; a new variable has an empty entry behind it.
LEMMA SetIsPut ==
    ASSUME NEW es, NEW n, HasVariables(es, n), NEW x \in Name, NEW v \in Seq(STRING),
           n + 1 <= Len(es), NEW new, new = WithVariable(es, x, v)
    PROVE  \E k \in 1 .. Len(es) :
                PutAt(es, n, k, x, v, new) /\ (k = n + 1 => n + 2 <= Len(new))
<1>1. PICK e, L : e = Entry(x, v) /\ L = Len(es)
  OBVIOUS
<1>2. n \in Nat /\ L \in Nat /\ DOMAIN es = 1 .. L /\ n + 1 <= L /\ es \in Seq(EntryType)
  BY <1>1, ReachedAre DEF HasVariables
<1>3. e \in EntryType /\ Ended \in EntryType
  BY <1>1, EntryIs
<1>4. CASE \E k \in 1 .. n : es[k].name = x
  <2>1. PICK k \in 1 .. n : es[k].name = x
    BY <1>4
  <2>2. Holding(es, x) # {} /\ Min(Holding(es, x)) = k
    <3>1. Holding(es, es[k].name) = {k} /\ Min(Holding(es, es[k].name)) = k
      BY VariableIs
    <3> QED BY <2>1, <3>1
  <2>3. new = [es EXCEPT ![k] = e]
    BY <1>1, <2>2, Zenon DEF WithVariable
  <2>4. k \in 1 .. L /\ k # n + 1 /\ L <= L /\ \A l \in L + 1 .. L : FALSE
    BY <1>2, SMT
  <2>5. new \in Seq(EntryType) /\ Len(new) = L
    BY <1>1, <1>2, <1>3, <2>3
  <2>6. new[k] = e /\ \A l \in 1 .. L : l # k => new[l] = es[l]
    BY <1>2, <2>3, <2>4, Zenon
  <2>7. PutAt(es, n, k, x, v, new)
    BY <1>1, <2>1, <2>4, <2>5, <2>6 DEF PutAt
  <2> QED BY <1>1, <2>4, <2>7
<1>5. CASE \A k \in 1 .. n : es[k].name # x
  <2>1. Holding(es, x) = {} /\ Entries(es) = n
    BY <1>5, NoVariable, CountIs
  <2>2. PICK k : k = n + 1
    OBVIOUS
  <2>3. k \in 1 .. L /\ k \in Nat /\ k >= 1 /\ k <= L
    BY <1>2, <2>2, SMT
  <2>4. PICK set : set = [es EXCEPT ![k] = e]
    OBVIOUS
  <2>5. /\ set \in Seq(EntryType) /\ Len(set) = L
        /\ set[k] = e /\ \A l \in 1 .. L : l # k => set[l] = es[l]
    BY <1>1, <1>2, <1>3, <2>3, <2>4
  <2>6. PICK first : first = SubSeq(set, 1, k)
    OBVIOUS
  <2>7. first \in Seq(EntryType) /\ Len(first) = k /\ \A l \in 1 .. k : first[l] = set[l]
    <3>1. k \in 0 .. L
      BY <2>3, SMT
    <3>2. Begins(first, EntryType, set, k)
      BY <2>5, <2>6, <3>1, BeginningIs
    <3> QED BY <3>2 DEF Begins
  <2>8. PICK end : end = <<Ended>>
    OBVIOUS
  <2>9. end \in Seq(EntryType) /\ Len(end) = 1 /\ end[1] = Ended
    BY <1>3, <2>8
  <2>10. PICK front, m : front = first \o end /\ m = k + 1
    OBVIOUS
  <2>11. front \in Seq(EntryType) /\ Len(front) = m /\ front[m] = Ended
          /\ \A l \in 1 .. k : front[l] = first[l]
    <3>1. /\ first \o end \in Seq(EntryType) /\ Len(first \o end) = Len(first) + Len(end)
          /\ \A l \in 1 .. Len(first) + Len(end) :
                (first \o end)[l] = IF l <= Len(first) THEN first[l] ELSE end[l - Len(first)]
      <4>1. first \in Seq(EntryType) /\ end \in Seq(EntryType)
        BY <2>7, <2>9
      <4> QED BY <4>1, ConcatProperties
    <3>2. /\ front \in Seq(EntryType) /\ Len(front) = Len(first) + Len(end)
          /\ \A l \in 1 .. Len(first) + Len(end) :
                front[l] = IF l <= Len(first) THEN first[l] ELSE end[l - Len(first)]
      BY <2>10, <3>1
    <3>3. /\ Len(front) = m /\ m - k = 1 /\ ~(m <= k) /\ m \in 1 .. m
          /\ \A l \in 1 .. k : l \in 1 .. m /\ l <= k
      BY <2>3, <2>7, <2>9, <2>10, <3>2, SMT
    <3>4. \A l \in 1 .. m : front[l] = IF l <= k THEN first[l] ELSE end[l - k]
      BY <2>7, <2>9, <2>10, <3>2
    <3>5. front[m] = end[m - k]
      BY <3>3, <3>4
    <3>6. \A l \in 1 .. k : front[l] = first[l]
      BY <3>3, <3>4
    <3> QED BY <2>9, <3>2, <3>3, <3>5, <3>6
  <2>12. PICK a, more : a = k + 2 /\ more = SubSeq(es, a, L)
    OBVIOUS
  <2>13. PICK w : w = Len(more)
    OBVIOUS
  <2>14. /\ more \in Seq(EntryType) /\ w \in Nat /\ w = (IF a <= L THEN L - a + 1 ELSE 0)
         /\ \A l \in 1 .. w : more[l] = es[a + l - 1]
    <3>1. \A l \in a .. L : es[l] \in EntryType
      <4>1. \A l \in a .. L : l \in 1 .. L
        BY <1>2, <2>3, <2>12, SMT
      <4> QED BY <1>1, <1>2, <4>1
    <3>2. a \in Int /\ L \in Int
      BY <1>2, <2>3, <2>12, SMT
    <3>3. /\ more \in Seq(EntryType)
          /\ Len(more) = (IF a <= L THEN L - a + 1 ELSE 0)
          /\ \A l \in 1 .. L - a + 1 : more[l] = es[a + l - 1]
      BY <2>12, <3>1, <3>2, SubSeqProperties
    <3>4. w = (IF a <= L THEN L - a + 1 ELSE 0)
      BY <2>13, <3>3
    <3>5. w \in Nat /\ \A l \in 1 .. w : l \in 1 .. L - a + 1
      BY <3>2, <3>4, SMT
    <3>6. \A l \in 1 .. w : more[l] = es[a + l - 1]
      BY <3>3, <3>5
    <3> QED BY <3>3, <3>4, <3>5, <3>6
  <2>15. new = front \o more
    <3>1. new = SubSeq([es EXCEPT ![n + 1] = e], 1, n + 1) \o <<Ended>> \o SubSeq(es, n + 1 + 2, Len(es))
      BY <1>1, <2>1, Zenon DEF WithVariable
    <3> QED BY <1>1, <2>2, <2>4, <2>6, <2>8, <2>10, <2>12, <3>1
  <2>16. PICK N : N = Len(new)
    OBVIOUS
  <2>17. /\ new \in Seq(EntryType) /\ N = m + w
         /\ \A l \in 1 .. N : new[l] = IF l <= m THEN front[l] ELSE more[l - m]
    <3>1. /\ new \in Seq(EntryType) /\ Len(new) = Len(front) + Len(more)
          /\ \A l \in 1 .. Len(front) + Len(more) :
                new[l] = IF l <= Len(front) THEN front[l] ELSE more[l - Len(front)]
      BY <2>11, <2>14, <2>15, ConcatProperties
    <3> QED BY <2>11, <2>13, <2>16, <3>1
  <2>18. L <= N /\ k \in 1 .. N /\ k <= m /\ n + 2 <= N /\ N \in Nat
    BY <1>2, <2>2, <2>3, <2>10, <2>12, <2>14, <2>17, SMT
  <2>19. new[k] = e
    <3>1. k \in 1 .. k
      BY <2>3, SMT
    <3> QED BY <2>5, <2>7, <2>11, <2>17, <2>18, <3>1
  <2>20. \A l \in k + 1 .. L : es[l] = Ended
    BY <1>1, <2>2 DEF HasVariables
  <2>21. ASSUME NEW l \in 1 .. N, l # k
         PROVE  (l <= L => new[l] = es[l]) /\ (~(l <= L) => new[l] = Ended)
    <3>1. l \in Nat /\ l >= 1 /\ l <= N
      BY <2>18
    <3>2. CASE l < k
      <4>1. l \in 1 .. k /\ l \in 1 .. L /\ l <= m /\ l <= L
        BY <1>2, <2>3, <2>10, <3>1, <3>2, SMT
      <4> QED BY <2>5, <2>7, <2>11, <2>17, <2>21, <4>1
    <3>3. CASE l = m
      <4>1. l <= m /\ (l <= L => l \in k + 1 .. L)
        BY <1>2, <2>3, <2>10, <3>1, <3>3, SMT
      <4>2. new[l] = Ended
        BY <2>11, <2>17, <3>3, <4>1
      <4> QED BY <2>20, <4>1, <4>2
    <3>4. CASE l > m
      <4>1. PICK j : j = l - m
        OBVIOUS
      <4>2. /\ ~(l <= m) /\ j \in 1 .. w /\ a + j - 1 = l /\ l \in k + 1 .. L /\ l <= L
        BY <1>2, <2>3, <2>10, <2>12, <2>14, <2>17, <3>1, <3>4, <4>1, SMT
      <4>3. new[l] = more[j]
        BY <2>17, <4>1, <4>2
      <4>4. more[j] = es[a + j - 1]
        BY <2>14, <4>2
      <4> QED BY <4>2, <4>3, <4>4
    <3>5. l < k \/ l = m \/ l > m
      BY <2>3, <2>10, <2>21, <3>1, SMT
    <3> QED BY <3>2, <3>3, <3>4, <3>5
  <2>22. \A l \in 1 .. L : l \in 1 .. N /\ l <= L
    BY <1>2, <2>18, SMT
  <2>23. \A l \in L + 1 .. N : l \in 1 .. N /\ ~(l <= L)
    BY <1>2, <2>18, SMT
  <2>24. PutAt(es, n, k, x, v, new)
    BY <1>1, <1>5, <2>2, <2>16, <2>17, <2>18, <2>19, <2>21, <2>22, <2>23 DEF PutAt
  <2> QED BY <1>1, <2>3, <2>16, <2>18, <2>24
<1> QED BY <1>4, <1>5

\* The pages hold the variables that were there, and x.
LEMMA PutHas ==
    ASSUME NEW es, NEW n, HasVariables(es, n), NEW x \in Name, NEW v \in Seq(STRING),
           NEW k, NEW new, PutAt(es, n, k, x, v, new), NEW m, m = IF k = n + 1 THEN n + 1 ELSE n
    PROVE  /\ HasVariables(new, m) /\ m \in Nat /\ n \in Nat /\ n <= m /\ k \in 1 .. m
           /\ \A l \in 1 .. m : l = k \/ l \in 1 .. n
           /\ new[k].name = x /\ new[k].value = v
           /\ \A l \in 1 .. n : l # k => new[l] = es[l]
<1>1. PICK L, N : L = Len(es) /\ N = Len(new)
  OBVIOUS
<1>2. n \in Nat /\ L \in Nat /\ n <= L
  BY <1>1, ReachedAre
<1>3. new \in Seq(EntryType) /\ N \in Nat /\ L <= N /\ k \in 1 .. N
  BY <1>1 DEF PutAt
<1>4. (k \in 1 .. n /\ es[k].name = x) \/ (k = n + 1 /\ \A l \in 1 .. n : es[l].name # x)
  BY DEF PutAt
<1>5. k \in 1 .. n \/ k = n + 1
  BY <1>4
<1>6. /\ m \in Nat /\ n <= m /\ k \in 1 .. m /\ m <= N
      /\ \A l \in 1 .. m : l = k \/ l \in 1 .. n
  BY <1>2, <1>3, <1>5, SMT
<1>7. new[k].name = x /\ new[k].value = v
  <2>1. new[k] = Entry(x, v)
    BY DEF PutAt
  <2> QED BY <2>1, EntryIs
<1>8. \A l \in 1 .. n : l # k => new[l] = es[l]
  <2>1. \A l \in 1 .. n : l \in 1 .. L
    BY <1>2, SMT
  <2> QED BY <1>1, <2>1 DEF PutAt
<1>9. \A l \in 1 .. m : new[l].name \in Name
  BY <1>6, <1>7, <1>8 DEF HasVariables
<1>10. ASSUME NEW l \in m + 1 .. N PROVE new[l] = Ended
  <2>1. l # k /\ (l \in n + 1 .. L \/ l \in L + 1 .. N) /\ (l \in n + 1 .. L => l \in 1 .. L)
    BY <1>2, <1>3, <1>6, SMT
  <2>2. CASE l \in n + 1 .. L
    <3>1. es[l] = Ended
      BY <1>1, <2>2 DEF HasVariables
    <3>2. new[l] = es[l]
      BY <1>1, <2>1, <2>2 DEF PutAt
    <3> QED BY <3>1, <3>2
  <2>3. CASE l \in L + 1 .. N
    BY <1>1, <2>1, <2>3 DEF PutAt
  <2> QED BY <2>1, <2>2, <2>3
<1>11. ASSUME NEW l \in 1 .. n, l # k PROVE es[l].name # x
  <2>1. CASE k \in 1 .. n /\ es[k].name = x
    BY <1>11, <2>1 DEF HasVariables
  <2>2. CASE k = n + 1 /\ \A j \in 1 .. n : es[j].name # x
    BY <2>2
  <2> QED BY <1>4, <2>1, <2>2
<1>12. ASSUME NEW l \in 1 .. m, NEW j \in 1 .. m, new[l].name = new[j].name PROVE l = j
  <2>1. CASE l # k /\ j # k
    BY <1>6, <1>8, <1>12, <2>1 DEF HasVariables
  <2>2. CASE l = k /\ j # k
    BY <1>6, <1>7, <1>8, <1>11, <1>12, <2>2
  <2>3. CASE j = k /\ l # k
    BY <1>6, <1>7, <1>8, <1>11, <1>12, <2>3
  <2> QED BY <2>1, <2>2, <2>3
<1>13. HasVariables(new, m)
  BY <1>1, <1>3, <1>6, <1>9, <1>10, <1>12 DEF HasVariables
<1> QED BY <1>2, <1>6, <1>7, <1>8, <1>13

\* The value of an entry is cut, a name is kept.
LEMMA CopiedIs ==
    ASSUME NEW e \in EntryType
    PROVE  /\ CopiedEntry(e) \in EntryType
           /\ CopiedEntry(e).name = e.name
           /\ e = Ended => CopiedEntry(e) = Ended
           /\ e # Ended
                   => CopiedEntry(e).value = SubSeq(e.value, 1, Min({ValueLimit, Len(e.value)}))
<1>1. PICK v : v = SubSeq(e.value, 1, Min({ValueLimit, Len(e.value)}))
  OBVIOUS
<1>2. e.value \in Seq(STRING) /\ Len(e.value) \in Nat /\ ValueLimit \in Nat
  BY ExecAssumption DEF EntryType
<1>3. PICK b : b = Min({ValueLimit, Len(e.value)})
  OBVIOUS
<1>4. b \in Nat /\ b <= Len(e.value)
  <2>1. b = IF ValueLimit <= Len(e.value) THEN ValueLimit ELSE Len(e.value)
    BY <1>2, <1>3, TwoNumbers
  <2> QED BY <1>2, <2>1, SMT
<1>5. v \in Seq(STRING)
  <2>1. v = SubSeq(e.value, 1, b)
    BY <1>1, <1>3
  <2>2. \A l \in 1 .. b : e.value[l] \in STRING
    <3>1. \A l \in 1 .. b : l \in 1 .. Len(e.value)
      BY <1>2, <1>4, SMT
    <3> QED BY <1>2, <3>1
  <2>3. 1 \in Int /\ b \in Int
    BY <1>4, SMT
  <2> QED BY <2>1, <2>2, <2>3, SubSeqProperties
<1>6. PICK u : u = [e EXCEPT !.value = v]
  OBVIOUS
<1>7. u \in EntryType /\ u.name = e.name /\ u.value = v
  BY <1>5, <1>6 DEF EntryType
<1>8. CopiedEntry(e) = IF e = Ended THEN e ELSE u
  BY <1>1, <1>6 DEF CopiedEntry
<1> QED BY <1>1, <1>7, <1>8

\* The copy holds the variables that the pointers lead to.
LEMMA CopyHas ==
    ASSUME NEW es, NEW n, HasVariables(es, n), NEW c \in Nat, c <= Len(es),
           NEW new, new = CopiedEntries(es, c), NEW b \in Nat, b = IF n <= c THEN n ELSE c
    PROVE  /\ HasVariables(new, b) /\ Len(new) = c + 1 /\ b \in Nat /\ b <= c
           /\ \A k \in 1 .. b : new[k] = CopiedEntry(es[k])
<1>1. n \in Nat /\ n <= Len(es) /\ Len(es) \in Nat /\ DOMAIN es = 1 .. Len(es)
        /\ es \in Seq(EntryType)
  BY DEF HasVariables
<1>2. PICK f : f = [k \in 1 .. c |-> CopiedEntry(es[k])]
  OBVIOUS
<1>3. \A k \in 1 .. c : k \in 1 .. Len(es) /\ es[k] \in EntryType /\ f[k] = CopiedEntry(es[k])
  <2>1. \A k \in 1 .. c : k \in 1 .. Len(es)
    BY <1>1, SMT
  <2> QED BY <1>1, <1>2, <2>1
<1>4. f \in Seq(EntryType) /\ Len(f) = c
  <2>1. f \in [1 .. c -> EntryType]
    BY <1>2, <1>3, CopiedIs
  <2> QED BY <2>1, SMT
<1>5. Ended \in EntryType
  <2>1. None \in Name \cup {None} /\ <<>> \in Seq(STRING)
    OBVIOUS
  <2> QED BY <2>1, EntryIs
<1>6. new = f \o <<Ended>>
  BY <1>2 DEF CopiedEntries
<1>7. new \in Seq(EntryType) /\ Len(new) = c + 1 /\ new[c + 1] = Ended
        /\ \A k \in 1 .. c : new[k] = f[k]
  BY <1>4, <1>5, <1>6, SMT
<1>8. \A k \in 1 .. b : k \in 1 .. n /\ k \in 1 .. c
  BY <1>1, SMT
<1>9. \A k \in 1 .. b : new[k] = CopiedEntry(es[k]) /\ new[k].name = es[k].name
  <2>1. ASSUME NEW k \in 1 .. b PROVE new[k] = CopiedEntry(es[k]) /\ new[k].name = es[k].name
    <3>1. k \in 1 .. c
      BY <1>8
    <3>2. new[k] = CopiedEntry(es[k]) /\ es[k] \in EntryType
      BY <1>3, <1>7, <3>1
    <3>3. CopiedEntry(es[k]).name = es[k].name
      BY <3>2, CopiedIs
    <3> QED BY <3>2, <3>3
  <2> QED BY <2>1
<1>10. ASSUME NEW k \in b + 1 .. c + 1 PROVE new[k] = Ended
  <2>1. CASE k = c + 1
    BY <1>7, <2>1
  <2>2. CASE k # c + 1
    <3>1. k \in 1 .. c /\ k \in n + 1 .. Len(es)
      BY <1>1, <2>2, SMT
    <3>2. new[k] = CopiedEntry(es[k]) /\ es[k] = Ended
      BY <1>3, <1>7, <3>1 DEF HasVariables
    <3> QED BY <1>5, <3>2, CopiedIs
  <2> QED BY <2>1, <2>2
<1>11. b <= c + 1 /\ b <= c
  BY <1>1, SMT
<1>12. \A k \in 1 .. b : new[k].name \in Name
  BY <1>8, <1>9 DEF HasVariables
<1>13. \A k, l \in 1 .. b : new[k].name = new[l].name => k = l
  BY <1>8, <1>9 DEF HasVariables
<1>14. HasVariables(new, b)
  BY <1>7, <1>10, <1>11, <1>12, <1>13 DEF HasVariables
<1> QED BY <1>7, <1>9, <1>11, <1>14

-------------------------------------------------------------------------------
(* The same pages as a dictionary: the names that a program of c pointers *)
(* hands on, and the room it has for another one.                         *)

HandedOf(es, c) == {es[k].name : k \in 1 .. Min({Entries(es), c})}
RoomOf(es, c) == Max({0, c - Entries(es)})
Least(n, c) == IF n <= c THEN n ELSE c
NamesTo(es, b) == {es[k].name : k \in 1 .. b}
RoomFor(n, c) == IF n <= c THEN c - n ELSE 0

\* Both in numbers of entries.
LEMMA HandedIs ==
    ASSUME NEW es, NEW n, HasVariables(es, n), NEW c \in Nat
    PROVE  /\ n \in Nat /\ Least(n, c) \in Nat /\ Least(n, c) <= n /\ Least(n, c) <= c
           /\ HandedOf(es, c) = NamesTo(es, Least(n, c))
           /\ RoomOf(es, c) = RoomFor(n, c)
<1>1. n \in Nat /\ Entries(es) = n
  BY CountIs DEF HasVariables
<1>2. Min({n, c}) = Least(n, c)
  BY <1>1, TwoNumbers DEF Least
<1>3. Max({0, c - n}) = IF n <= c THEN c - n ELSE 0
  <2>1. PICK d : d = c - n
    OBVIOUS
  <2>2. d \in Int /\ 0 \in Int
    BY <1>1, <2>1, SMT
  <2>3. Max({0, d}) = IF 0 <= d THEN d ELSE 0
    BY <2>2, TwoNumbers
  <2>4. 0 <= d <=> n <= c
    BY <1>1, <2>1, SMT
  <2> QED BY <2>1, <2>3, <2>4
<1>4. Least(n, c) \in Nat /\ Least(n, c) <= n /\ Least(n, c) <= c
  BY <1>1, SMT DEF Least
<1>5. HandedOf(es, c) = NamesTo(es, Least(n, c))
  BY <1>1, <1>2 DEF HandedOf, NamesTo
<1>6. RoomOf(es, c) = RoomFor(n, c)
  BY <1>1, <1>3 DEF RoomOf, RoomFor
<1> QED BY <1>1, <1>4, <1>5, <1>6

\* As many names as entries.
LEMMA HandedCount ==
    ASSUME NEW es, NEW n, HasVariables(es, n), NEW c \in Nat
    PROVE  Cardinality(HandedOf(es, c)) = Least(n, c)
<1> DEFINE b == Least(n, c)
           f == [k \in 1 .. b |-> es[k].name]
<1>1. n \in Nat /\ b \in Nat /\ b <= n /\ HandedOf(es, c) = NamesTo(es, b)
  BY HandedIs
<1> HIDE DEF b
<1>2. \A k, l \in 1 .. b : es[k].name = es[l].name => k = l
  <2>1. \A k \in 1 .. b : k \in 1 .. n
    BY <1>1, SMT
  <2> QED BY <2>1 DEF HasVariables
<1>3. f \in Bijection(1 .. b, HandedOf(es, c))
  <2>1. f \in [1 .. b -> HandedOf(es, c)]
    BY <1>1 DEF NamesTo
  <2>2. \A k, l \in 1 .. b : f[k] = f[l] => k = l
    BY <1>2
  <2>3. \A x \in HandedOf(es, c) : \E k \in 1 .. b : f[k] = x
    BY <1>1 DEF NamesTo
  <2> QED BY <2>1, <2>2, <2>3 DEF Bijection, Injection, Surjection, IsInjective
<1>4. ExistsBijection(1 .. b, HandedOf(es, c))
  BY <1>3 DEF ExistsBijection
<1> QED BY <1>1, <1>4, FS_CountingElements DEF b

\* A name has a value if an entry has it, and the entry has the value.
LEMMA ValueIs ==
    ASSUME NEW es, NEW n, HasVariables(es, n), NEW x \in Name
    PROVE  \/ /\ getenv(es, x) = None /\ Holding(es, x) = {}
              /\ \A k \in 1 .. n : es[k].name # x
           \/ \E k \in 1 .. n :
                /\ es[k].name = x /\ getenv(es, x) = es[k].value
                /\ getenv(es, x) # None /\ Holding(es, x) # {}
<1>1. CASE \A k \in 1 .. n : es[k].name # x
  BY <1>1, NoVariable
<1>2. CASE \E k \in 1 .. n : es[k].name = x
  <2>1. PICK k \in 1 .. n : es[k].name = x
    BY <1>2
  <2>2. k \in 1 .. Len(es) /\ es \in Seq(EntryType)
    <3>1. n \in Nat /\ n <= Len(es) /\ Len(es) \in Nat /\ es \in Seq(EntryType)
      BY DEF HasVariables
    <3> QED BY <3>1, SMT
  <2>3. es[k].value \in Seq(STRING)
    <3>1. es[k] \in EntryType
      BY <2>2
    <3> QED BY <3>1 DEF EntryType
  <2>4. es[k].value # None
    BY <2>3, ExecAssumption
  <2> QED BY <2>1, <2>4, VariableIs
<1> QED BY <1>1, <1>2

\* Pages with the same names.
LEMMA HandedSame ==
    ASSUME NEW es, NEW n, HasVariables(es, n), NEW c \in Nat, NEW new, HasVariables(new, n),
           \A l \in 1 .. n : new[l].name = es[l].name
    PROVE  HandedOf(new, c) = HandedOf(es, c) /\ RoomOf(new, c) = RoomOf(es, c)
<1>1. n \in Nat /\ Least(n, c) \in Nat /\ Least(n, c) <= n
  BY HandedIs
<1>2. \A l \in 1 .. Least(n, c) : l \in 1 .. n
  BY <1>1, SMT
<1>3. NamesTo(new, Least(n, c)) = NamesTo(es, Least(n, c))
  BY <1>2 DEF NamesTo
<1>4. HandedOf(new, c) = NamesTo(new, Least(n, c)) /\ RoomOf(new, c) = RoomFor(n, c)
  BY HandedIs
<1>5. HandedOf(es, c) = NamesTo(es, Least(n, c)) /\ RoomOf(es, c) = RoomFor(n, c)
  BY HandedIs
<1>6. HandedOf(new, c) = HandedOf(es, c)
  BY <1>3, <1>4, <1>5
<1>7. PICK rn, re : rn = RoomOf(new, c) /\ re = RoomOf(es, c)
  OBVIOUS
<1>8. rn = re
  BY <1>4, <1>5, <1>7
<1> QED BY <1>6, <1>7, <1>8

\* Pages with one more name.
LEMMA HandedMore ==
    ASSUME NEW es, NEW n, HasVariables(es, n), NEW c \in Nat, NEW new, HasVariables(new, n + 1),
           \A l \in 1 .. n : new[l] = es[l], NEW x, new[n + 1].name = x
    PROVE  IF RoomOf(es, c) > 0
             THEN HandedOf(new, c) = HandedOf(es, c) \cup {x} /\ RoomOf(new, c) = RoomOf(es, c) - 1
             ELSE HandedOf(new, c) = HandedOf(es, c) /\ RoomOf(new, c) = RoomOf(es, c)
<1>1. n \in Nat
  BY HandedIs
<1>2. PICK m : m = n + 1
  OBVIOUS
<1>3. HasVariables(new, m)
  BY <1>2
<1>4. HandedOf(new, c) = NamesTo(new, Least(m, c)) /\ RoomOf(new, c) = RoomFor(m, c)
  BY <1>3, HandedIs
<1>5. HandedOf(es, c) = NamesTo(es, Least(n, c)) /\ RoomOf(es, c) = RoomFor(n, c)
  BY HandedIs
<1>6. PICK hn, he : hn = HandedOf(new, c) /\ he = HandedOf(es, c)
  OBVIOUS
<1>7. PICK rn, re : rn = RoomOf(new, c) /\ re = RoomOf(es, c)
  OBVIOUS
<1>8. CASE m <= c
  <2>1. Least(m, c) = m /\ Least(n, c) = n /\ rn = re - 1 /\ re > 0
    BY <1>1, <1>2, <1>4, <1>5, <1>7, <1>8, SMT DEF Least, RoomFor
  <2>2. \A l \in 1 .. m : l = m \/ l \in 1 .. n
    BY <1>1, <1>2, SMT
  <2>3. m \in 1 .. m /\ \A l \in 1 .. n : l \in 1 .. m
    BY <1>1, <1>2, SMT
  <2>4. NamesTo(new, m) = NamesTo(es, n) \cup {x}
    BY <1>2, <2>2, <2>3 DEF NamesTo
  <2>5. hn = he \cup {x}
    BY <1>4, <1>5, <1>6, <2>1, <2>4
  <2> QED BY <1>6, <1>7, <2>1, <2>5
<1>9. CASE ~(m <= c)
  <2>1. Least(m, c) = c /\ Least(n, c) = c /\ rn = 0 /\ re = 0 /\ ~(re > 0)
    BY <1>1, <1>2, <1>4, <1>5, <1>7, <1>9, SMT DEF Least, RoomFor
  <2>2. \A l \in 1 .. c : l \in 1 .. n
    BY <1>1, <1>2, <1>9, SMT
  <2>3. NamesTo(new, c) = NamesTo(es, c)
    BY <2>2 DEF NamesTo
  <2>4. hn = he
    BY <1>4, <1>5, <1>6, <2>1, <2>3
  <2> QED BY <1>6, <1>7, <2>1, <2>4
<1> QED BY <1>8, <1>9

\* One value changes; a new name is handed on if there is room.
LEMMA PutMeans ==
    ASSUME NEW es, NEW n, HasVariables(es, n), NEW c \in Nat, NEW x \in Name,
           NEW v \in Seq(STRING), NEW k, NEW new, PutAt(es, n, k, x, v, new)
    PROVE  /\ \A y \in Name : getenv(new, y) = IF y = x THEN v ELSE getenv(es, y)
           /\ IF getenv(es, x) = None /\ RoomOf(es, c) > 0
                THEN /\ HandedOf(new, c) = HandedOf(es, c) \cup {x}
                     /\ RoomOf(new, c) = RoomOf(es, c) - 1
                ELSE /\ HandedOf(new, c) = HandedOf(es, c)
                     /\ RoomOf(new, c) = RoomOf(es, c)
<1>1. PICK m : m = IF k = n + 1 THEN n + 1 ELSE n
  OBVIOUS
<1>2. /\ HasVariables(new, m) /\ m \in Nat /\ n \in Nat /\ n <= m /\ k \in 1 .. m
      /\ \A l \in 1 .. m : l = k \/ l \in 1 .. n
      /\ new[k].name = x /\ new[k].value = v
      /\ \A l \in 1 .. n : l # k => new[l] = es[l]
  BY <1>1, PutHas
<1>3. \A l \in 1 .. n : l \in 1 .. m
  BY <1>2, SMT
<1>4. ASSUME NEW y \in Name PROVE getenv(new, y) = IF y = x THEN v ELSE getenv(es, y)
  <2>1. CASE y = x
    <3>1. getenv(new, new[k].name) = new[k].value
      BY <1>2, VariableIs
    <3> QED BY <1>2, <2>1, <3>1
  <2>2. CASE y # x
    <3>1. CASE \A l \in 1 .. n : es[l].name # y
      <4>1. \A l \in 1 .. m : new[l].name # y
        BY <1>2, <2>2, <3>1
      <4>2. getenv(new, y) = None
        BY <1>2, <4>1, NoVariable
      <4>3. getenv(es, y) = None
        BY <3>1, NoVariable
      <4> QED BY <2>2, <4>2, <4>3
    <3>2. CASE \E l \in 1 .. n : es[l].name = y
      <4>1. PICK l \in 1 .. n : es[l].name = y
        BY <3>2
      <4>2. l # k
        <5>1. k \in 1 .. n => es[k].name = x
          <6>1. k # n + 1 \/ k \notin 1 .. n
            BY <1>2, SMT
          <6> QED BY <6>1 DEF PutAt
        <5> QED BY <2>2, <4>1, <5>1
      <4>3. new[l] = es[l]
        BY <1>2, <4>2
      <4>4. getenv(es, es[l].name) = es[l].value
        BY VariableIs
      <4>5. getenv(new, new[l].name) = new[l].value
        BY <1>2, <1>3, VariableIs
      <4> QED BY <2>2, <4>1, <4>3, <4>4, <4>5
    <3> QED BY <3>1, <3>2
  <2> QED BY <2>1, <2>2
<1>5. CASE k = n + 1
  <2>1. m = n + 1
    BY <1>1, <1>5
  <2>2. \A l \in 1 .. n : l # k /\ es[l].name # x
    <3>1. \A l \in 1 .. n : l # k
      BY <1>2, <1>5, SMT
    <3>2. k \notin 1 .. n
      BY <3>1
    <3> QED BY <3>1, <3>2 DEF PutAt
  <2>3. getenv(es, x) = None
    BY <2>2, NoVariable
  <2>4. HasVariables(new, n + 1) /\ (\A l \in 1 .. n : new[l] = es[l]) /\ new[n + 1].name = x
    BY <1>2, <1>5, <2>1, <2>2
  <2>5. IF RoomOf(es, c) > 0
          THEN HandedOf(new, c) = HandedOf(es, c) \cup {x} /\ RoomOf(new, c) = RoomOf(es, c) - 1
          ELSE HandedOf(new, c) = HandedOf(es, c) /\ RoomOf(new, c) = RoomOf(es, c)
    BY <2>4, HandedMore
  <2> QED BY <1>4, <2>3, <2>5
<1>6. CASE k # n + 1
  <2>1. m = n /\ k \in 1 .. n /\ es[k].name = x
    BY <1>1, <1>6 DEF PutAt
  <2>2. getenv(es, x) # None
    BY <2>1, ValueIs
  <2>3. \A l \in 1 .. n : new[l].name = es[l].name
    BY <1>2, <2>1
  <2>4. HandedOf(new, c) = HandedOf(es, c) /\ RoomOf(new, c) = RoomOf(es, c)
    BY <1>2, <2>1, <2>3, HandedSame
  <2> QED BY <1>4, <2>2, <2>4
<1> QED BY <1>5, <1>6

\* A value that is cut.
LEMMA CutIs ==
    ASSUME NEW v \in Seq(STRING)
    PROVE  SubSeq(v, 1, Min({ValueLimit, Len(v)})) = Dict!Cut(v)
<1>1. Len(v) \in Nat /\ ValueLimit \in Nat
  BY ExecAssumption
<1>2. PICK l : l = Len(v)
  OBVIOUS
<1>3. Min({ValueLimit, l}) = IF ValueLimit <= l THEN ValueLimit ELSE l
  BY <1>1, <1>2, TwoNumbers
<1>4. CASE l > ValueLimit
  <2>1. Min({ValueLimit, l}) = ValueLimit
    BY <1>1, <1>2, <1>3, <1>4, SMT
  <2> QED BY <1>2, <1>4, <2>1 DEF Dict!Cut
<1>5. CASE ~(l > ValueLimit)
  <2>1. Min({ValueLimit, l}) = l
    BY <1>1, <1>2, <1>3, <1>5, SMT
  <2>2. SubSeq(v, 1, l) = v
    BY <1>2
  <2> QED BY <1>2, <1>5, <2>1, <2>2 DEF Dict!Cut
<1> QED BY <1>4, <1>5

\* exec() hands on the cut values of the names that the pointers lead to, and makes a
\* place for one more name.
LEMMA StartMeans ==
    ASSUME NEW es, NEW n, HasVariables(es, n), NEW c \in Nat, 1 <= c, c <= Len(es), c < Slots,
           NEW new, new = CopiedEntries(es, c), NEW d, d = PointersTo(new)
    PROVE  /\ \E k \in Nat : HasVariables(new, k) /\ k + 1 <= Len(new)
           /\ d \in Nat /\ 1 <= d /\ d <= Len(new)
           /\ \A y \in Name : getenv(new, y) =
                IF y \in HandedOf(es, c) THEN Dict!Cut(getenv(es, y)) ELSE None
           /\ HandedOf(es, c) # {} \/ RoomOf(es, c) > 0
           /\ HandedOf(new, d) = HandedOf(es, c)
           /\ RoomOf(new, d) = RoomOf(es, c) + 1
<1>1. PICK b : b = Least(n, c)
  OBVIOUS
<1>2. Slots \in Nat
  BY ExecAssumption
<1>3. n \in Nat /\ b \in Nat /\ b <= n /\ b <= c /\ b = IF n <= c THEN n ELSE c
  BY <1>1, HandedIs DEF Least
<1>4. /\ HandedOf(es, c) = NamesTo(es, b)
      /\ RoomOf(es, c) = RoomFor(n, c)
  <2>1. /\ HandedOf(es, c) = NamesTo(es, Least(n, c))
        /\ RoomOf(es, c) = RoomFor(n, c)
    BY HandedIs
  <2> QED BY <1>1, <2>1
<1>5. HasVariables(new, b) /\ Len(new) = c + 1 /\ \A k \in 1 .. b : new[k] = CopiedEntry(es[k])
  BY <1>3, CopyHas
<1>6. d = IF c + 1 <= Slots THEN c + 1 ELSE 0
  BY <1>5 DEF PointersTo
<1>7. d = c + 1 /\ d \in Nat /\ 1 <= d /\ b + 1 <= c + 1
  BY <1>2, <1>3, <1>6, SMT
<1>8. \A k \in 1 .. b : k \in 1 .. n
  BY <1>3, SMT
<1>9. ASSUME NEW k \in 1 .. b
      PROVE  /\ es[k] \in EntryType /\ new[k].name = es[k].name /\ es[k].value \in Seq(STRING)
             /\ new[k].value = Dict!Cut(es[k].value)
  <2>1. es[k] \in EntryType
    <3>1. es \in Seq(EntryType) /\ Len(es) \in Nat /\ n <= Len(es)
      BY DEF HasVariables
    <3>2. k \in 1 .. Len(es)
      BY <1>3, <3>1, SMT
    <3> QED BY <3>1, <3>2
  <2>2. es[k].name \in Name
    BY <1>8 DEF HasVariables
  <2>3. es[k] # Ended
    BY <2>2, ExecAssumption DEF Ended, Entry
  <2>4. new[k] = CopiedEntry(es[k])
    BY <1>5
  <2>5. /\ CopiedEntry(es[k]).name = es[k].name
        /\ CopiedEntry(es[k]).value = SubSeq(es[k].value, 1, Min({ValueLimit, Len(es[k].value)}))
    BY <2>1, <2>3, CopiedIs
  <2>6. es[k].value \in Seq(STRING)
    BY <2>1 DEF EntryType
  <2> QED BY <2>1, <2>4, <2>5, <2>6, CutIs
<1>10. ASSUME NEW y \in Name
       PROVE  getenv(new, y) = IF y \in HandedOf(es, c) THEN Dict!Cut(getenv(es, y)) ELSE None
  <2>1. CASE y \in HandedOf(es, c)
    <3>1. PICK k \in 1 .. b : es[k].name = y
      BY <1>4, <2>1 DEF NamesTo
    <3>2. getenv(es, es[k].name) = es[k].value
      BY <1>8, VariableIs
    <3>3. getenv(new, new[k].name) = new[k].value
      BY <1>5, VariableIs
    <3>4. new[k].name = es[k].name /\ new[k].value = Dict!Cut(es[k].value)
      BY <1>9
    <3> QED BY <2>1, <3>1, <3>2, <3>3, <3>4
  <2>2. CASE y \notin HandedOf(es, c)
    <3>1. \A k \in 1 .. b : new[k].name # y
      BY <1>4, <1>9, <2>2 DEF NamesTo
    <3>2. getenv(new, y) = None
      BY <1>5, <3>1, NoVariable
    <3> QED BY <2>2, <3>2
  <2> QED BY <2>1, <2>2
<1>11. HandedOf(es, c) # {} \/ RoomOf(es, c) > 0
  <2>1. CASE b = 0
    <3>1. PICK r : r = RoomOf(es, c)
      OBVIOUS
    <3>2. r > 0
      BY <1>3, <1>4, <2>1, <3>1, SMT DEF RoomFor
    <3> QED BY <3>1, <3>2
  <2>2. CASE b # 0
    <3>1. 1 \in 1 .. b
      BY <1>3, <2>2, SMT
    <3>2. es[1].name \in NamesTo(es, b)
      BY <3>1 DEF NamesTo
    <3> QED BY <1>4, <3>2
  <2> QED BY <2>1, <2>2
<1>12. PICK m : m = new
  OBVIOUS
<1>13. HasVariables(m, b)
  BY <1>5, <1>12
<1>14. HandedOf(m, d) = NamesTo(m, Least(b, d)) /\ RoomOf(m, d) = RoomFor(b, d)
  <2>1. PICK a : a = d
    OBVIOUS
  <2>2. a \in Nat
    BY <1>7, <2>1
  <2>3. HandedOf(m, a) = NamesTo(m, Least(b, a)) /\ RoomOf(m, a) = RoomFor(b, a)
    BY <1>13, <2>2, HandedIs
  <2> QED BY <2>1, <2>3
<1>15. PICK r, e : r = RoomOf(m, d) /\ e = RoomOf(es, c)
  OBVIOUS
<1>16. Least(b, d) = b /\ r = e + 1
  BY <1>3, <1>4, <1>7, <1>14, <1>15, SMT DEF Least, RoomFor
<1>17. NamesTo(m, b) = NamesTo(es, b)
  BY <1>9, <1>12 DEF NamesTo
<1>18. HandedOf(m, d) = HandedOf(es, c)
  BY <1>4, <1>14, <1>16, <1>17
<1>19. HandedOf(new, d) = HandedOf(es, c) /\ RoomOf(new, d) = RoomOf(es, c) + 1
  BY <1>12, <1>15, <1>16, <1>18
<1>20. HasVariables(new, b) /\ b + 1 <= Len(new) /\ d <= Len(new)
  BY <1>5, <1>7
<1> QED BY <1>3, <1>7, <1>10, <1>11, <1>19, <1>20

\* The first pages hold the first variables.
IsBeginning(new, es, n, c, b) ==
    /\ HasVariables(new, b) /\ Len(new) = c /\ b \in Nat /\ b <= n /\ b <= c
    /\ \A k \in 1 .. c : new[k] = es[k]

LEMMA BeginningHas ==
    ASSUME NEW es, NEW n, HasVariables(es, n), NEW c \in Nat, c <= Len(es),
           NEW new, new = SubSeq(es, 1, c), NEW b, b = Least(n, c)
    PROVE  IsBeginning(new, es, n, c, b)
<1>1. PICK L : L = Len(es)
  OBVIOUS
<1>2. n \in Nat /\ L \in Nat /\ n <= L /\ es \in Seq(EntryType) /\ c <= L
  BY <1>1, ReachedAre DEF HasVariables
<1>3. c \in 0 .. L
  BY <1>2, SMT
<1>4. Begins(new, EntryType, es, c)
  BY <1>1, <1>2, <1>3, BeginningIs
<1>5. new \in Seq(EntryType) /\ Len(new) = c /\ \A k \in 1 .. c : new[k] = es[k]
  BY <1>4 DEF Begins
<1>6. b \in Nat /\ b <= n /\ b <= c /\ \A k \in 1 .. b : k \in 1 .. n /\ k \in 1 .. c
  BY <1>2, SMT DEF Least
<1>7. \A k \in b + 1 .. c : k \in 1 .. c /\ k \in n + 1 .. L
  BY <1>2, SMT DEF Least
<1>8. \A k \in b + 1 .. c : new[k] = Ended
  BY <1>1, <1>5, <1>7 DEF HasVariables
<1>9. \A k \in 1 .. b : new[k].name \in Name
  BY <1>5, <1>6 DEF HasVariables
<1>10. \A k, l \in 1 .. b : new[k].name = new[l].name => k = l
  BY <1>5, <1>6 DEF HasVariables
<1>11. HasVariables(new, b)
  BY <1>5, <1>6, <1>8, <1>9, <1>10 DEF HasVariables
<1> QED BY <1>5, <1>6, <1>11 DEF IsBeginning

\* The names that have a value.
NameSet(es) == {x \in Name : getenv(es, x) # None}

LEMMA SetIs ==
    ASSUME NEW es, NEW n, HasVariables(es, n)
    PROVE  NameSet(es) = NamesTo(es, n) /\ Cardinality(NameSet(es)) = n /\ n \in Nat
<1>1. n \in Nat
  BY ReachedAre
<1>2. NameSet(es) = NamesTo(es, n)
  <2>1. ASSUME NEW x \in NameSet(es) PROVE x \in NamesTo(es, n)
    <3>1. x \in Name /\ getenv(es, x) # None
      BY DEF NameSet
    <3>2. \E k \in 1 .. n : es[k].name = x
      BY <3>1, ValueIs
    <3> QED BY <3>2 DEF NamesTo
  <2>2. ASSUME NEW x \in NamesTo(es, n) PROVE x \in NameSet(es)
    <3>1. PICK k \in 1 .. n : x = es[k].name
      BY DEF NamesTo
    <3>2. x \in Name /\ ~(\A l \in 1 .. n : es[l].name # x)
      BY <3>1 DEF HasVariables
    <3>3. getenv(es, x) # None
      BY <3>2, ValueIs
    <3> QED BY <3>2, <3>3 DEF NameSet
  <2> QED BY <2>1, <2>2
<1>3. Least(n, n) = n
  BY <1>1, SMT DEF Least
<1>4. Cardinality(HandedOf(es, n)) = Least(n, n) /\ HandedOf(es, n) = NamesTo(es, Least(n, n))
  BY <1>1, HandedCount, HandedIs
<1> QED BY <1>1, <1>2, <1>3, <1>4

\* Of P pages at most, fork() gives the child the first variables; it can be
\* handed the same ones if the pointers lead to these pages.
IsForked(es, c, P, L, new) ==
    /\ \E k \in Nat : HasVariables(new, k)
    /\ Len(new) = L /\ L \in Nat /\ L <= P /\ L <= Len(es)
    /\ Cardinality(HandedOf(es, c)) + RoomOf(es, c) = c
    /\ NameSet(new) \subseteq NameSet(es)
    /\ Cardinality(NameSet(new)) =
         IF Cardinality(NameSet(es)) <= P THEN Cardinality(NameSet(es)) ELSE P
    /\ \A y \in Name : getenv(new, y) = IF y \in NameSet(new) THEN getenv(es, y) ELSE None
    /\ IF c <= P
         THEN /\ c <= L /\ HandedOf(es, c) \subseteq NameSet(new)
              /\ HandedOf(new, c) = HandedOf(es, c) /\ RoomOf(new, c) = RoomOf(es, c)
         ELSE c > L

LEMMA ForkMeans ==
    ASSUME NEW es, NEW n, HasVariables(es, n), NEW c \in Nat, c <= Len(es), NEW P \in Nat,
           NEW L, L = Least(Len(es), P), NEW new, new = SubSeq(es, 1, L)
    PROVE  IsForked(es, c, P, L, new)
<1>1. PICK w : w = Len(es)
  OBVIOUS
<1>2. n \in Nat /\ w \in Nat /\ n <= w /\ c <= w /\ L = Least(w, P)
  BY <1>1, ReachedAre
<1>3. L \in Nat /\ L <= P /\ L <= w
  BY <1>2, SMT DEF Least
<1>4. PICK b : b = Least(n, L)
  OBVIOUS
<1>5. /\ HasVariables(new, b) /\ Len(new) = L /\ b \in Nat /\ b <= n /\ b <= L
      /\ \A k \in 1 .. L : new[k] = es[k]
  <2>1. L <= Len(es)
    BY <1>1, <1>3
  <2>2. IsBeginning(new, es, n, L, b)
    BY <1>3, <1>4, <2>1, BeginningHas
  <2> QED BY <2>2 DEF IsBeginning
<1>6. \A k \in 1 .. b : new[k] = es[k] /\ k \in 1 .. n
  <2>1. \A k \in 1 .. b : k \in 1 .. L /\ k \in 1 .. n
    BY <1>2, <1>3, <1>5, SMT
  <2> QED BY <1>5, <2>1
<1>7. NameSet(new) = NamesTo(new, b) /\ Cardinality(NameSet(new)) = b
  BY <1>5, SetIs
<1>8. NameSet(es) = NamesTo(es, n) /\ Cardinality(NameSet(es)) = n
  BY SetIs
<1>9. NameSet(new) \subseteq NameSet(es)
  <2>1. NamesTo(new, b) \subseteq NamesTo(es, n)
    BY <1>6 DEF NamesTo
  <2> QED BY <1>7, <1>8, <2>1
<1>10. b = IF n <= P THEN n ELSE P
  BY <1>2, <1>4, SMT DEF Least
<1>11. Cardinality(NameSet(new)) = IF Cardinality(NameSet(es)) <= P THEN Cardinality(NameSet(es)) ELSE P
  BY <1>7, <1>8, <1>10
<1>12. ASSUME NEW y \in Name
       PROVE  getenv(new, y) = IF y \in NameSet(new) THEN getenv(es, y) ELSE None
  <2>1. CASE y \in NameSet(new)
    <3>1. PICK k \in 1 .. b : new[k].name = y
      BY <1>7, <2>1 DEF NamesTo
    <3>2. getenv(new, new[k].name) = new[k].value
      BY <1>5, VariableIs
    <3>3. getenv(es, es[k].name) = es[k].value
      BY <1>6, VariableIs
    <3> QED BY <1>6, <2>1, <3>1, <3>2, <3>3
  <2>2. CASE y \notin NameSet(new)
    BY <2>2 DEF NameSet
  <2> QED BY <2>1, <2>2
<1>13. HandedOf(es, c) = NamesTo(es, Least(n, c)) /\ RoomOf(es, c) = RoomFor(n, c)
  BY HandedIs
<1>14. Cardinality(HandedOf(es, c)) + RoomOf(es, c) = c
  <2>1. Cardinality(HandedOf(es, c)) = Least(n, c)
    BY HandedCount
  <2>2. Least(n, c) + RoomFor(n, c) = c
    BY <1>2, SMT DEF Least, RoomFor
  <2> QED BY <1>13, <2>1, <2>2
<1>15. CASE c <= P
  <2>1. PICK a : a = Least(n, c)
    OBVIOUS
  <2>2. c <= L /\ Least(b, c) = a /\ RoomFor(b, c) = RoomFor(n, c) /\ a <= b /\ a \in Nat
    BY <1>2, <1>4, <1>15, <2>1, SMT DEF Least, RoomFor
  <2>3. \A k \in 1 .. a : k \in 1 .. b
    BY <1>5, <2>2, SMT
  <2>4. NamesTo(es, a) = NamesTo(new, a) /\ NamesTo(es, a) \subseteq NamesTo(new, b)
    BY <1>6, <2>3 DEF NamesTo
  <2>5. HandedOf(new, c) = NamesTo(new, Least(b, c)) /\ RoomOf(new, c) = RoomFor(b, c)
    BY <1>5, HandedIs
  <2>6. HandedOf(new, c) = HandedOf(es, c) /\ HandedOf(es, c) \subseteq NameSet(new)
    BY <1>7, <1>13, <2>1, <2>2, <2>4, <2>5
  <2>7. RoomOf(new, c) = RoomOf(es, c)
    BY <1>13, <2>2, <2>5, Zenon
  <2> QED BY <1>1, <1>3, <1>5, <1>9, <1>11, <1>12, <1>14, <1>15, <2>2, <2>6, <2>7 DEF IsForked
<1>16. CASE ~(c <= P)
  <2>1. c > L
    BY <1>3, <1>16, SMT
  <2> QED BY <1>1, <1>3, <1>5, <1>9, <1>11, <1>12, <1>14, <1>16, <2>1 DEF IsForked
<1> QED BY <1>15, <1>16

-------------------------------------------------------------------------------
(* A child that has not called exec() yet, and its parent. *)

\* The first m pages of f are those of es, and nothing is on the others.
Sees(es, f, m) ==
    /\ m \in Nat /\ m <= Len(es) /\ m <= Len(f)
    /\ \A k \in 1 .. m : f[k] = es[k]
    /\ \A k \in m + 1 .. Len(f) : f[k] = Ended

\* fork() shares the pages with the variables, and the one behind them.
LEMMA SharedIsSeen ==
    ASSUME NEW es, NEW n, HasVariables(es, n), NEW c \in Nat, c <= Len(es),
           NEW new, new = SubSeq(es, 1, c), NEW m, m = Min({Len(new), n + 1})
    PROVE  Sees(es, new, m)
<1>1. PICK L : L = Len(es)
  OBVIOUS
<1>2. n \in Nat /\ L \in Nat /\ n <= L /\ c <= L
  BY <1>1, ReachedAre
<1>3. /\ HasVariables(new, Least(n, c)) /\ Len(new) = c /\ Least(n, c) \in Nat
      /\ \A k \in 1 .. c : new[k] = es[k]
  <2>1. PICK b : b = Least(n, c)
    OBVIOUS
  <2>2. IsBeginning(new, es, n, c, b)
    BY <2>1, BeginningHas
  <2> QED BY <2>1, <2>2 DEF IsBeginning
<1>4. m = IF c <= n + 1 THEN c ELSE n + 1
  BY <1>2, <1>3, TwoNumbers
<1>5. /\ m \in Nat /\ m <= L /\ m <= c /\ \A k \in 1 .. m : k \in 1 .. c
      /\ \A k \in m + 1 .. c : k \in Least(n, c) + 1 .. c
  <2>1. PICK b : b = Least(n, c)
    OBVIOUS
  <2>2. b = IF n <= c THEN n ELSE c
    BY <2>1 DEF Least
  <2>3. m \in Nat /\ m <= c /\ b \in Nat /\ (m < c => b <= m)
    BY <1>2, <1>4, <2>2, SMT
  <2>4. m <= L /\ \A k \in 1 .. m : k \in 1 .. c
    <3>1. m <= c /\ c <= L /\ m \in Nat /\ L \in Nat
      BY <1>2, <2>3
    <3>2. m <= L
      BY <3>1, SMT
    <3>3. \A k \in 1 .. m : k \in 1 .. c
      BY <3>1, SMT
    <3> QED BY <3>2, <3>3
  <2>5. \A k \in m + 1 .. c : k \in b + 1 .. c
    BY <2>3, SMT
  <2> QED BY <2>1, <2>3, <2>4, <2>5
<1>6. \A k \in m + 1 .. c : new[k] = Ended
  BY <1>3, <1>5 DEF HasVariables
<1> QED BY <1>1, <1>3, <1>5, <1>6 DEF Sees

\* What the parent sets the child sees too, on a page that is shared.
IsSeenPut(new, f, j, m, k, x, v, g) ==
    /\ Sees(new, g, m) /\ Len(g) = Len(f)
    /\ k <= m => PutAt(f, j, k, x, v, g)
    /\ ~(k <= m) => g = f

LEMMA SeenIsPut ==
    ASSUME NEW es, NEW n, HasVariables(es, n), NEW f, NEW j, HasVariables(f, j),
           NEW m, Sees(es, f, m), NEW k, NEW x \in Name, NEW v, NEW new, PutAt(es, n, k, x, v, new),
           NEW g, g = SeenByChild(f, m, new)
    PROVE  IsSeenPut(new, f, j, m, k, x, v, g)
<1>1. PICK L, N, M : L = Len(es) /\ N = Len(new) /\ M = Len(f)
  OBVIOUS
<1>2. /\ n \in Nat /\ L \in Nat /\ n <= L /\ j \in Nat /\ M \in Nat /\ j <= M
      /\ DOMAIN f = 1 .. M /\ f \in Seq(EntryType)
  BY <1>1, ReachedAre DEF HasVariables
<1>3. /\ new \in Seq(EntryType) /\ N \in Nat /\ L <= N /\ k \in 1 .. N
      /\ new[k] = Entry(x, v)
      /\ \A l \in 1 .. L : l # k => new[l] = es[l]
  BY <1>1 DEF PutAt
<1>4. /\ m \in Nat /\ m <= L /\ m <= M /\ \A l \in 1 .. m : f[l] = es[l]
      /\ \A l \in m + 1 .. M : f[l] = Ended
  BY <1>1 DEF Sees
<1>5. g = [l \in 1 .. M |-> IF l <= m THEN new[l] ELSE f[l]]
  BY <1>2 DEF SeenByChild
<1>6. \A l \in 1 .. m : l \in 1 .. M /\ l <= m /\ l \in 1 .. L /\ l \in 1 .. N
  BY <1>2, <1>3, <1>4, SMT
<1>7. ASSUME NEW l \in 1 .. M PROVE g[l] \in EntryType
  <2>1. CASE l <= m
    <3>1. l \in 1 .. N
      BY <1>2, <1>3, <1>4, <2>1, SMT
    <3> QED BY <1>1, <1>3, <1>5, <2>1, <3>1
  <2>2. CASE ~(l <= m)
    BY <1>1, <1>2, <1>5, <2>2
  <2> QED BY <2>1, <2>2
<1>8. g \in Seq(EntryType) /\ Len(g) = M
  <2>1. g \in [1 .. M -> EntryType]
    BY <1>5, <1>7
  <2> QED BY <1>2, <2>1, SMT
<1>9. \A l \in m + 1 .. M : l \in 1 .. M /\ ~(l <= m)
  BY <1>2, <1>4, SMT
<1>10. (\A l \in 1 .. m : g[l] = new[l]) /\ \A l \in m + 1 .. M : g[l] = f[l]
  BY <1>5, <1>6, <1>9
<1>11. Sees(new, g, m)
  <2>1. m <= N
    BY <1>2, <1>3, <1>4, SMT
  <2> QED BY <1>1, <1>4, <1>8, <1>10, <2>1 DEF Sees
<1>12. \A l \in 1 .. M : l \in 1 .. m \/ l \in m + 1 .. M
  BY <1>2, <1>4, SMT
<1>13. ASSUME NEW l \in 1 .. M, l # k PROVE g[l] = f[l]
  <2>1. CASE l \in 1 .. m
    <3>1. g[l] = new[l] /\ l \in 1 .. L
      BY <1>6, <1>10, <2>1
    <3>2. new[l] = es[l] /\ f[l] = es[l]
      BY <1>3, <1>4, <1>13, <2>1, <3>1
    <3> QED BY <3>1, <3>2
  <2>2. CASE l \in m + 1 .. M
    BY <1>10, <2>2
  <2> QED BY <1>12, <2>1, <2>2
<1>14. ASSUME ~(k <= m) PROVE g = f
  <2>1. \A l \in 1 .. M : l = k => l \in m + 1 .. M
    BY <1>2, <1>4, <1>14, SMT
  <2>2. \A l \in 1 .. M : g[l] = f[l]
    BY <1>10, <1>13, <2>1
  <2>3. f = [l \in 1 .. M |-> f[l]] /\ g = [l \in 1 .. M |-> g[l]]
    BY <1>2, <1>5
  <2> QED BY <2>2, <2>3
<1>15. ASSUME k <= m PROVE PutAt(f, j, k, x, v, g)
  <2>1. k \in 1 .. m /\ k \in 1 .. M
    BY <1>2, <1>3, <1>4, <1>15, SMT
  <2>2. g[k] = Entry(x, v) /\ f[k] = es[k]
    BY <1>3, <1>4, <1>10, <2>1
  <2>3. \A l \in M + 1 .. M : FALSE
    BY <1>2, SMT
  <2>4. (k \in 1 .. n /\ es[k].name = x) \/ (k = n + 1 /\ \A l \in 1 .. n : es[l].name # x)
    BY DEF PutAt
  <2>5. CASE k \in 1 .. n /\ es[k].name = x
    <3>1. f[k].name \in Name
      BY <2>2, <2>5
    <3>2. k \in 1 .. j
      BY <1>2, <2>1, <3>1, ReachedAre
    <3> QED BY <1>1, <1>2, <1>8, <1>13, <2>1, <2>2, <2>3, <2>5, <3>2 DEF PutAt
  <2>6. CASE k = n + 1 /\ \A l \in 1 .. n : es[l].name # x
    <3>1. \A l \in 1 .. n : l \in 1 .. m /\ l \in 1 .. M
      BY <1>2, <1>4, <2>1, <2>6, SMT
    <3>2. \A l \in 1 .. n : f[l] = es[l] /\ f[l].name \in Name
      BY <1>4, <3>1 DEF HasVariables
    <3>3. \A l \in 1 .. n : l \in 1 .. j
      BY <1>2, <3>1, <3>2, ReachedAre
    <3>4. k \in n + 1 .. L
      BY <1>2, <1>4, <2>1, <2>6, SMT
    <3>5. f[k] = Ended
      BY <1>1, <2>2, <3>4 DEF HasVariables
    <3>6. k \notin 1 .. j
      BY <3>5, ReachedAre
    <3>7. j = n
      <4>1. ~(j < n)
        <5>1. ASSUME j < n PROVE FALSE
          <6>1. n \in 1 .. n /\ n \notin 1 .. j
            BY <1>2, <5>1, SMT
          <6> QED BY <3>3, <6>1
        <5> QED BY <5>1
      <4>2. ~(j > n)
        <5>1. ASSUME j > n PROVE FALSE
          <6>1. k \in 1 .. j
            BY <1>2, <2>6, <5>1, SMT
          <6> QED BY <3>6, <6>1
        <5> QED BY <5>1
      <4> QED BY <1>2, <4>1, <4>2, SMT
    <3>8. k = j + 1 /\ \A l \in 1 .. j : f[l].name # x
      BY <2>6, <3>2, <3>7
    <3> QED BY <1>1, <1>2, <1>8, <1>13, <2>1, <2>2, <2>3, <3>8 DEF PutAt
  <2> QED BY <2>4, <2>5, <2>6
<1> QED BY <1>1, <1>8, <1>11, <1>14, <1>15 DEF IsSeenPut

-------------------------------------------------------------------------------
(* The beginning and the end. *)

\* Where no variable is, nothing is handed on.
LEMMA EmptyMeans ==
    ASSUME NEW es, es = <<Ended>>
    PROVE  /\ HasVariables(es, 0) /\ Len(es) = 1 /\ es \in Seq(EntryType)
           /\ \A x \in Name : getenv(es, x) = None
           /\ HandedOf(es, 0) = {} /\ RoomOf(es, 0) = 0
<1>1. Ended \in EntryType
  <2>1. None \in Name \cup {None} /\ <<>> \in Seq(STRING)
    OBVIOUS
  <2> QED BY <2>1, EntryIs DEF Ended
<1>2. es \in Seq(EntryType) /\ Len(es) = 1 /\ es[1] = Ended
  BY <1>1
<1>3. 0 \in Nat /\ 0 <= 1 /\ 1 .. 0 = {} /\ \A k \in 0 + 1 .. 1 : k = 1
  BY SMT
<1>4. HasVariables(es, 0)
  BY <1>2, <1>3 DEF HasVariables
<1>5. PICK c : c = 0
  OBVIOUS
<1>6. c \in Nat /\ HasVariables(es, c)
  BY <1>4, <1>5
<1>7. HandedOf(es, c) = NamesTo(es, Least(c, c)) /\ RoomOf(es, c) = RoomFor(c, c)
  BY <1>6, HandedIs
<1>8. Least(c, c) = 0 /\ RoomFor(c, c) = 0
  BY <1>5, SMT DEF Least, RoomFor
<1>9. NamesTo(es, 0) = {}
  BY <1>3 DEF NamesTo
<1>10. \A x \in Name : getenv(es, x) = None
  BY <1>3, <1>4, NoVariable
<1> QED BY <1>2, <1>4, <1>5, <1>7, <1>8, <1>9, <1>10

\* The variables that the shell starts with.
LEMMA InitialMeans ==
    ASSUME NEW es, es = Initial \o <<Ended>>
    PROVE  /\ HasVariables(es, Len(Initial)) /\ Len(es) = Len(Initial) + 1 /\ es \in Seq(EntryType)
           /\ Len(Initial) + 1 \in Nat /\ 1 <= Len(Initial) + 1
           /\ HandedOf(es, Len(Initial) + 1) = {x \in Name : getenv(es, x) # None}
           /\ RoomOf(es, Len(Initial) + 1) = 1
<1>1. PICK w : w = Initial
  OBVIOUS
<1>2. /\ w \in Seq([name : Name, value : Seq(STRING)])
      /\ \A k, l \in DOMAIN w : w[k].name = w[l].name => k = l
      /\ Len(w) < Slots /\ Slots \in Nat
  BY <1>1, ExecAssumption
<1>3. w \in Seq(EntryType) /\ \A k \in 1 .. Len(w) : w[k].name \in Name
  <2>1. PICK T : T = [name : Name, value : Seq(STRING)]
    OBVIOUS
  <2>2. w \in Seq(T)
    BY <1>2, <2>1
  <2>3. \A k \in 1 .. Len(w) : w[k] \in T
    BY <2>2
  <2>4. \A t \in T : t \in EntryType /\ t.name \in Name
    BY <2>1 DEF EntryType
  <2>5. \A k \in 1 .. Len(w) : w[k] \in EntryType
    BY <2>3, <2>4
  <2>6. w \in Seq(EntryType)
    BY <2>2, <2>5
  <2> QED BY <2>3, <2>4, <2>6
<1>4. PICK n : n = Len(w)
  OBVIOUS
<1>5. n \in Nat /\ n < Slots /\ DOMAIN w = 1 .. n
  BY <1>2, <1>4
<1>6. Ended \in EntryType
  <2>1. None \in Name \cup {None} /\ <<>> \in Seq(STRING)
    OBVIOUS
  <2> QED BY <2>1, EntryIs DEF Ended
<1>7. es = w \o <<Ended>>
  BY <1>1
<1>8. es \in Seq(EntryType) /\ Len(es) = n + 1 /\ es[n + 1] = Ended
        /\ \A k \in 1 .. n : es[k] = w[k]
  <2>1. w \in Seq(EntryType) /\ Len(w) = n
    BY <1>3, <1>4
  <2>2. PICK b : b = <<Ended>>
    OBVIOUS
  <2>3. b \in Seq(EntryType) /\ Len(b) = 1 /\ b[1] = Ended
    BY <1>6, <2>2
  <2>6. /\ w \o b \in Seq(EntryType) /\ Len(w \o b) = Len(w) + Len(b)
        /\ \A k \in 1 .. Len(w) + Len(b) : (w \o b)[k] = IF k <= Len(w) THEN w[k] ELSE b[k - Len(w)]
    BY <2>1, <2>3, ConcatProperties
  <2>7. es = w \o b
    BY <1>7, <2>2
  <2>4. n + 1 \in 1 .. n + 1 /\ ~(n + 1 <= n) /\ n + 1 - n = 1
          /\ \A k \in 1 .. n : k \in 1 .. n + 1 /\ k <= n
    BY <1>5, SMT
  <2>8. PICK c : c = w \o b
    OBVIOUS
  <2>9. c \in Seq(EntryType) /\ Len(c) = n + 1 /\ \A k \in 1 .. n + 1 : c[k] = IF k <= n THEN w[k]
          ELSE b[k - n]
    BY <2>1, <2>3, <2>6, <2>8
  <2>10. c[n + 1] = Ended /\ \A k \in 1 .. n : c[k] = w[k]
    <3>1. \A k \in 1 .. n + 1 : (k <= n => c[k] = w[k]) /\ (~(k <= n) => c[k] = b[k - n])
      BY <2>9, Zenon
    <3>2. PICK o : o = n + 1
      OBVIOUS
    <3>3. o \in 1 .. n + 1 /\ ~(o <= n) /\ o - n = 1
      BY <1>5, <3>2, SMT
    <3>4. c[o] = b[o - n]
      BY <3>1, <3>3, Zenon
    <3>5. \A k \in 1 .. n : c[k] = w[k]
      BY <2>4, <3>1, Zenon
    <3> QED BY <2>3, <3>2, <3>3, <3>4, <3>5
  <2> QED BY <2>7, <2>8, <2>9, <2>10
<1>9. \A k \in 1 .. n : w[k].name \in Name
  <2>1. 1 .. n = 1 .. Len(w)
    BY <1>4
  <2> QED BY <1>3, <2>1
<1>10. n <= n + 1 /\ n + 1 \in Nat /\ 1 <= n + 1 /\ \A k \in n + 1 .. n + 1 : k = n + 1
  BY <1>5, SMT
<1>11. HasVariables(es, n)
  <2>1. n <= Len(es) /\ \A k \in n + 1 .. Len(es) : es[k] = Ended
    BY <1>8, <1>10
  <2>2. \A k \in 1 .. n : es[k].name \in Name
    BY <1>8, <1>9
  <2>3. \A k, l \in 1 .. n : es[k].name = es[l].name => k = l
    BY <1>2, <1>5, <1>8
  <2> QED BY <1>5, <1>8, <2>1, <2>2, <2>3 DEF HasVariables
<1>12. PICK m, d : m = es /\ d = n + 1
  OBVIOUS
<1>13. d \in Nat /\ HasVariables(m, n)
  BY <1>10, <1>11, <1>12
<1>14. HandedOf(m, d) = NamesTo(m, Least(n, d)) /\ RoomOf(m, d) = RoomFor(n, d)
  BY <1>13, HandedIs
<1>15. Least(n, d) = n /\ RoomFor(n, d) = 1
  BY <1>5, <1>12, SMT DEF Least, RoomFor
<1>16. NamesTo(m, n) = {x \in Name : getenv(m, x) # None}
  <2>1. ASSUME NEW k \in 1 .. n PROVE m[k].name \in Name /\ getenv(m, m[k].name) # None
    <3>1. m[k].name \in Name
      BY <1>8, <1>9, <1>12
    <3>2. PICK y : y = m[k].name
      OBVIOUS
    <3>3. y \in Name /\ ~(\A l \in 1 .. n : m[l].name # y)
      BY <3>1, <3>2
    <3>4. getenv(m, y) # None
      BY <1>13, <3>3, ValueIs
    <3> QED BY <3>1, <3>2, <3>4
  <2>2. ASSUME NEW x \in Name, getenv(m, x) # None PROVE \E k \in 1 .. n : m[k].name = x
    BY <1>13, <2>2, ValueIs
  <2> QED BY <2>1, <2>2 DEF NamesTo
<1> QED BY <1>1, <1>4, <1>8, <1>10, <1>11, <1>12, <1>14, <1>15, <1>16

-------------------------------------------------------------------------------
(* The environments of the processes implement dictionaries. *)

\* Nothing is handed on by pointers to pages that are not there.
HandedBy(es, c) == IF c > Len(es) THEN {} ELSE HandedOf(es, c)
RoomBy(es, c) == IF c > Len(es) THEN 0 ELSE RoomOf(es, c)

\* An empty entry is behind the variables, and the pointers lead to pages.
Settled(es, c) == Entries(es) + 1 <= Len(es) /\ c <= Len(es)

\* Every process has variables on its pages; one that runs its own program has
\* all that its pointers lead to, and a child sees pages of its parent.
EnvironmentInv ==
    /\ ChildrenInv
    /\ entry \in [Proc -> Seq(EntryType)] /\ pointers \in [Proc -> Nat] /\ shared \in [Proc -> Nat]
    /\ \A p \in Proc : HasVariables(entry[p], Entries(entry[p]))
    /\ \A p \in live : 1 <= pointers[p]
    /\ \A p \in live : parent[p] = None => Settled(entry[p], pointers[p])
    /\ \A q \in Proc : parent[q] # None =>
            Sees(entry[parent[q]], entry[q], shared[q]) /\ Len(entry[q]) < Slots

\* The variables of the dictionaries.
Dicts(e) == [p \in Proc |-> [n \in Name |-> getenv(e[p], n)]]
Handeds(e, c) == [p \in Proc |-> HandedBy(e[p], c[p])]
Rooms(e, c) == [p \in Proc |-> RoomBy(e[p], c[p])]

\* Another meaning of one process's pages and pointers.
Means(V, H, R, q, es, d) ==
    /\ V[2] = [V[1] EXCEPT ![q] = [n \in Name |-> getenv(es, n)]]
    /\ H[2] = [H[1] EXCEPT ![q] = HandedBy(es, d)]
    /\ R[2] = [R[1] EXCEPT ![q] = RoomBy(es, d)]

\* One process has other pages and pointers, with this meaning.
LEMMA OneChanges ==
    ASSUME NEW e, NEW c, NEW f, NEW g, NEW q, NEW es, NEW d,
           e \in [Proc -> Seq(EntryType)], c \in [Proc -> Nat], q \in Proc,
           f = [e EXCEPT ![q] = es], g = [c EXCEPT ![q] = d]
    PROVE  Means(<<Dicts(e), Dicts(f)>>, <<Handeds(e, c), Handeds(f, g)>>,
                 <<Rooms(e, c), Rooms(f, g)>>, q, es, d)
<1>1. \A p \in Proc : f[p] = (IF p = q THEN es ELSE e[p]) /\ g[p] = IF p = q THEN d ELSE c[p]
  OBVIOUS
<1>2. Dicts(f) = [Dicts(e) EXCEPT ![q] = [n \in Name |-> getenv(es, n)]]
  BY <1>1 DEF Dicts
<1>3. Handeds(f, g) = [Handeds(e, c) EXCEPT ![q] = HandedBy(es, d)]
  BY <1>1 DEF Handeds
<1>4. Rooms(f, g) = [Rooms(e, c) EXCEPT ![q] = RoomBy(es, d)]
  BY <1>1 DEF Rooms
<1> QED BY <1>2, <1>3, <1>4 DEF Means

\* These are the variables that the refinement mapping gives to Dictionary.
LEMMA DictionaryIs ==
    /\ Variables = Dicts(entry)
    /\ HandedOn = Handeds(entry, pointers)
    /\ Room = Rooms(entry, pointers)
  BY DEF Variables, HandedOn, Room, Dicts, Handeds, Rooms, HandedBy, RoomBy, HandedOf, RoomOf

\* ... and after a step.
LEMMA DictionaryIsNext ==
    /\ Variables' = Dicts(entry')
    /\ HandedOn' = Handeds(entry', pointers')
    /\ Room' = Rooms(entry', pointers')
  BY DEF Variables, HandedOn, Room, Dicts, Handeds, Rooms, HandedBy, RoomBy, HandedOf, RoomOf

\* The shell starts with its variables and room for one more.
LEMMA EnvironmentInit == ExecInit => EnvironmentInv /\ Dict!Init
<1> SUFFICES ASSUME ExecInit PROVE EnvironmentInv /\ Dict!Init
  OBVIOUS
<1> DEFINE first == Initial \o <<Ended>>
<1>1. /\ HasVariables(first, Len(Initial)) /\ Len(first) = Len(Initial) + 1
        /\ first \in Seq(EntryType)
      /\ Len(Initial) + 1 \in Nat /\ 1 <= Len(Initial) + 1
      /\ HandedOf(first, Len(Initial) + 1) = {x \in Name : getenv(first, x) # None}
      /\ RoomOf(first, Len(Initial) + 1) = 1
  BY InitialMeans
<1>2. /\ HasVariables(<<Ended>>, 0) /\ Len(<<Ended>>) = 1 /\ <<Ended>> \in Seq(EntryType)
      /\ \A x \in Name : getenv(<<Ended>>, x) = None
      /\ HandedOf(<<Ended>>, 0) = {} /\ RoomOf(<<Ended>>, 0) = 0
  BY EmptyMeans
<1> HIDE DEF first
<1>3. PICK a, b, m : a = first /\ b = <<Ended>> /\ m = Len(Initial) + 1
  OBVIOUS
<1>4. /\ live = {Shell} /\ Shell \in Proc /\ parent = [p \in Proc |-> None]
      /\ entry = [p \in Proc |-> IF p = Shell THEN a ELSE b]
      /\ pointers = [p \in Proc |-> IF p = Shell THEN m ELSE 0]
      /\ shared = [p \in Proc |-> 0]
  BY <1>3, ExecAssumption DEF ExecInit, first
<1>5. /\ HasVariables(a, Len(Initial)) /\ Len(a) = m /\ a \in Seq(EntryType) /\ m \in Nat /\ 1 <= m
      /\ HandedOf(a, m) = {x \in Name : getenv(a, x) # None} /\ RoomOf(a, m) = 1
      /\ HasVariables(b, 0) /\ Len(b) = 1 /\ b \in Seq(EntryType)
      /\ \A x \in Name : getenv(b, x) = None
      /\ HandedOf(b, 0) = {} /\ RoomOf(b, 0) = 0
  BY <1>1, <1>2, <1>3
<1>6. Entries(a) = Len(Initial) /\ Entries(b) = 0
  BY <1>5, CountIs
<1>7. ~(m > m) /\ ~(0 > 1) /\ m <= m
  BY <1>5, SMT
<1>8. /\ HandedBy(a, m) = {x \in Name : getenv(a, x) # None} /\ RoomBy(a, m) = 1
      /\ HandedBy(b, 0) = {} /\ RoomBy(b, 0) = 0
  BY <1>5, <1>7 DEF HandedBy, RoomBy
<1>9. EnvironmentInv
  <2>1. /\ entry \in [Proc -> Seq(EntryType)] /\ pointers \in [Proc -> Nat]
        /\ shared \in [Proc -> Nat]
    BY <1>4, <1>5
  <2>2. \A p \in Proc : HasVariables(entry[p], Entries(entry[p]))
    BY <1>4, <1>5, <1>6
  <2>3. \A p \in live : 1 <= pointers[p]
    BY <1>4, <1>5
  <2>4. \A p \in live : Settled(entry[p], pointers[p])
    <3>1. Settled(a, m)
      BY <1>3, <1>5, <1>6, <1>7 DEF Settled
    <3> QED BY <1>4, <3>1
  <2>5. \A q \in Proc : parent[q] = None
    BY <1>4
  <2> QED BY <2>1, <2>2, <2>3, <2>4, <2>5, ChildrenInit DEF EnvironmentInv
<1>10. PICK d, h, r : d = Dicts(entry) /\ h = Handeds(entry, pointers) /\ r = Rooms(entry, pointers)
  OBVIOUS
<1>11. DOMAIN d = Proc /\ DOMAIN d[Shell] = Name
  BY <1>4, <1>10 DEF Dicts
<1>12. \A p \in Proc \ {Shell}, n \in Name : d[p][n] = None
  BY <1>4, <1>5, <1>10 DEF Dicts
<1>13. h = [p \in Proc |-> {n \in Name : d[p][n] # None}]
  <2>1. \A p \in Proc : HandedBy(entry[p], pointers[p]) = {n \in Name : getenv(entry[p], n) # None}
    BY <1>4, <1>5, <1>8
  <2>2. \A p \in Proc : {n \in Name : d[p][n] # None} = {n \in Name : getenv(entry[p], n) # None}
    BY <1>10 DEF Dicts
  <2> QED BY <1>10, <2>1, <2>2 DEF Handeds
<1>14. r = [p \in Proc |-> IF p = Shell THEN 1 ELSE 0]
  <2>1. \A p \in Proc : RoomBy(entry[p], pointers[p]) = IF p = Shell THEN 1 ELSE 0
    BY <1>4, <1>8
  <2> QED BY <1>10, <2>1 DEF Rooms
<1>15. Dict!Init
  BY <1>4, <1>10, <1>11, <1>12, <1>13, <1>14, DictionaryIs DEF Dict!Init
<1> QED BY <1>9, <1>15

\* The invariant when one process, which has no children, has other pages.
LEMMA PagesChange ==
    ASSUME EnvironmentInv, ChildrenInv', NEW q \in Proc, NEW es, NEW d \in Nat, NEW m \in Nat,
           \E k \in Nat : HasVariables(es, k),
           entry' = [entry EXCEPT ![q] = es], pointers' = [pointers EXCEPT ![q] = d],
           shared' = [shared EXCEPT ![q] = m], live' \subseteq live \cup {q},
           \A r \in Proc : parent[r] # q /\ (r # q => parent'[r] = parent[r]),
           q \in live' => 1 <= d,
           q \in live' /\ parent'[q] = None => Settled(es, d),
           parent'[q] # None =>
                /\ parent'[q] \in Proc /\ parent'[q] # q /\ Len(es) < Slots
                /\ Sees(entry[parent'[q]], es, m)
    PROVE  EnvironmentInv'
<1>1. PICK k \in Nat : HasVariables(es, k)
  OBVIOUS
<1>2. es \in Seq(EntryType) /\ Entries(es) = k
  BY <1>1, CountIs DEF HasVariables
<1>3. /\ entry' \in [Proc -> Seq(EntryType)] /\ pointers' \in [Proc -> Nat]
      /\ shared' \in [Proc -> Nat]
  BY <1>2 DEF EnvironmentInv
<1>4. /\ entry'[q] = es /\ pointers'[q] = d /\ shared'[q] = m
      /\ \A p \in Proc : p # q =>
            entry'[p] = entry[p] /\ pointers'[p] = pointers[p] /\ shared'[p] = shared[p]
  BY DEF EnvironmentInv
<1>5. \A p \in Proc : HasVariables(entry'[p], Entries(entry'[p]))
  BY <1>1, <1>2, <1>4 DEF EnvironmentInv
<1>6. live' \subseteq Proc /\ \A p \in live' : p # q => p \in live
  BY DEF ChildrenInv
<1>7. \A p \in live' : 1 <= pointers'[p]
  BY <1>4, <1>6 DEF EnvironmentInv
<1>8. \A p \in live' : parent'[p] = None => Settled(entry'[p], pointers'[p])
  BY <1>4, <1>6 DEF EnvironmentInv
<1>9. ASSUME NEW r \in Proc, parent'[r] # None
      PROVE  Sees(entry'[parent'[r]], entry'[r], shared'[r]) /\ Len(entry'[r]) < Slots
  <2>1. CASE r = q
    BY <1>4, <1>9, <2>1
  <2>2. CASE r # q
    <3>1. parent'[r] = parent[r] /\ parent[r] # None /\ parent[r] # q
      BY <1>9, <2>2
    <3>2. parent[r] \in Proc
      BY <3>1 DEF EnvironmentInv, ChildrenInv
    <3>3. Sees(entry[parent[r]], entry[r], shared[r]) /\ Len(entry[r]) < Slots
      BY <3>1 DEF EnvironmentInv
    <3> QED BY <1>4, <2>2, <3>1, <3>2, <3>3
  <2> QED BY <2>1, <2>2
<1>10. \A r \in Proc : parent'[r] # None =>
            Sees(entry'[parent'[r]], entry'[r], shared'[r]) /\ Len(entry'[r]) < Slots
  BY <1>9
<1> QED BY <1>3, <1>5, <1>7, <1>8, <1>10 DEF EnvironmentInv

\* What they mean to the dictionaries.
LEMMA MeaningChanges ==
    ASSUME EnvironmentInv, NEW q, NEW es, NEW d, q \in Proc,
           entry' = [entry EXCEPT ![q] = es], pointers' = [pointers EXCEPT ![q] = d]
    PROVE  Means(<<Variables, Variables'>>, <<HandedOn, HandedOn'>>, <<Room, Room'>>, q, es, d)
<1>1. entry \in [Proc -> Seq(EntryType)] /\ pointers \in [Proc -> Nat]
  BY DEF EnvironmentInv
<1>2. PICK e, c, f, g : e = entry /\ c = pointers /\ f = entry' /\ g = pointers'
  OBVIOUS
<1>3. /\ e \in [Proc -> Seq(EntryType)] /\ c \in [Proc -> Nat]
      /\ f = [e EXCEPT ![q] = es] /\ g = [c EXCEPT ![q] = d]
  BY <1>1, <1>2
<1>4. Means(<<Dicts(e), Dicts(f)>>, <<Handeds(e, c), Handeds(f, g)>>,
            <<Rooms(e, c), Rooms(f, g)>>, q, es, d)
  BY <1>3, OneChanges
<1>5. /\ Dicts(e) = Variables /\ Dicts(f) = Variables'
      /\ Handeds(e, c) = HandedOn /\ Handeds(f, g) = HandedOn'
      /\ Rooms(e, c) = Room /\ Rooms(f, g) = Room'
  BY <1>2, DictionaryIs, DictionaryIsNext
<1> QED BY <1>4, <1>5

\* What a process's pages mean.
LEMMA MeaningIs ==
    ASSUME NEW p \in Proc
    PROVE  /\ \A n \in Name : Variables[p][n] = getenv(entry[p], n)
           /\ Variables[p] = [n \in Name |-> getenv(entry[p], n)]
           /\ HandedOn[p] = HandedBy(entry[p], pointers[p])
           /\ Room[p] = RoomBy(entry[p], pointers[p])
  BY DictionaryIs DEF Dicts, Handeds, Rooms

\* ... and after a step.
LEMMA MeaningIsNext ==
    ASSUME NEW p \in Proc
    PROVE  /\ Variables'[p] = [n \in Name |-> getenv(entry'[p], n)]
           /\ HandedOn'[p] = HandedBy(entry'[p], pointers'[p])
           /\ Room'[p] = RoomBy(entry'[p], pointers'[p])
  BY DictionaryIsNext DEF Dicts, Handeds, Rooms

\* One value more, or another one.
IsSet(d, h, r, x, v) ==
    /\ d[2] = [d[1] EXCEPT ![x] = v]
    /\ IF d[1][x] = None /\ r[1] > 0
         THEN h[2] = h[1] \cup {x} /\ r[2] = r[1] - 1
         ELSE h[2] = h[1] /\ r[2] = r[1]

\* That is what setenv() does to pages that it sees.
LEMMA PutIsSet ==
    ASSUME NEW es, NEW n, HasVariables(es, n), NEW c \in Nat, NEW x \in Name,
           NEW v \in Seq(STRING), NEW k, NEW new, PutAt(es, n, k, x, v, new),
           c > Len(new) <=> c > Len(es)
    PROVE  IsSet(<<[y \in Name |-> getenv(es, y)], [y \in Name |-> getenv(new, y)]>>,
                 <<HandedBy(es, c), HandedBy(new, c)>>, <<RoomBy(es, c), RoomBy(new, c)>>, x, v)
<1>1. /\ \A y \in Name : getenv(new, y) = IF y = x THEN v ELSE getenv(es, y)
      /\ IF getenv(es, x) = None /\ RoomOf(es, c) > 0
           THEN HandedOf(new, c) = HandedOf(es, c) \cup {x} /\ RoomOf(new, c) = RoomOf(es, c) - 1
           ELSE HandedOf(new, c) = HandedOf(es, c) /\ RoomOf(new, c) = RoomOf(es, c)
  BY PutMeans
<1>2. [y \in Name |-> getenv(new, y)] = [[y \in Name |-> getenv(es, y)] EXCEPT ![x] = v]
  BY <1>1
<1>3. [y \in Name |-> getenv(es, y)][x] = getenv(es, x)
  OBVIOUS
<1>4. CASE c > Len(es)
  <2>1. /\ HandedBy(es, c) = {} /\ HandedBy(new, c) = {}
        /\ RoomBy(es, c) = 0 /\ RoomBy(new, c) = 0 /\ ~(0 > 0)
    BY <1>4 DEF HandedBy, RoomBy
  <2> QED BY <1>2, <2>1 DEF IsSet
<1>5. CASE ~(c > Len(es))
  <2>1. /\ HandedBy(es, c) = HandedOf(es, c) /\ HandedBy(new, c) = HandedOf(new, c)
        /\ RoomBy(es, c) = RoomOf(es, c) /\ RoomBy(new, c) = RoomOf(new, c)
    BY <1>5 DEF HandedBy, RoomBy
  <2> QED BY <1>1, <1>2, <1>3, <2>1 DEF IsSet
<1> QED BY <1>4, <1>5

\* setenv(), in the program itself and in the children that share the page, ...
LEMMA SetIsSet ==
    ASSUME EnvironmentInv, NEW p \in Proc, NEW n \in Name, NEW v \in Value, setenv(p, n, v)
    PROVE  EnvironmentInv' /\ Dict!Set(p, n, v)
<1>1. PICK es, c, j : es = entry[p] /\ c = pointers[p] /\ j = Entries(es)
  OBVIOUS
<1>2. /\ p \in live /\ parent[p] = None
      /\ live' = live /\ parent' = parent /\ pointers' = pointers /\ shared' = shared
  BY DEF setenv, forked
<1>3. HasVariables(es, j) /\ c \in Nat /\ j + 1 <= Len(es) /\ c <= Len(es)
  BY <1>1, <1>2 DEF EnvironmentInv, Settled
<1>4. PICK new : new = WithVariable(es, n, v)
  OBVIOUS
<1>5. v \in Seq(STRING)
  BY ExecAssumption
<1>6. PICK k \in 1 .. Len(es) : PutAt(es, j, k, n, v, new) /\ (k = j + 1 => j + 2 <= Len(new))
  BY <1>3, <1>4, <1>5, SetIsPut
<1>7. entry' = [r \in Proc |->
                    IF r = p THEN new
                    ELSE IF parent[r] = p THEN SeenByChild(entry[r], shared[r], new)
                    ELSE entry[r]]
  BY <1>1, <1>4 DEF setenv
<1>8. PICK m : m = IF k = j + 1 THEN j + 1 ELSE j
  OBVIOUS
<1>9. HasVariables(new, m) /\ m \in Nat /\ j \in Nat
  BY <1>3, <1>5, <1>6, <1>8, PutHas
<1>10. Len(new) \in Nat /\ Len(es) \in Nat /\ Len(es) <= Len(new) /\ new \in Seq(EntryType)
  BY <1>3, <1>6, ReachedAre DEF PutAt
<1>11. m + 1 <= Len(new) /\ c <= Len(new) /\ ~(c > Len(new)) /\ ~(c > Len(es))
  <2>1. PICK a, b : a = Len(es) /\ b = Len(new)
    OBVIOUS
  <2>2. /\ a \in Nat /\ b \in Nat /\ a <= b /\ j + 1 <= a /\ c <= a
        /\ (k = j + 1 => j + 2 <= b)
    BY <1>3, <1>6, <1>10, <2>1
  <2>3. m + 1 <= b /\ c <= b /\ ~(c > b) /\ ~(c > a)
    BY <1>3, <1>8, <1>9, <2>2, SMT
  <2> QED BY <2>1, <2>3
<1>12. Entries(new) = m
  BY <1>9, CountIs
<1> DEFINE children == {r \in Proc : parent[r] = p}
           seen == {r \in children : k <= shared[r]}
<1>13. p \notin children
  <2>1. p # None
    BY ExecAssumption
  <2> QED BY <1>2, <2>1
<1>14. ASSUME NEW r \in children
       PROVE  /\ HasVariables(entry'[r], Entries(entry'[r])) /\ Len(entry'[r]) = Len(entry[r])
              /\ Sees(new, entry'[r], shared[r]) /\ Len(entry'[r]) < Slots
              /\ r \in seen => PutAt(entry[r], Entries(entry[r]), k, n, v, entry'[r])
              /\ r \notin seen => entry'[r] = entry[r]
  <2>1. PICK f, i, a, g : /\ f = entry[r] /\ i = Entries(f) /\ a = shared[r]
                          /\ g = SeenByChild(f, a, new)
    OBVIOUS
  <2>2. r # p /\ parent[r] = p /\ p # None
    BY <1>13, ExecAssumption
  <2>3. HasVariables(f, i) /\ Sees(es, f, a) /\ Len(f) < Slots
    BY <1>1, <2>1, <2>2 DEF EnvironmentInv
  <2>4. g = entry'[r]
    BY <1>7, <2>1, <2>2
  <2>5. /\ Sees(new, g, a) /\ Len(g) = Len(f)
        /\ k <= a => PutAt(f, i, k, n, v, g)
        /\ ~(k <= a) => g = f
    <3>1. HasVariables(es, j) /\ PutAt(es, j, k, n, v, new)
      BY <1>3, <1>6
    <3>2. IsSeenPut(new, f, i, a, k, n, v, g)
      BY <2>1, <2>3, <3>1, SeenIsPut
    <3> QED BY <3>2 DEF IsSeenPut
  <2>6. HasVariables(g, Entries(g))
    <3>1. CASE k <= a
      <4>1. PICK b : b = IF k = i + 1 THEN i + 1 ELSE i
        OBVIOUS
      <4>2. HasVariables(g, b)
        BY <1>5, <2>3, <2>5, <3>1, <4>1, PutHas
      <4> QED BY <4>2, CountIs
    <3>2. CASE ~(k <= a)
      BY <2>1, <2>3, <2>5, <3>2
    <3> QED BY <3>1, <3>2
  <2> QED BY <2>1, <2>3, <2>4, <2>5, <2>6
<1>15. entry'[p] = new /\ \A r \in Proc : r # p /\ r \notin children => entry'[r] = entry[r]
  BY <1>7
<1>16. EnvironmentInv'
  <2>1. ChildrenInv'
    BY <1>2, ChildrenSame DEF EnvironmentInv
  <2>2. \A r \in Proc : HasVariables(entry'[r], Entries(entry'[r]))
    BY <1>9, <1>12, <1>14, <1>15 DEF EnvironmentInv
  <2>3. entry' \in [Proc -> Seq(EntryType)] /\ pointers' \in [Proc -> Nat] /\ shared' \in [Proc -> Nat]
    <3>1. \A r \in Proc : entry'[r] \in Seq(EntryType)
      BY <2>2 DEF HasVariables
    <3>2. entry' = [r \in Proc |-> entry'[r]]
      BY <1>7
    <3> QED BY <1>2, <3>1, <3>2 DEF EnvironmentInv
  <2>4. \A r \in live' : 1 <= pointers'[r]
    BY <1>2 DEF EnvironmentInv
  <2>5. ASSUME NEW r \in live', parent'[r] = None PROVE Settled(entry'[r], pointers'[r])
    <3>1. r \in live /\ r \in Proc /\ parent[r] = None /\ pointers'[r] = pointers[r]
      BY <1>2, <2>5 DEF EnvironmentInv, ChildrenInv
    <3>2. CASE r = p
      BY <1>1, <1>11, <1>12, <1>15, <3>1, <3>2 DEF Settled
    <3>3. CASE r # p
      <4>1. r \notin children
        BY <3>1, ExecAssumption
      <4>2. entry'[r] = entry[r]
        BY <1>15, <3>1, <3>3, <4>1
      <4> QED BY <3>1, <4>2 DEF EnvironmentInv
    <3> QED BY <3>2, <3>3
  <2>6. ASSUME NEW r \in Proc, parent'[r] # None
        PROVE  Sees(entry'[parent'[r]], entry'[r], shared'[r]) /\ Len(entry'[r]) < Slots
    <3>1. parent'[r] = parent[r] /\ shared'[r] = shared[r]
      BY <1>2
    <3>2. CASE r \in children
      BY <1>14, <1>15, <3>1, <3>2
    <3>3. CASE r \notin children
      <4>1. parent[r] # None /\ parent[r] \in Proc /\ parent[r] # p /\ parent[parent[r]] = None
        BY <2>6, <3>1, <3>3 DEF EnvironmentInv, ChildrenInv
      <4>2. r # p /\ parent[r] \notin children
        BY <1>2, <4>1, ExecAssumption
      <4>3. entry'[r] = entry[r] /\ entry'[parent[r]] = entry[parent[r]]
        BY <1>15, <3>3, <4>1, <4>2
      <4> QED BY <3>1, <4>1, <4>3 DEF EnvironmentInv
    <3> QED BY <3>2, <3>3
  <2> QED BY <2>1, <2>2, <2>3, <2>4, <2>5, <2>6 DEF EnvironmentInv
<1>17. ASSUME NEW r \in Proc, r \in seen \cup {p}
       PROVE  IsSet(<<Variables[r], Variables'[r]>>, <<HandedOn[r], HandedOn'[r]>>,
                    <<Room[r], Room'[r]>>, n, v)
  <2>1. PICK f, i, a, g : f = entry[r] /\ i = Entries(f) /\ a = pointers[r] /\ g = entry'[r]
    OBVIOUS
  <2>2. HasVariables(f, i) /\ a \in Nat /\ pointers'[r] = a
    BY <1>2, <2>1 DEF EnvironmentInv
  <2>3. PutAt(f, i, k, n, v, g) /\ (a > Len(g) <=> a > Len(f))
    <3>1. CASE r = p
      BY <1>1, <1>6, <1>11, <1>15, <2>1, <3>1
    <3>2. CASE r \in seen
      <4>1. r \in children
        BY <3>2
      <4> QED BY <1>14, <2>1, <3>2, <4>1
    <3> QED BY <1>17, <3>1, <3>2
  <2>4. IsSet(<<[y \in Name |-> getenv(f, y)], [y \in Name |-> getenv(g, y)]>>,
              <<HandedBy(f, a), HandedBy(g, a)>>, <<RoomBy(f, a), RoomBy(g, a)>>, n, v)
    BY <1>5, <2>2, <2>3, PutIsSet
  <2>5. Variables[r] = [y \in Name |-> getenv(f, y)] /\ Variables'[r] = [y \in Name |-> getenv(g, y)]
    BY <2>1, MeaningIs, MeaningIsNext
  <2>6. HandedOn[r] = HandedBy(f, a) /\ HandedOn'[r] = HandedBy(g, a)
    BY <2>1, <2>2, MeaningIs, MeaningIsNext
  <2>7. Room[r] = RoomBy(f, a) /\ Room'[r] = RoomBy(g, a)
    BY <2>1, <2>2, MeaningIs, MeaningIsNext
  <2> QED BY <2>4, <2>5, <2>6, <2>7
<1>18. ASSUME NEW r \in Proc, r \notin seen \cup {p}
       PROVE  Variables'[r] = Variables[r] /\ HandedOn'[r] = HandedOn[r] /\ Room'[r] = Room[r]
  <2>1. entry'[r] = entry[r]
    BY <1>14, <1>15, <1>18
  <2>2. pointers'[r] = pointers[r]
    BY <1>2
  <2>3. /\ Variables[r] = [y \in Name |-> getenv(entry[r], y)]
        /\ HandedOn[r] = HandedBy(entry[r], pointers[r])
        /\ Room[r] = RoomBy(entry[r], pointers[r])
    BY <1>18, MeaningIs
  <2>4. /\ Variables'[r] = [y \in Name |-> getenv(entry'[r], y)]
        /\ HandedOn'[r] = HandedBy(entry'[r], pointers'[r])
        /\ Room'[r] = RoomBy(entry'[r], pointers'[r])
    BY <1>18, MeaningIsNext
  <2> QED BY <2>1, <2>2, <2>3, <2>4
<1>19. seen \in SUBSET children
  OBVIOUS
<1>20. PICK s : s = seen
  OBVIOUS
<1> HIDE DEF seen
<1> DEFINE more == {r \in s \cup {p} : Variables[r][n] = None /\ Room[r] > 0}
<1>21. s \cup {p} \subseteq Proc /\ s \subseteq children
  BY <1>19, <1>20
<1>22. /\ Variables' = [r \in Proc |-> Variables'[r]] /\ HandedOn' = [r \in Proc |-> HandedOn'[r]]
       /\ Room' = [r \in Proc |-> Room'[r]]
  BY DictionaryIsNext DEF Dicts, Handeds, Rooms
<1>23. Variables' = [r \in Proc |->
            IF r \in s \cup {p} THEN [Variables[r] EXCEPT ![n] = v] ELSE Variables[r]]
  <2>1. \A r \in Proc : Variables'[r] =
            IF r \in s \cup {p} THEN [Variables[r] EXCEPT ![n] = v] ELSE Variables[r]
    BY <1>17, <1>18, <1>20 DEF IsSet
  <2> QED BY <1>22, <2>1
<1>24. ASSUME NEW r \in Proc
       PROVE  /\ HandedOn'[r] = IF r \in more THEN HandedOn[r] \cup {n} ELSE HandedOn[r]
              /\ Room'[r] = IF r \in more THEN Room[r] - 1 ELSE Room[r]
  <2>1. CASE r \in s \cup {p}
    BY <1>17, <1>20, <2>1 DEF IsSet
  <2>2. CASE r \notin s \cup {p}
    BY <1>18, <1>20, <2>2
  <2> QED BY <2>1, <2>2
<1>25. PICK w : w = more
  OBVIOUS
<1>26. /\ HandedOn' = [r \in Proc |-> IF r \in w THEN HandedOn[r] \cup {n} ELSE HandedOn[r]]
       /\ Room' = [r \in Proc |-> IF r \in w THEN Room[r] - 1 ELSE Room[r]]
  <2> HIDE DEF more
  <2> QED BY <1>22, <1>24, <1>25
<1> QED BY <1>2, <1>16, <1>21, <1>23, <1>25, <1>26 DEF Dict!Set

\* Both modules count alike.
LEMMA SameCardinality == ASSUME NEW S PROVE Dict!Cardinality(S) = Cardinality(S)
  BY DEF Dict!Cardinality, Cardinality

\* fork() ...
LEMMA ForkIsFork ==
    ASSUME EnvironmentInv, NEW p \in Proc, NEW q \in Proc, fork(p, q)
    PROVE  EnvironmentInv' /\ Dict!Fork(p, q)
<1>1. PICK es, c, P, j : /\ es = entry[p] /\ c = pointers[p] /\ P = PagesInArea(p)
                         /\ j = Entries(es)
  OBVIOUS
<1>2. /\ ChildrenInv' /\ q \notin live /\ p \in live /\ parent[p] = None
      /\ live' = live \cup {q} /\ parent' = [parent EXCEPT ![q] = p]
  BY ChildrenFork DEF EnvironmentInv, fork, forked
<1>3. HasVariables(es, j) /\ c \in Nat /\ c <= Len(es) /\ 1 <= c /\ Len(es) \in Nat
        /\ es \in Seq(EntryType)
  BY <1>1, <1>2 DEF EnvironmentInv, Settled
<1>4. P \in Nat /\ P < Slots /\ Slots \in Nat /\ P = Dict!Pages(p)
  BY <1>1, ExecAssumption DEF PagesInArea, Dict!Pages
<1>5. PICK L, new : L = Least(Len(es), P) /\ new = SubSeq(es, 1, L)
  OBVIOUS
<1>6. /\ \E k \in Nat : HasVariables(new, k)
      /\ Len(new) = L /\ L \in Nat /\ L <= P /\ L <= Len(es)
      /\ Cardinality(HandedOf(es, c)) + RoomOf(es, c) = c
      /\ NameSet(new) \subseteq NameSet(es)
      /\ Cardinality(NameSet(new)) =
            IF Cardinality(NameSet(es)) <= P THEN Cardinality(NameSet(es)) ELSE P
      /\ \A y \in Name : getenv(new, y) = IF y \in NameSet(new) THEN getenv(es, y) ELSE None
      /\ IF c <= P
           THEN /\ c <= L /\ HandedOf(es, c) \subseteq NameSet(new)
                /\ HandedOf(new, c) = HandedOf(es, c) /\ RoomOf(new, c) = RoomOf(es, c)
           ELSE c > L
  <2>1. HasVariables(es, j) /\ c \in Nat /\ c <= Len(es)
    BY <1>3
  <2>2. IsForked(es, c, P, L, new)
    BY <1>4, <1>5, <2>1, ForkMeans
  <2> QED BY <2>2 DEF IsForked
<1>7. new = ForkedEntries(p)
  <2>1. Min({Len(es), P}) = L
    BY <1>3, <1>4, <1>5, TwoNumbers DEF Least
  <2> QED BY <1>1, <1>5, <2>1 DEF ForkedEntries
<1>8. PICK m : m = Min({Len(new), j + 1})
  OBVIOUS
<1>9. Sees(es, new, m) /\ m \in Nat
  <2>1. Sees(es, new, m)
    BY <1>3, <1>5, <1>6, <1>8, SharedIsSeen
  <2> QED BY <2>1 DEF Sees
<1>10. /\ entry' = [entry EXCEPT ![q] = new] /\ pointers' = [pointers EXCEPT ![q] = c]
       /\ shared' = [shared EXCEPT ![q] = m]
  BY <1>1, <1>7, <1>8 DEF fork
<1>11. p # None /\ p # q /\ parent'[q] = p
  BY <1>2, ExecAssumption DEF EnvironmentInv, ChildrenInv
<1>12. \A r \in Proc : parent[r] # q /\ (r # q => parent'[r] = parent[r])
  <2>1. \A r \in Proc : parent[r] = q => parent[r] # None
    BY ExecAssumption
  <2> QED BY <1>2, <2>1 DEF EnvironmentInv, ChildrenInv
<1>13. Len(new) < Slots
  <2>1. L < Slots
    BY <1>4, <1>6, SMT
  <2> QED BY <1>6, <2>1
<1>14. EnvironmentInv'
  <2>1. live' \subseteq live \cup {q} /\ Sees(entry[parent'[q]], new, m)
    BY <1>1, <1>2, <1>9, <1>11
  <2> QED BY <1>2, <1>3, <1>6, <1>9, <1>10, <1>11, <1>12, <1>13, <2>1, PagesChange
<1>15. Means(<<Variables, Variables'>>, <<HandedOn, HandedOn'>>, <<Room, Room'>>, q, new, c)
  BY <1>10, MeaningChanges
<1>16. /\ Variables' = [Variables EXCEPT ![q] = [y \in Name |-> getenv(new, y)]]
       /\ HandedOn' = [HandedOn EXCEPT ![q] = HandedBy(new, c)]
       /\ Room' = [Room EXCEPT ![q] = RoomBy(new, c)]
  BY <1>15 DEF Means
<1>17. /\ \A y \in Name : Variables[p][y] = getenv(es, y)
       /\ HandedOn[p] = HandedOf(es, c) /\ Room[p] = RoomOf(es, c)
  <2>1. ~(c > Len(es))
    BY <1>3, SMT
  <2> QED BY <1>1, <2>1, MeaningIs DEF HandedBy, RoomBy
<1> DEFINE fits == Dict!Cardinality(HandedOn[p]) + Room[p] <= Dict!Pages(p)
           set == {y \in Name : Variables[p][y] # None}
<1>18. set = NameSet(es)
  BY <1>17 DEF NameSet
<1>19. fits <=> c <= P
  BY <1>4, <1>6, <1>17, SameCardinality
<1>20. /\ HandedBy(new, c) = (IF fits THEN HandedOn[p] ELSE {})
       /\ RoomBy(new, c) = IF fits THEN Room[p] ELSE 0
  <2>1. CASE c <= P
    <3>1. ~(c > Len(new))
      <4>1. c <= L
        BY <1>6, <2>1
      <4>2. ~(c > L)
        BY <1>3, <1>6, <4>1, SMT
      <4> QED BY <1>6, <4>2
    <3>2. HandedOf(new, c) = HandedOf(es, c) /\ RoomOf(new, c) = RoomOf(es, c)
      BY <1>6, <2>1
    <3> QED BY <1>17, <1>19, <2>1, <3>1, <3>2 DEF HandedBy, RoomBy
  <2>2. CASE ~(c <= P)
    <3>1. c > Len(new)
      BY <1>6, <2>2
    <3> QED BY <1>19, <2>2, <3>1 DEF HandedBy, RoomBy
  <2> QED BY <2>1, <2>2
<1>21. PICK kept : kept = NameSet(new)
  OBVIOUS
<1>22. /\ kept \in SUBSET set
       /\ Dict!Cardinality(kept) = IF Dict!Cardinality(set) <= Dict!Pages(p)
                                     THEN Dict!Cardinality(set) ELSE Dict!Pages(p)
  BY <1>4, <1>6, <1>18, <1>21, SameCardinality
<1>23. fits => HandedOn[p] \subseteq kept
  BY <1>6, <1>17, <1>19, <1>21
<1>24. [y \in Name |-> getenv(new, y)] = [y \in Name |-> IF y \in kept THEN Variables[p][y] ELSE None]
  BY <1>6, <1>17, <1>21
<1>25. /\ Variables' = [Variables EXCEPT ![q] =
                            [y \in Name |-> IF y \in kept THEN Variables[p][y] ELSE None]]
       /\ HandedOn' = [HandedOn EXCEPT ![q] = IF fits THEN HandedOn[p] ELSE {}]
       /\ Room' = [Room EXCEPT ![q] = IF fits THEN Room[p] ELSE 0]
  BY <1>16, <1>20, <1>24
<1>26. Dict!Fork(p, q)
  BY <1>2, <1>22, <1>23, <1>25 DEF Dict!Fork
<1> QED BY <1>14, <1>26

\* ... exec() ...
LEMMA ExecIsStart ==
    ASSUME EnvironmentInv, NEW q \in Proc, NEW line, exec(q, line)
    PROVE  EnvironmentInv' /\ Dict!Start(q)
<1>1. PICK es, c : es = entry[q] /\ c = pointers[q]
  OBVIOUS
<1>2. /\ ChildrenInv' /\ q \in live /\ parent[q] # None
      /\ live' = live /\ parent' = [parent EXCEPT ![q] = None] /\ c <= Len(es)
  BY <1>1, ChildrenExec DEF EnvironmentInv, exec, forked
<1>3. HasVariables(es, Entries(es)) /\ c \in Nat /\ 1 <= c /\ Len(es) < Slots /\ Len(es) \in Nat
  BY <1>1, <1>2 DEF EnvironmentInv
<1>4. c < Slots
  <2>1. PICK l : l = Len(es)
    OBVIOUS
  <2>2. l \in Nat /\ c <= l /\ l < Slots /\ Slots \in Nat
    BY <1>2, <1>3, <2>1, ExecAssumption
  <2> QED BY <1>3, <2>2, SMT
<1>5. PICK new, d : new = CopiedEntries(es, c) /\ d = PointersTo(new)
  OBVIOUS
<1>6. /\ entry' = [entry EXCEPT ![q] = new] /\ pointers' = [pointers EXCEPT ![q] = d]
      /\ shared' = [shared EXCEPT ![q] = 0]
  BY <1>1, <1>5 DEF exec
<1>7. /\ \E k \in Nat : HasVariables(new, k) /\ k + 1 <= Len(new)
      /\ d \in Nat /\ 1 <= d /\ d <= Len(new)
      /\ \A y \in Name : getenv(new, y) =
            IF y \in HandedOf(es, c) THEN Dict!Cut(getenv(es, y)) ELSE None
      /\ HandedOf(es, c) # {} \/ RoomOf(es, c) > 0
      /\ HandedOf(new, d) = HandedOf(es, c)
      /\ RoomOf(new, d) = RoomOf(es, c) + 1
  BY <1>2, <1>3, <1>4, <1>5, StartMeans
<1>8. Settled(new, d)
  <2>1. PICK k \in Nat : HasVariables(new, k) /\ k + 1 <= Len(new)
    BY <1>7
  <2>2. Entries(new) = k
    BY <2>1, CountIs
  <2> QED BY <1>7, <2>1, <2>2 DEF Settled
<1>9. /\ parent'[q] = None
      /\ \A r \in Proc : parent[r] # q /\ (r # q => parent'[r] = parent[r])
  BY <1>2, ExecAssumption DEF EnvironmentInv, ChildrenInv
<1>10. EnvironmentInv'
  <2>1. live' \subseteq live \cup {q} /\ 0 \in Nat /\ \E k \in Nat : HasVariables(new, k)
    BY <1>2, <1>7
  <2> QED BY <1>2, <1>6, <1>7, <1>8, <1>9, <2>1, PagesChange
<1>11. Means(<<Variables, Variables'>>, <<HandedOn, HandedOn'>>, <<Room, Room'>>, q, new, d)
  BY <1>6, MeaningChanges
<1>12. ~(c > Len(es)) /\ ~(d > Len(new))
  <2>1. PICK l, k : l = Len(es) /\ k = Len(new)
    OBVIOUS
  <2>2. l \in Nat /\ c <= l /\ k \in Nat /\ d <= k
    <3>1. Len(new) \in Nat
      BY <1>7 DEF HasVariables
    <3> QED BY <1>2, <1>3, <1>7, <2>1, <3>1
  <2>3. ~(c > l) /\ ~(d > k)
    BY <1>3, <1>7, <2>2, SMT
  <2> QED BY <2>1, <2>3
<1>13. /\ \A n \in Name : Variables[q][n] = getenv(es, n)
       /\ HandedOn[q] = HandedOf(es, c) /\ Room[q] = RoomOf(es, c)
       /\ HandedBy(new, d) = HandedOf(new, d) /\ RoomBy(new, d) = RoomOf(new, d)
  BY <1>1, <1>12, MeaningIs DEF HandedBy, RoomBy
<1>14. HandedOn = [r \in Proc |-> HandedOn[r]] /\ Room = [r \in Proc |-> Room[r]]
  BY DEF HandedOn, Room
<1>15. [y \in Name |-> getenv(new, y)] =
         [y \in Name |-> IF y \in HandedOn[q] THEN Dict!Cut(Variables[q][y]) ELSE None]
  BY <1>7, <1>13
<1>16. /\ Variables' = [Variables EXCEPT ![q] =
            [y \in Name |-> IF y \in HandedOn[q] THEN Dict!Cut(Variables[q][y]) ELSE None]]
       /\ HandedOn' = HandedOn
       /\ Room' = [Room EXCEPT ![q] = Room[q] + 1]
  BY <1>7, <1>11, <1>13, <1>14, <1>15 DEF Means
<1>17. HandedOn[q] # {} \/ Room[q] > 0
  BY <1>7, <1>13
<1>18. Dict!Start(q)
  BY <1>2, <1>16, <1>17 DEF Dict!Start
<1> QED BY <1>10, <1>18

\* ... and exit() are the calls of the dictionaries.
LEMMA ExitIsEnd ==
    ASSUME EnvironmentInv, NEW q \in Proc, exit(q)
    PROVE  EnvironmentInv' /\ Dict!End(q)
<1>1. PICK es, d, m : es = <<Ended>> /\ d = 0 /\ m = shared[q]
  OBVIOUS
<1>2. /\ HasVariables(es, 0) /\ Len(es) = 1 /\ es \in Seq(EntryType)
      /\ \A y \in Name : getenv(es, y) = None
      /\ HandedOf(es, d) = {} /\ RoomOf(es, d) = 0
  BY <1>1, EmptyMeans
<1>3. /\ entry' = [entry EXCEPT ![q] = es] /\ pointers' = [pointers EXCEPT ![q] = d]
      /\ q \in live /\ parent[q] = None /\ live' = live \ {q} /\ parent' = parent
      /\ shared' = shared
  BY <1>1 DEF exit, forked
<1>4. ChildrenInv' /\ \A r \in Proc : parent[r] # q
  BY ChildrenExit DEF EnvironmentInv
<1>5. EnvironmentInv'
  <2>1. shared' = [shared EXCEPT ![q] = m] /\ m \in Nat
    BY <1>1, <1>3 DEF EnvironmentInv
  <2>2. \E k \in Nat : HasVariables(es, k)
    BY <1>2
  <2>3. d \in Nat /\ live' \subseteq live \cup {q} /\ q \notin live' /\ parent'[q] = None
    BY <1>1, <1>3
  <2> QED BY <1>3, <1>4, <2>1, <2>2, <2>3, PagesChange
<1>6. Means(<<Variables, Variables'>>, <<HandedOn, HandedOn'>>, <<Room, Room'>>, q, es, d)
  BY <1>3, MeaningChanges
<1>7. [y \in Name |-> getenv(es, y)] = [n \in Name |-> None]
  BY <1>2
<1>8. HandedBy(es, d) = {} /\ RoomBy(es, d) = 0
  BY <1>2 DEF HandedBy, RoomBy
<1>9. /\ Variables' = [Variables EXCEPT ![q] = [n \in Name |-> None]]
      /\ HandedOn' = [HandedOn EXCEPT ![q] = {}]
      /\ Room' = [Room EXCEPT ![q] = 0]
  BY <1>6, <1>7, <1>8 DEF Means
<1>10. \A r \in live : parent[r] # q
  BY <1>4 DEF EnvironmentInv, ChildrenInv
<1> QED BY <1>3, <1>5, <1>9, <1>10 DEF Dict!End

\* setenv(), fork(), exec() and exit() together, with any pages and pointers: what a
\* program finds in its environment is what the one that started it handed on
\* (exec(), task.c:972), as far as the pages are in an area (task.c:1050), and what
\* that one set while the pages of both were the same (tarfs.c:1214).
THEOREM EnvironmentsAreDictionaries == ExecSpec => ImplementsDictionary
<1>1. ExecInit => EnvironmentInv /\ Dict!Init
  BY EnvironmentInit
<1>2. ASSUME EnvironmentInv, [ExecNext]_execVars
      PROVE  EnvironmentInv' /\ [Dict!Next]_Dict!dictionaryVars
  <2>1. CASE UNCHANGED execVars
    <3>1. /\ live' = live /\ parent' = parent /\ entry' = entry /\ pointers' = pointers
          /\ shared' = shared
      BY <2>1 DEF execVars, environment
    <3>2. Variables' = Variables /\ HandedOn' = HandedOn /\ Room' = Room
      BY <3>1, DictionaryIs, DictionaryIsNext
    <3>3. ChildrenInv'
      BY <1>2, <3>1, ChildrenSame DEF EnvironmentInv
    <3>4. EnvironmentInv'
      BY <1>2, <3>1, <3>3 DEF EnvironmentInv
    <3> QED BY <3>1, <3>2, <3>4 DEF Dict!dictionaryVars
  <2>2. ASSUME NEW p \in Proc, NEW n \in Name, NEW v \in Value, setenv(p, n, v)
        PROVE  EnvironmentInv' /\ Dict!Next
    BY <1>2, <2>2, SetIsSet DEF Dict!Next
  <2>3. ASSUME NEW p \in Proc, NEW q \in Proc, fork(p, q)
        PROVE  EnvironmentInv' /\ Dict!Next
    BY <1>2, <2>3, ForkIsFork DEF Dict!Next
  <2>4. ASSUME NEW q \in Proc, NEW line, exec(q, line)
        PROVE  EnvironmentInv' /\ Dict!Next
    BY <1>2, <2>4, ExecIsStart DEF Dict!Next
  <2>5. ASSUME NEW q \in Proc, exit(q)
        PROVE  EnvironmentInv' /\ Dict!Next
    BY <1>2, <2>5, ExitIsEnd DEF Dict!Next
  <2> QED BY <1>2, <2>1, <2>2, <2>3, <2>4, <2>5 DEF ExecNext
<1> QED BY <1>1, <1>2, PTL DEF ExecSpec, ImplementsDictionary, Dict!Spec

-------------------------------------------------------------------------------
(* Induction and sums. *)

\* Induction up to a number, over a set.
LEMMA Induction ==
    ASSUME NEW L \in Nat, NEW T, 0 \in T, \A n \in 0 .. L - 1 : n \in T => n + 1 \in T
    PROVE  \A n \in 0 .. L : n \in T
<1> DEFINE Out == {n \in 0 .. L : n \notin T}
<1>1. CASE Out # {}
  <2>1. PICK x \in Out : \A y \in Out : x <= y
    <3>1. Out \in SUBSET Nat
      OBVIOUS
    <3> HIDE DEF Out
    <3>2. Min(Out) \in Out /\ \A y \in Out : Min(Out) <= y
      BY <1>1, <3>1, LeastNatural
    <3> QED BY <3>2
  <2>2. x \in Nat /\ x # 0 /\ x <= L /\ x \notin T
    OBVIOUS
  <2>3. x - 1 \in 0 .. L - 1 /\ (x - 1) + 1 = x /\ x - 1 \in 0 .. L /\ ~(x <= x - 1)
    BY <2>2, SMT
  <2>4. x - 1 \in T
    BY <2>1, <2>3
  <2> QED BY <2>2, <2>3, <2>4
<1> QED BY <1>1

\* The sums s of the numbers w.
AddUp(s, w, L) == s[0] = 0 /\ \A k \in 0 .. L - 1 : s[k + 1] = s[k] + w[k + 1]

\* Each is a number, and at most the last.
Bounded(s, L) == \A k \in 0 .. L : s[k] \in Nat /\ s[k] <= s[L]

\* Sums of numbers grow.
LEMMA SumsOfNumbers ==
    ASSUME NEW L \in Nat, NEW s, NEW w \in [1 .. L -> Nat], AddUp(s, w, L)
    PROVE  Bounded(s, L)
<1>0. s[0] = 0 /\ \A k \in 0 .. L - 1 : s[k + 1] = s[k] + w[k + 1]
  BY DEF AddUp
<1> DEFINE T == {k \in 0 .. L : s[k] \in Nat}
<1>1. 0 \in T
  BY <1>0, SMT
<1>2. ASSUME NEW k \in 0 .. L - 1, k \in T PROVE k + 1 \in T
  <2>1. k + 1 \in 1 .. L /\ k + 1 \in 0 .. L
    BY SMT
  <2>2. PICK x, y : x = s[k] /\ y = w[k + 1]
    OBVIOUS
  <2>3. x \in Nat /\ y \in Nat /\ s[k + 1] = x + y
    BY <1>0, <1>2, <2>1, <2>2
  <2>4. x + y \in Nat
    BY <2>3, SMT
  <2> QED BY <2>1, <2>3, <2>4
<1> HIDE DEF T
<1>3. \A k \in 0 .. L : k \in T
  BY <1>1, <1>2, Induction
<1>4. \A k \in 0 .. L : s[k] \in Nat
  BY <1>3 DEF T
<1> DEFINE U == {d \in 0 .. L : s[L - d] <= s[L]}
<1>5. 0 \in U
  <2>1. 0 \in 0 .. L /\ L - 0 = L /\ L \in 0 .. L
    BY SMT
  <2>2. PICK x : x = s[L]
    OBVIOUS
  <2>3. x \in Nat /\ x <= x
    BY <1>4, <2>1, <2>2, SMT
  <2> QED BY <2>1, <2>2, <2>3
<1>6. ASSUME NEW d \in 0 .. L - 1, d \in U PROVE d + 1 \in U
  <2>1. PICK k : k = L - (d + 1)
    OBVIOUS
  <2>2. /\ k \in 0 .. L - 1 /\ L - d = k + 1 /\ k \in 0 .. L /\ k + 1 \in 1 .. L
        /\ d + 1 \in 0 .. L /\ L \in 0 .. L /\ k + 1 \in 0 .. L
    BY <2>1, SMT
  <2>3. PICK x, y, u, v : x = s[k] /\ y = w[k + 1] /\ u = s[k + 1] /\ v = s[L]
    OBVIOUS
  <2>4. x \in Nat /\ y \in Nat /\ u = x + y /\ u <= v /\ v \in Nat
    BY <1>0, <1>4, <1>6, <2>2, <2>3
  <2>5. x <= v
    BY <2>4, SMT
  <2> QED BY <2>1, <2>2, <2>3, <2>5
<1> HIDE DEF U
<1>7. \A d \in 0 .. L : d \in U
  BY <1>5, <1>6, Induction
<1>8. ASSUME NEW k \in 0 .. L PROVE s[k] <= s[L]
  <2>1. PICK d : d = L - k
    OBVIOUS
  <2>2. d \in 0 .. L /\ L - d = k
    BY <2>1, SMT
  <2>3. d \in U
    BY <1>7, <2>2
  <2> QED BY <2>2, <2>3 DEF U
<1> QED BY <1>4, <1>8 DEF Bounded

-------------------------------------------------------------------------------
(* Cells of frames. *)

\* A cell of a frame lies between the frame's first cell and the next frame's.
LEMMA FrameOfCell ==
    ASSUME NEW s \in Nat \ {0}, NEW f \in Nat, NEW g \in Nat, NEW c \in 0 .. s - 1,
           NEW a \in 0 .. s, NEW b \in 0 .. s,
           g * s + c \in f * s + a .. f * s + b - 1
    PROVE  g = f /\ c \in a .. b - 1
<1>1. CASE g < f
  <2>1. PICK d \in Nat : f = g + 1 + d
    BY <1>1, SMT
  <2>2. f * s = g * s + s + d * s /\ d * s >= 0
    BY <2>1, SMT
  <2> QED BY <2>2, SMT
<1>2. CASE f < g
  <2>1. PICK d \in Nat : g = f + 1 + d
    BY <1>2, SMT
  <2>2. g * s = f * s + s + d * s /\ d * s >= 0
    BY <2>1, SMT
  <2> QED BY <2>2, SMT
<1>3. CASE f = g
  <2>1. PICK x \in Int : x = f * s
    BY SMT
  <2> QED BY <1>3, <2>1, SMT
<1> QED BY <1>1, <1>2, <1>3, SMT

\* The pages of a segment.
LEMMA PagesAre ==
    ASSUME NEW s, s.filesz \in Nat
    PROVE  PagesOf(s) \in Nat /\ PagesOf(s) >= 1 /\ (s.filesz < PageSize => PagesOf(s) = 1)
<1>1. PICK b, x : b = PageSize /\ x = s.filesz
  OBVIOUS
<1>2. b \in Nat \ {0} /\ x \in Nat
  BY <1>1, ExecAssumption
<1>3. PICK d : d = (x + b - 1) \div b
  OBVIOUS
<1>4. d \in Int
  BY <1>2, <1>3, SMT
<1>5. x < b => d <= 1
  <2>1. ASSUME x < b, d >= 2 PROVE FALSE
    <3>1. PICK y \in Int : y = d * b
      BY <1>2, <1>4, SMT
    <3>2. y <= x + b - 1
      BY <1>2, <1>3, <3>1, SMT
    <3>3. y >= b + b
      BY <1>2, <1>4, <2>1, <3>1, SMT
    <3> QED BY <1>2, <2>1, <3>1, <3>2, <3>3, SMT
  <2> QED BY <1>4, <2>1, SMT
<1>6. PagesOf(s) = IF 1 <= d THEN d ELSE 1
  BY <1>1, <1>3, <1>4, TwoNumbers DEF PagesOf
<1> QED BY <1>1, <1>4, <1>5, <1>6, SMT

\* The segments of a file, as the linker makes them.
LEMMA SegmentsAre ==
    ASSUME NEW file \in DOMAIN File
    PROVE  /\ Len(File[file]) \in Nat /\ DOMAIN File[file] = 1 .. Len(File[file])
           /\ \A k \in 1 .. Len(File[file]) :
                /\ File[file][k].page \in Nat /\ File[file][k].filesz \in Nat
                /\ File[file][k].memsz \in Nat
                /\ File[file][k].filesz <= File[file][k].memsz
                /\ File[file][k].filesz < File[file][k].memsz =>
                    File[file][k].filesz + File[file][k].memsz <= PageSize
                /\ PagesOf(File[file][k]) \in Nat /\ PagesOf(File[file][k]) >= 1
           /\ \A k, l \in 1 .. Len(File[file]) : k < l =>
                File[file][k].page + PagesOf(File[file][k]) <= File[file][l].page
<1>1. PICK T : T = [page : Nat, offset : Nat, filesz : Nat, memsz : Nat]
  OBVIOUS
<1>2. PICK segments : segments = File[file]
  OBVIOUS
<1>3. segments \in Seq(T)
  BY <1>1, <1>2, ExecAssumption
<1>4. Len(segments) \in Nat /\ DOMAIN segments = 1 .. Len(segments)
  BY <1>3
<1>5. ASSUME NEW k \in 1 .. Len(segments)
      PROVE  segments[k].page \in Nat /\ segments[k].filesz \in Nat /\ segments[k].memsz \in Nat
  <2>1. segments[k] \in T
    BY <1>3
  <2> QED BY <1>1, <2>1
<1>6. ASSUME NEW k \in 1 .. Len(segments)
      PROVE  /\ segments[k].filesz <= segments[k].memsz
             /\ segments[k].filesz < segments[k].memsz =>
                    segments[k].filesz + segments[k].memsz <= PageSize
             /\ \A l \in k + 1 .. Len(segments) : segments[k].page + PagesOf(segments[k]) <= segments[l].page
  BY <1>2, <1>4, ExecAssumption, Zenon
<1>7. ASSUME NEW k \in 1 .. Len(segments)
      PROVE  PagesOf(segments[k]) \in Nat /\ PagesOf(segments[k]) >= 1
  BY <1>5, PagesAre
<1>8. ASSUME NEW k \in 1 .. Len(segments), NEW l \in 1 .. Len(segments), k < l
      PROVE  segments[k].page + PagesOf(segments[k]) <= segments[l].page
  <2>1. l \in k + 1 .. Len(segments)
    BY <1>4, <1>8, SMT
  <2> QED BY <1>6, <2>1
<1> QED BY <1>2, <1>4, <1>5, <1>6, <1>7, <1>8

\* The contents are cells of frames.
IsContent(C) == C = [f \in Frame |-> [c \in Cell |-> C[f][c]]]

\* Page n of segment k, as it is copied.
PageOf(file, k, n) ==
    [c \in Cell |-> IF n * PageSize + c < File[file][k].filesz
                    THEN <<file, HeaderSize * (File[file][k].offset + n * PageSize) + c>>
                    ELSE Zero]

\* memset_file() of nothing, ...
LEMMA NothingCleared ==
    ASSUME NEW C, IsContent(C), NEW from \in Int
    PROVE  memset_file(C, from, 0) = C
<1>1. from .. (from + 0 - 1) = {}
  BY SMT
<1>2. \A f \in Frame, c \in Cell : f * PageSize + c \notin from .. (from + 0 - 1)
  BY <1>1
<1> QED BY <1>2, Zenon DEF memset_file, IsContent

\* ... of a frame, ...
LEMMA FrameCleared ==
    ASSUME NEW C, IsContent(C), NEW f \in Frame, NEW D, D = memset_file(C, f * PageSize, PageSize)
    PROVE  /\ IsContent(D) /\ D[f] = [c \in Cell |-> Zero]
           /\ \A g \in Frame : g # f => D[g] = C[g]
<1>1. PageSize \in Nat \ {0} /\ Frame \subseteq Nat
  BY ExecAssumption
<1>2. ASSUME NEW g \in Frame, NEW c \in Cell
      PROVE  g * PageSize + c \in f * PageSize .. (f * PageSize + PageSize - 1) <=> g = f
  <2>1. c \in 0 .. PageSize - 1 /\ f \in Nat /\ g \in Nat
    BY <1>1 DEF Cell
  <2>2. ASSUME g * PageSize + c \in f * PageSize .. (f * PageSize + PageSize - 1) PROVE g = f
    <3>1. 0 \in 0 .. PageSize /\ PageSize \in 0 .. PageSize
      BY <1>1, SMT
    <3>2. f * PageSize = f * PageSize + 0
      BY <1>1, <2>1, SMT
    <3> QED BY <1>1, <2>1, <2>2, <3>1, <3>2, FrameOfCell
  <2>3. ASSUME g = f PROVE g * PageSize + c \in f * PageSize .. (f * PageSize + PageSize - 1)
    <3>1. PICK x \in Int : x = f * PageSize
      BY <1>1, <2>1, SMT
    <3> QED BY <1>1, <2>1, <2>3, <3>1, SMT
  <2> QED BY <2>2, <2>3
<1>3. D = [g \in Frame |-> [c \in Cell |-> IF g = f THEN Zero ELSE C[g][c]]]
  BY <1>2, Zenon DEF memset_file
<1>4. D[f] = [c \in Cell |-> Zero]
  BY <1>3
<1>5. \A g \in Frame : C[g] = [c \in Cell |-> C[g][c]]
  BY Zenon DEF IsContent
<1>6. \A g \in Frame : g # f => D[g] = C[g]
  BY <1>3, <1>5
<1>7. IsContent(D)
  BY <1>3 DEF IsContent
<1> QED BY <1>4, <1>6, <1>7

\* ... and of cells that are clear.
LEMMA ClearedAgain ==
    ASSUME NEW C, IsContent(C), NEW f \in Frame, NEW a \in 0 .. PageSize, NEW b \in 0 .. PageSize,
           \A c \in a .. b - 1 : C[f][c] = Zero,
           NEW from, from = f * PageSize + a, NEW n, n = b - a
    PROVE  memset_file(C, from, n) = C
<1>1. PageSize \in Nat \ {0} /\ Frame \subseteq Nat
  BY ExecAssumption
<1>2. from + n - 1 = f * PageSize + b - 1
  <2>1. PICK x \in Int : x = f * PageSize
    BY <1>1, SMT
  <2> QED BY <1>1, <2>1, SMT
<1>3. ASSUME NEW g \in Frame, NEW c \in Cell, g * PageSize + c \in from .. (from + n - 1)
      PROVE  C[g][c] = Zero
  <2>1. g * PageSize + c \in f * PageSize + a .. f * PageSize + b - 1
    BY <1>2, <1>3
  <2>2. c \in 0 .. PageSize - 1 /\ f \in Nat /\ g \in Nat
    BY <1>1 DEF Cell
  <2>3. g = f /\ c \in a .. b - 1
    BY <1>1, <2>1, <2>2, FrameOfCell
  <2> QED BY <2>3
<1> QED BY <1>3, Zenon DEF memset_file, IsContent

-------------------------------------------------------------------------------
(* What loadFile() does to the tables and the frames. *)

PageRecord == [page : Nat, frame : Frame]

\* Tables and contents before a page is copied.
IsMemory(m) == m.table \in [Proc -> SUBSET PageRecord] /\ IsContent(m.content)

\* What CopyPage gives.
IsCopy(m) == m = [last |-> m.last, table |-> m.table, content |-> m.content]

\* One more page of the process, in a frame that was free.
CopiesPage(m, q, file, k, n, r) ==
    /\ r.last \in FreeFrames(m)
    /\ r.table = [m.table EXCEPT ![q] = m.table[q] \cup {[page |-> File[file][k].page + n, frame |-> r.last]}]
    /\ IsContent(r.content) /\ r.content[r.last] = PageOf(file, k, n)
    /\ \A g \in Frame : g # r.last => r.content[g] = m.content[g]
    /\ IsCopy(r)

\* Where free frames are left, one page is copied to the first of them.
LEMMA CopyPageIs ==
    ASSUME NEW m, IsMemory(m), NEW q \in Proc, NEW file, NEW k, NEW n,
           FreeFrames(m) # {}, NEW r, r = CopyPage(m, q, file, k, n)
    PROVE  CopiesPage(m, q, file, k, n, r)
<1>1. PICK f : f = Min(FreeFrames(m))
  OBVIOUS
<1>2. f \in FreeFrames(m) /\ f \in Frame
  <2>1. FreeFrames(m) \subseteq Frame /\ FreeFrames(m) \in SUBSET Nat
    BY ExecAssumption DEF FreeFrames
  <2> QED BY <1>1, <2>1, LeastNatural
<1>3. PICK D : D = memset_file(m.content, f * PageSize, PageSize)
  OBVIOUS
<1>4. /\ IsContent(D) /\ D[f] = [c \in Cell |-> Zero]
      /\ \A g \in Frame : g # f => D[g] = m.content[g]
  <2>1. PICK C : C = m.content
    OBVIOUS
  <2>2. IsContent(C) /\ D = memset_file(C, f * PageSize, PageSize)
    BY <1>3, <2>1 DEF IsMemory
  <2>3. /\ IsContent(D) /\ D[f] = [c \in Cell |-> Zero]
        /\ \A g \in Frame : g # f => D[g] = C[g]
    BY <1>2, <2>2, FrameCleared
  <2> QED BY <2>1, <2>3
<1>5. PICK cells : cells = [c \in Cell |-> IF n * PageSize + c < File[file][k].filesz
                            THEN <<file, HeaderSize * (File[file][k].offset + n * PageSize) + c>>
                            ELSE D[f][c]]
  OBVIOUS
<1>6. cells = PageOf(file, k, n)
  BY <1>4, <1>5, Zenon DEF PageOf
<1>7. PICK E : E = [D EXCEPT ![f] = cells]
  OBVIOUS
<1>8. PICK t : t = [m.table EXCEPT ![q] = m.table[q] \cup {[page |-> File[file][k].page + n, frame |-> f]}]
  OBVIOUS
<1>9. r = [last |-> f, table |-> t, content |-> E]
  BY <1>1, <1>3, <1>5, <1>7, <1>8 DEF CopyPage
<1>10. E[f] = cells /\ \A g \in Frame : g # f => E[g] = D[g]
  BY <1>2, <1>4, <1>7 DEF IsContent
<1>11. IsContent(E)
  <2>1. \A g \in Frame : D[g] = [c \in Cell |-> D[g][c]]
    BY <1>4, Zenon DEF IsContent
  <2>2. \A g \in Frame : E[g] = [c \in Cell |-> E[g][c]]
    BY <1>5, <1>10, <2>1
  <2>3. E = [g \in Frame |-> E[g]]
    BY <1>4, <1>7 DEF IsContent
  <2> QED BY <2>2, <2>3 DEF IsContent
<1>12. r.last = f /\ r.table = t /\ r.content = E
  BY <1>9
<1> QED BY <1>2, <1>4, <1>6, <1>8, <1>9, <1>10, <1>11, <1>12 DEF IsCopy, CopiesPage

\* The frames that are left.
LEMMA FreeAreFinite ==
    ASSUME NEW m
    PROVE  /\ FreeFrames(m) \subseteq Frame /\ IsFiniteSet(FreeFrames(m))
           /\ Cardinality(FreeFrames(m)) \in Nat
           /\ Cardinality(FreeFrames(m)) > 0 => FreeFrames(m) # {}
<1>1. FreeFrames(m) \subseteq Frame
  BY DEF FreeFrames
<1>2. IsFiniteSet(FreeFrames(m))
  BY <1>1, ExecAssumption, FS_Subset
<1>3. Cardinality(FreeFrames(m)) \in Nat
  BY <1>2, FS_CardinalityType
<1>4. Cardinality(FreeFrames(m)) > 0 => FreeFrames(m) # {}
  <2>1. FreeFrames(m) = {} => Cardinality(FreeFrames(m)) = 0
    BY FS_EmptySet
  <2> QED BY <1>3, <2>1, SMT
<1> QED BY <1>1, <1>2, <1>3, <1>4

\* ... are one less.
LEMMA OneLess ==
    ASSUME NEW m, IsMemory(m), NEW q \in Proc, NEW f \in FreeFrames(m), NEW e, e.frame = f,
           NEW r, r.table = [m.table EXCEPT ![q] = m.table[q] \cup {e}]
    PROVE  /\ FreeFrames(r) = FreeFrames(m) \ {f}
           /\ Cardinality(FreeFrames(r)) = Cardinality(FreeFrames(m)) - 1
<1>1. \A p \in Proc : r.table[p] = IF p = q THEN m.table[p] \cup {e} ELSE m.table[p]
  BY DEF IsMemory
<1>2. FreeFrames(r) = FreeFrames(m) \ {f}
  BY <1>1 DEF FreeFrames
<1>3. IsFiniteSet(FreeFrames(m))
  BY FreeAreFinite
<1>4. Cardinality(FreeFrames(m) \ {f}) = Cardinality(FreeFrames(m)) - 1
  BY <1>3, FS_RemoveElement
<1> QED BY <1>2, <1>4

\* The pages that a file has in common with its segments so far: those of the
\* segments before k and the first n of segment k.
Before(j, i, k, n) == j < k \/ (j = k /\ i < n)
Pages(file, j) == 0 .. PagesOf(File[file][j]) - 1
Segments(file) == 1 .. Len(File[file])
New(m, before, q) == m.table[q] \ before.table[q]

\* Page e of a process with these contents is page i of segment j.
IsCopied(e, C, file, j, i) == e.page = File[file][j].page + i /\ C[e.frame] = PageOf(file, j, i)

\* Between two pages: the process has those of the file up to here, in frames
\* that were free, nothing else has changed, and there is room for more.
Loading(m, before, q, file, k, n, more) ==
    /\ IsMemory(m)
    /\ \A p \in Proc : p # q => m.table[p] = before.table[p]
    /\ before.table[q] \subseteq m.table[q]
    /\ \A f \in Frame : f \notin FreeFrames(before) => m.content[f] = before.content[f]
    /\ \A e \in New(m, before, q) :
        /\ e.frame \in FreeFrames(before)
        /\ \E j \in Segments(file) : \E i \in Pages(file, j) :
            Before(j, i, k, n) /\ IsCopied(e, m.content, file, j, i)
    /\ \A j \in Segments(file) : \A i \in Pages(file, j) :
        Before(j, i, k, n) => \E e \in New(m, before, q) : e.page = File[file][j].page + i
    /\ \A d, e \in New(m, before, q) : d.page = e.page => d = e
    /\ Cardinality(FreeFrames(m)) >= more

\* Pages of a file follow each other.
LEMMA PagesFollow ==
    ASSUME NEW file \in DOMAIN File, NEW j \in Segments(file), NEW i \in Pages(file, j),
           NEW k \in Segments(file), NEW n \in Pages(file, k), Before(j, i, k, n)
    PROVE  File[file][j].page + i < File[file][k].page + n
<1>1. PICK a, b, x : a = File[file][j].page /\ b = File[file][k].page /\ x = PagesOf(File[file][j])
  OBVIOUS
<1>2. a \in Nat /\ b \in Nat /\ x \in Nat
  BY <1>1, SegmentsAre DEF Segments
<1>3. i \in 0 .. x - 1 /\ n \in Nat /\ j \in Nat /\ k \in Nat
  <2>1. PagesOf(File[file][k]) \in Nat /\ Len(File[file]) \in Nat
    BY SegmentsAre DEF Segments
  <2> QED BY <1>1, <2>1, SMT DEF Pages, Segments
<1>4. CASE j < k
  <2>1. a + x <= b
    BY <1>1, <1>4, SegmentsAre DEF Segments
  <2> QED BY <1>1, <1>2, <1>3, <2>1, SMT
<1>5. CASE j = k /\ i < n
  <2>1. a = b
    BY <1>1, <1>5
  <2> QED BY <1>1, <1>2, <1>3, <1>5, <2>1, SMT
<1> QED BY <1>4, <1>5 DEF Before

\* One more page.
LEMMA PageLoaded ==
    ASSUME NEW file \in DOMAIN File, NEW k \in Segments(file), NEW n \in Pages(file, k),
           NEW q \in Proc, NEW before, IsMemory(before), NEW more \in Nat, more >= 1,
           NEW m, Loading(m, before, q, file, k, n, more), NEW r, r = CopyPage(m, q, file, k, n)
    PROVE  Loading(r, before, q, file, k, n + 1, more - 1)
<1>1. /\ IsMemory(m) /\ before.table[q] \subseteq m.table[q]
      /\ \A p \in Proc : p # q => m.table[p] = before.table[p]
  BY DEF Loading
<1>2. FreeFrames(m) # {} /\ Cardinality(FreeFrames(m)) \in Nat /\ Cardinality(FreeFrames(m)) >= more
  <2>1. PICK x : x = Cardinality(FreeFrames(m))
    OBVIOUS
  <2>2. x \in Nat /\ x >= more /\ (x > 0 => FreeFrames(m) # {})
    BY <2>1, FreeAreFinite DEF Loading
  <2>3. x > 0
    BY <2>2, SMT
  <2> QED BY <2>1, <2>2, <2>3
<1>3. PICK f, t : f = r.last /\ t = [page |-> File[file][k].page + n, frame |-> f]
  OBVIOUS
<1>4. /\ f \in FreeFrames(m)
      /\ r.table = [m.table EXCEPT ![q] = m.table[q] \cup {t}]
      /\ IsContent(r.content) /\ r.content[f] = PageOf(file, k, n)
      /\ \A g \in Frame : g # f => r.content[g] = m.content[g]
  <2>1. CopiesPage(m, q, file, k, n, r)
    BY <1>1, <1>2, CopyPageIs
  <2> QED BY <1>3, <2>1 DEF CopiesPage
<1>5. t.frame = f /\ t.page = File[file][k].page + n /\ f \in Frame
  BY <1>3, <1>4, FreeAreFinite
<1>6. t \in PageRecord
  <2>1. File[file][k].page \in Nat /\ PagesOf(File[file][k]) \in Nat
    BY SegmentsAre DEF Segments
  <2>2. n \in Nat
    BY <2>1, SMT DEF Pages
  <2>3. File[file][k].page + n \in Nat
    BY <2>1, <2>2, SMT
  <2> QED BY <1>3, <1>5, <2>3 DEF PageRecord
<1>7. \A p \in Proc : r.table[p] = IF p = q THEN m.table[p] \cup {t} ELSE m.table[p]
  BY <1>1, <1>4 DEF IsMemory
<1>8. IsMemory(r)
  <2>1. m.table \in [Proc -> SUBSET PageRecord]
    BY <1>1 DEF IsMemory
  <2>2. r.table \in [Proc -> SUBSET PageRecord]
    BY <1>4, <1>6, <2>1
  <2> QED BY <1>4, <2>2 DEF IsMemory
<1>9. f \in FreeFrames(before) /\ t \notin before.table[q] /\ t \notin m.table[q]
  <2>1. \A p \in Proc : before.table[p] \subseteq m.table[p]
    BY <1>1
  <2> QED BY <1>4, <1>5, <2>1 DEF FreeFrames
<1>10. New(r, before, q) = New(m, before, q) \cup {t}
  BY <1>7, <1>9 DEF New
<1>11. \A e \in New(m, before, q) : e.frame # f /\ e.frame \in Frame
  <2>1. \A e \in m.table[q] : e.frame # f
    BY <1>4 DEF FreeFrames
  <2>2. \A e \in m.table[q] : e \in PageRecord
    BY <1>1 DEF IsMemory
  <2> QED BY <2>1, <2>2 DEF New, PageRecord
<1>12. \A j \in Segments(file) : \A i \in Pages(file, j) :
         Before(j, i, k, n + 1) <=> Before(j, i, k, n) \/ (j = k /\ i = n)
  <2> TAKE j \in Segments(file)
  <2> TAKE i \in Pages(file, j)
  <2>1. i \in Int /\ n \in Int
    <3>1. PagesOf(File[file][k]) \in Nat /\ PagesOf(File[file][j]) \in Nat
      BY SegmentsAre DEF Segments
    <3> QED BY <3>1, SMT DEF Pages
  <2> QED BY <2>1, SMT DEF Before
<1>13. IsCopied(t, r.content, file, k, n)
  BY <1>4, <1>5 DEF IsCopied
<1>14. \A p \in Proc : p # q => r.table[p] = before.table[p]
  BY <1>1, <1>7
<1>15. before.table[q] \subseteq r.table[q]
  BY <1>1, <1>7
<1>16. \A g \in Frame : g \notin FreeFrames(before) => r.content[g] = before.content[g]
  BY <1>4, <1>9 DEF Loading
<1>17. ASSUME NEW e \in New(r, before, q)
       PROVE  /\ e.frame \in FreeFrames(before)
              /\ \E j \in Segments(file) : \E i \in Pages(file, j) :
                    Before(j, i, k, n + 1) /\ IsCopied(e, r.content, file, j, i)
  <2>1. CASE e \in New(m, before, q)
    <3>1. PICK j \in Segments(file) : \E i \in Pages(file, j) :
            Before(j, i, k, n) /\ IsCopied(e, m.content, file, j, i)
      BY <2>1 DEF Loading
    <3>2. PICK i \in Pages(file, j) : Before(j, i, k, n) /\ IsCopied(e, m.content, file, j, i)
      BY <3>1
    <3>3. e.frame \in FreeFrames(before)
      BY <2>1 DEF Loading
    <3>4. r.content[e.frame] = m.content[e.frame]
      BY <1>4, <1>11, <2>1
    <3>5. IsCopied(e, r.content, file, j, i)
      BY <3>2, <3>4 DEF IsCopied
    <3> QED BY <1>12, <3>2, <3>3, <3>5
  <2>2. CASE e = t
    BY <1>5, <1>9, <1>12, <1>13, <2>2
  <2> QED BY <1>10, <2>1, <2>2
<1>18. ASSUME NEW j \in Segments(file), NEW i \in Pages(file, j), Before(j, i, k, n + 1)
       PROVE  \E e \in New(r, before, q) : e.page = File[file][j].page + i
  <2>1. CASE Before(j, i, k, n)
    <3>1. \E e \in New(m, before, q) : e.page = File[file][j].page + i
      BY <2>1 DEF Loading
    <3> QED BY <1>10, <3>1
  <2>2. CASE j = k /\ i = n
    BY <1>5, <1>10, <2>2
  <2> QED BY <1>12, <1>18, <2>1, <2>2
<1>19. \A e \in New(m, before, q) : e.page # t.page
  <2> TAKE e \in New(m, before, q)
  <2>1. PICK j \in Segments(file) : \E i \in Pages(file, j) :
          Before(j, i, k, n) /\ IsCopied(e, m.content, file, j, i)
    BY DEF Loading
  <2>2. PICK i \in Pages(file, j) : Before(j, i, k, n) /\ IsCopied(e, m.content, file, j, i)
    BY <2>1
  <2>3. File[file][j].page + i < File[file][k].page + n
    BY <2>2, PagesFollow
  <2>4. e.page = File[file][j].page + i
    BY <2>2 DEF IsCopied
  <2>5. PICK x, y : x = File[file][j].page + i /\ y = File[file][k].page + n
    OBVIOUS
  <2>6. x \in Nat /\ y \in Nat
    BY <1>6, <1>5, <2>4, <2>5, <1>1 DEF PageRecord, New, IsMemory
  <2>7. x # y
    BY <2>3, <2>5, <2>6, SMT
  <2> QED BY <1>5, <2>4, <2>5, <2>7
<1>20. ASSUME NEW d \in New(r, before, q), NEW e \in New(r, before, q), d.page = e.page PROVE d = e
  <2>1. CASE d \in New(m, before, q) /\ e \in New(m, before, q)
    BY <1>20, <2>1 DEF Loading
  <2> QED BY <1>10, <1>19, <1>20, <2>1
<1>21. Cardinality(FreeFrames(r)) >= more - 1
  <2>1. PICK x, y : x = Cardinality(FreeFrames(r)) /\ y = Cardinality(FreeFrames(m))
    OBVIOUS
  <2>2. x = y - 1
    BY <1>1, <1>4, <1>5, <2>1, OneLess
  <2>3. y \in Nat /\ y >= more
    BY <1>2, <2>1
  <2>4. x >= more - 1
    BY <2>2, <2>3, SMT
  <2> QED BY <2>1, <2>4
<1> QED BY <1>8, <1>14, <1>15, <1>16, <1>17, <1>18, <1>20, <1>21 DEF Loading

-------------------------------------------------------------------------------
(* loadFile(), step by step. *)

\* The memory after each page of segment k.
IsCopies(f, L, m, q, file, k) ==
    f = [n \in 0 .. L |-> IF n = 0 THEN m ELSE CopyPage(f[n - 1], q, file, k, n - 1)]

\* There is such a sequence, and CopySegment is its last.
LEMMA CopiesAre ==
    ASSUME NEW m, NEW q, NEW file, NEW k, PagesOf(File[file][k]) \in Nat
    PROVE  \E f : IsCopies(f, PagesOf(File[file][k]), m, q, file, k)
            /\ CopySegment(m, q, file, k) = f[PagesOf(File[file][k])]
<1> DEFINE L == PagesOf(File[file][k])
           T == {x \in 0 .. L : \E f : IsCopies(f, x, m, q, file, k)}
<1>1. 0 \in T
  <2>1. IsCopies([n \in 0 .. 0 |-> m], 0, m, q, file, k)
    BY SMT DEF IsCopies
  <2> QED BY <2>1
<1>2. ASSUME NEW l \in 0 .. L - 1, l \in T PROVE l + 1 \in T
  <2>1. PICK f : IsCopies(f, l, m, q, file, k)
    BY <1>2
  <2> DEFINE g == [n \in 0 .. l + 1 |-> IF n = 0 THEN m ELSE CopyPage(f[n - 1], q, file, k, n - 1)]
  <2>2. ASSUME NEW n \in 0 .. l PROVE g[n] = f[n]
    <3>1. n \in 0 .. l + 1
      BY SMT
    <3>2. f[n] = IF n = 0 THEN m ELSE CopyPage(f[n - 1], q, file, k, n - 1)
      BY <2>1 DEF IsCopies
    <3> QED BY <3>1, <3>2
  <2>3. ASSUME NEW n \in 0 .. l + 1
        PROVE  g[n] = IF n = 0 THEN m ELSE CopyPage(g[n - 1], q, file, k, n - 1)
    <3>1. CASE n = 0
      BY <3>1
    <3>2. CASE n # 0
      <4>1. n - 1 \in 0 .. l
        BY <3>2, SMT
      <4>2. g[n - 1] = f[n - 1]
        BY <2>2, <4>1
      <4> QED BY <3>2, <4>2
    <3> QED BY <3>1, <3>2
  <2>4. g = [n \in 0 .. l + 1 |-> g[n]]
    OBVIOUS
  <2> HIDE DEF g
  <2>5. IsCopies(g, l + 1, m, q, file, k)
    BY <2>3, <2>4 DEF IsCopies
  <2>6. l + 1 \in 0 .. L
    BY SMT
  <2> QED BY <2>5, <2>6
<1> HIDE DEF T
<1>3. \A l \in 0 .. L : l \in T
  BY <1>1, <1>2, Induction
<1>4. L \in T
  BY <1>3, SMT
<1>5. \E f : IsCopies(f, L, m, q, file, k)
  BY <1>4 DEF T
<1> DEFINE h == CHOOSE f : IsCopies(f, L, m, q, file, k)
<1>6. IsCopies(h, L, m, q, file, k)
  BY <1>5
<1>7. CopySegment(m, q, file, k) = h[L]
  BY DEF CopySegment, IsCopies
<1> QED BY <1>6, <1>7

\* The memory after each segment.
IsLoads(f, L, m, q, file) ==
    f = [n \in 0 .. L |-> IF n = 0 THEN m ELSE map_elf_file(f[n - 1], q, file, n)]

\* There is such a sequence, and loadFile is its last.
LEMMA LoadsAre ==
    ASSUME NEW m, NEW q, NEW file, Len(File[file]) \in Nat
    PROVE  \E f : IsLoads(f, Len(File[file]), m, q, file)
            /\ loadFile(m, q, file) = f[Len(File[file])]
<1> DEFINE L == Len(File[file])
           T == {x \in 0 .. L : \E f : IsLoads(f, x, m, q, file)}
<1>1. 0 \in T
  <2>1. IsLoads([n \in 0 .. 0 |-> m], 0, m, q, file)
    BY SMT DEF IsLoads
  <2> QED BY <2>1
<1>2. ASSUME NEW l \in 0 .. L - 1, l \in T PROVE l + 1 \in T
  <2>1. PICK f : IsLoads(f, l, m, q, file)
    BY <1>2
  <2> DEFINE g == [n \in 0 .. l + 1 |-> IF n = 0 THEN m ELSE map_elf_file(f[n - 1], q, file, n)]
  <2>2. ASSUME NEW n \in 0 .. l PROVE g[n] = f[n]
    <3>1. n \in 0 .. l + 1
      BY SMT
    <3>2. f[n] = IF n = 0 THEN m ELSE map_elf_file(f[n - 1], q, file, n)
      BY <2>1 DEF IsLoads
    <3> QED BY <3>1, <3>2
  <2>3. ASSUME NEW n \in 0 .. l + 1
        PROVE  g[n] = IF n = 0 THEN m ELSE map_elf_file(g[n - 1], q, file, n)
    <3>1. CASE n = 0
      BY <3>1
    <3>2. CASE n # 0
      <4>1. n - 1 \in 0 .. l
        BY <3>2, SMT
      <4>2. g[n - 1] = f[n - 1]
        BY <2>2, <4>1
      <4> QED BY <3>2, <4>2
    <3> QED BY <3>1, <3>2
  <2>4. g = [n \in 0 .. l + 1 |-> g[n]]
    OBVIOUS
  <2> HIDE DEF g
  <2>5. IsLoads(g, l + 1, m, q, file)
    BY <2>3, <2>4 DEF IsLoads
  <2>6. l + 1 \in 0 .. L
    BY SMT
  <2> QED BY <2>5, <2>6
<1> HIDE DEF T
<1>3. \A l \in 0 .. L : l \in T
  BY <1>1, <1>2, Induction
<1>4. L \in T
  BY <1>3, SMT
<1>5. \E f : IsLoads(f, L, m, q, file)
  BY <1>4 DEF T
<1> DEFINE h == CHOOSE f : IsLoads(f, L, m, q, file)
<1>6. IsLoads(h, L, m, q, file)
  BY <1>5
<1>7. loadFile(m, q, file) = h[L]
  BY DEF loadFile, IsLoads
<1> QED BY <1>6, <1>7

\* The pages of the first segments.
IsSums(f, L, file) ==
    f = [n \in 0 .. L |-> IF n = 0 THEN 0 ELSE f[n - 1] + PagesOf(File[file][n])]

\* There are such sums, and the last is that of the file.
LEMMA SumsAre ==
    ASSUME NEW file, Len(File[file]) \in Nat
    PROVE  \E f : IsSums(f, Len(File[file]), file) /\ PagesOfFile(file) = f[Len(File[file])]
<1> DEFINE L == Len(File[file])
           T == {x \in 0 .. L : \E f : IsSums(f, x, file)}
<1>1. 0 \in T
  <2>1. IsSums([n \in 0 .. 0 |-> 0], 0, file)
    BY SMT DEF IsSums
  <2> QED BY <2>1
<1>2. ASSUME NEW l \in 0 .. L - 1, l \in T PROVE l + 1 \in T
  <2>1. PICK f : IsSums(f, l, file)
    BY <1>2
  <2> DEFINE g == [n \in 0 .. l + 1 |-> IF n = 0 THEN 0 ELSE f[n - 1] + PagesOf(File[file][n])]
  <2>2. ASSUME NEW n \in 0 .. l PROVE g[n] = f[n]
    <3>1. n \in 0 .. l + 1
      BY SMT
    <3>2. f[n] = IF n = 0 THEN 0 ELSE f[n - 1] + PagesOf(File[file][n])
      BY <2>1 DEF IsSums
    <3> QED BY <3>1, <3>2
  <2>3. ASSUME NEW n \in 0 .. l + 1
        PROVE  g[n] = IF n = 0 THEN 0 ELSE g[n - 1] + PagesOf(File[file][n])
    <3>1. CASE n = 0
      BY <3>1
    <3>2. CASE n # 0
      <4>1. n - 1 \in 0 .. l
        BY <3>2, SMT
      <4>2. g[n - 1] = f[n - 1]
        BY <2>2, <4>1
      <4> QED BY <3>2, <4>2
    <3> QED BY <3>1, <3>2
  <2>4. g = [n \in 0 .. l + 1 |-> g[n]]
    OBVIOUS
  <2> HIDE DEF g
  <2>5. IsSums(g, l + 1, file)
    BY <2>3, <2>4 DEF IsSums
  <2>6. l + 1 \in 0 .. L
    BY SMT
  <2> QED BY <2>5, <2>6
<1> HIDE DEF T
<1>3. \A l \in 0 .. L : l \in T
  BY <1>1, <1>2, Induction
<1>4. L \in T
  BY <1>3, SMT
<1>5. \E f : IsSums(f, L, file)
  BY <1>4 DEF T
<1> DEFINE h == CHOOSE f : IsSums(f, L, file)
<1>6. IsSums(h, L, file)
  BY <1>5
<1>7. PagesOfFile(file) = h[L]
  BY DEF PagesOfFile, IsSums
<1> QED BY <1>6, <1>7

\* The pages of a segment, one after another.
LEMMA SegmentCopied ==
    ASSUME NEW file \in DOMAIN File, NEW k \in Segments(file),
           NEW q \in Proc, NEW before, IsMemory(before), NEW more \in Nat,
           NEW P, P = PagesOf(File[file][k]), more >= P,
           NEW m, Loading(m, before, q, file, k, 0, more), NEW f, IsCopies(f, P, m, q, file, k)
    PROVE  /\ \A n \in 0 .. P : Loading(f[n], before, q, file, k, n, more - n)
           /\ P \in Nat /\ P >= 1 /\ P - 1 \in 0 .. P /\ more - (P - 1) >= 1
           /\ f[P] = CopyPage(f[P - 1], q, file, k, P - 1) /\ f[0] = m
<1>1. P \in Nat /\ P >= 1
  BY SegmentsAre DEF Segments
<1>2. /\ f[0] = m
      /\ \A n \in 1 .. P : f[n] = CopyPage(f[n - 1], q, file, k, n - 1)
  <2>1. 0 \in 0 .. P /\ \A n \in 1 .. P : n \in 0 .. P /\ n # 0
    BY <1>1, SMT
  <2> QED BY <2>1 DEF IsCopies
<1> DEFINE T == {n \in 0 .. P : Loading(f[n], before, q, file, k, n, more - n)}
<1>3. 0 \in T
  <2>1. more - 0 = more /\ 0 \in 0 .. P
    BY <1>1, SMT
  <2> QED BY <1>2, <2>1
<1>4. ASSUME NEW n \in 0 .. P - 1, n \in T PROVE n + 1 \in T
  <2>1. PICK x : x = more - n
    OBVIOUS
  <2>2. /\ x \in Nat /\ x >= 1 /\ more - (n + 1) = x - 1 /\ n + 1 \in 1 .. P /\ n + 1 \in 0 .. P
        /\ (n + 1) - 1 = n
    BY <1>1, <2>1, SMT
  <2>3. Loading(f[n], before, q, file, k, n, x)
    BY <1>4, <2>1
  <2>4. PICK r : r = f[n + 1]
    OBVIOUS
  <2>5. r = CopyPage(f[n], q, file, k, n)
    BY <1>2, <2>2, <2>4
  <2>6. n \in Pages(file, k)
    BY DEF Pages
  <2>7. Loading(r, before, q, file, k, n + 1, x - 1)
    BY <2>2, <2>3, <2>5, <2>6, PageLoaded
  <2> QED BY <2>2, <2>4, <2>7
<1> HIDE DEF T
<1>5. \A n \in 0 .. P : n \in T
  BY <1>1, <1>3, <1>4, Induction
<1>6. P \in 1 .. P /\ P - 1 \in 0 .. P /\ more - (P - 1) >= 1
  BY <1>1, SMT
<1> QED BY <1>1, <1>2, <1>5, <1>6 DEF T

\* What is cleared behind the file's part of a segment was clear, as a segment
\* with more in memory has one page.
LEMMA ClearedBehind ==
    ASSUME NEW file \in DOMAIN File, NEW k \in Segments(file), NEW r,
           IsContent(r.content), r.last \in Frame,
           PagesOf(File[file][k]) = 1 => r.content[r.last] = PageOf(file, k, 0),
           NEW s, s = File[file][k]
    PROVE  memset_file(r.content, EndOfCopy(r, s) + s.filesz, s.memsz - s.filesz) = r.content
<1>1. PICK x, y, b, f, C : /\ x = s.filesz /\ y = s.memsz /\ b = PageSize
                           /\ f = r.last /\ C = r.content
  OBVIOUS
<1>2. /\ x \in Nat /\ y \in Nat /\ x <= y /\ b \in Nat \ {0} /\ f \in Nat /\ f \in Frame
      /\ (x < y => x + y <= b)
  BY <1>1, SegmentsAre, ExecAssumption DEF Segments
<1>3. PICK P : P = PagesOf(s)
  OBVIOUS
<1>4. P \in Nat /\ (x < b => P = 1)
  BY <1>1, <1>2, <1>3, PagesAre
<1>5. PICK from, n : from = EndOfCopy(r, s) + x /\ n = y - x
  OBVIOUS
<1>6. from = f * b + x - (P - 1) * b + x
  BY <1>1, <1>3, <1>5 DEF EndOfCopy
<1>7. from \in Int
  <2>1. PICK u, v \in Int : u = f * b /\ v = (P - 1) * b
    BY <1>2, <1>4, SMT
  <2> QED BY <1>2, <1>6, <2>1, SMT
<1>8. CASE x = y
  <2>1. n = 0
    BY <1>2, <1>5, <1>8, SMT
  <2>2. memset_file(C, from, 0) = C
    BY <1>1, <1>7, NothingCleared
  <2> QED BY <1>1, <1>5, <2>1, <2>2
<1>9. CASE x < y
  <2>1. P = 1
    BY <1>2, <1>4, <1>9, SMT
  <2>2. C[f] = PageOf(file, k, 0)
    BY <1>1, <1>3, <2>1
  <2>3. PICK a, d : a = x + x /\ d = x + y
    OBVIOUS
  <2>4. a \in 0 .. b /\ d \in 0 .. b /\ n = d - a /\ from = f * b + a
    <3>1. PICK u \in Int : u = f * b
      BY <1>2, SMT
    <3>2. (P - 1) * b = 0
      BY <1>2, <2>1, SMT
    <3> QED BY <1>2, <1>5, <1>6, <1>9, <2>3, <3>1, <3>2, SMT
  <2>5. ASSUME NEW c \in a .. d - 1 PROVE C[f][c] = Zero
    <3>1. c \in 0 .. b - 1 /\ ~(0 * b + c < x)
      BY <1>2, <2>3, <2>4, SMT
    <3>2. c \in Cell
      BY <1>1, <3>1 DEF Cell
    <3>3. C[f][c] = IF 0 * b + c < x
                     THEN <<file, HeaderSize * (File[file][k].offset + 0 * b) + c>> ELSE Zero
      BY <1>1, <2>2, <3>2 DEF PageOf
    <3> QED BY <3>1, <3>3
  <2>6. IsContent(C) /\ a \in 0 .. PageSize /\ d \in 0 .. PageSize /\ from = f * PageSize + a
    BY <1>1, <2>4
  <2>7. memset_file(C, from, n) = C
    BY <1>2, <2>4, <2>5, <2>6, ClearedAgain
  <2> QED BY <1>1, <1>5, <2>7
<1> QED BY <1>2, <1>8, <1>9, SMT

\* A whole segment.
LEMMA SegmentLoaded ==
    ASSUME NEW file \in DOMAIN File, NEW k \in Segments(file),
           NEW q \in Proc, NEW before, IsMemory(before), NEW more \in Nat,
           NEW P, P = PagesOf(File[file][k]), more >= P,
           NEW m, Loading(m, before, q, file, k, 0, more), NEW r, r = map_elf_file(m, q, file, k)
    PROVE  Loading(r, before, q, file, k + 1, 0, more - P)
<1>1. P \in Nat /\ P >= 1
  BY SegmentsAre DEF Segments
<1>2. PICK f : IsCopies(f, P, m, q, file, k) /\ CopySegment(m, q, file, k) = f[P]
  BY <1>1, CopiesAre
<1>3. /\ \A n \in 0 .. P : Loading(f[n], before, q, file, k, n, more - n)
      /\ P - 1 \in 0 .. P /\ more - (P - 1) >= 1
      /\ f[P] = CopyPage(f[P - 1], q, file, k, P - 1) /\ f[0] = m
  BY <1>2, SegmentCopied
<1>4. PICK l, o, n : l = f[P - 1] /\ o = f[P] /\ n = P - 1
  OBVIOUS
<1>5. IsMemory(l) /\ FreeFrames(l) # {}
  <2>1. PICK x : x = Cardinality(FreeFrames(l))
    OBVIOUS
  <2>2. IsMemory(l) /\ x >= more - (P - 1)
    BY <1>3, <1>4, <2>1 DEF Loading
  <2>3. x \in Nat /\ (x > 0 => FreeFrames(l) # {})
    BY <2>1, FreeAreFinite
  <2>4. x > 0
    BY <1>1, <1>3, <2>2, <2>3, SMT
  <2> QED BY <2>2, <2>3, <2>4
<1>6. o = CopyPage(l, q, file, k, n)
  BY <1>3, <1>4
<1>7. /\ o.last \in FreeFrames(l) /\ IsContent(o.content)
      /\ o.content[o.last] = PageOf(file, k, n)
      /\ IsCopy(o)
  <2>1. CopiesPage(l, q, file, k, n, o)
    BY <1>5, <1>6, CopyPageIs
  <2> QED BY <2>1 DEF CopiesPage
<1>8. PICK s : s = File[file][k]
  OBVIOUS
<1>9. memset_file(o.content, EndOfCopy(o, s) + s.filesz, s.memsz - s.filesz) = o.content
  <2>1. o.last \in Frame
    BY <1>7, FreeAreFinite
  <2>2. P = 1 => n = 0
    BY <1>4, SMT
  <2>3. PagesOf(s) = 1 => o.content[o.last] = PageOf(file, k, 0)
    BY <1>7, <1>8, <2>2
  <2> QED BY <1>7, <1>8, <2>1, <2>3, ClearedBehind
<1>10. r = [o EXCEPT !.content = o.content]
  BY <1>2, <1>4, <1>8, <1>9 DEF map_elf_file
<1>11. r = o
  BY <1>7, <1>10 DEF IsCopy
<1>12. Loading(r, before, q, file, k, P, more - P)
  <2>1. P \in 0 .. P
    BY <1>1, SMT
  <2> QED BY <1>3, <1>4, <1>11, <2>1
<1>13. \A j \in Segments(file) : \A i \in Pages(file, j) : Before(j, i, k, P) <=> Before(j, i, k + 1, 0)
  <2> TAKE j \in Segments(file)
  <2> TAKE i \in Pages(file, j)
  <2>1. PICK x : x = PagesOf(File[file][j])
    OBVIOUS
  <2>2. x \in Nat /\ i \in 0 .. x - 1 /\ j \in Int /\ k \in Int /\ (j = k => x = P)
    BY <2>1, SegmentsAre DEF Segments, Pages
  <2> QED BY <1>1, <2>2, SMT DEF Before
<1> QED BY <1>12, <1>13 DEF Loading

\* The sums grow up to that of the file.
LEMMA SumsGrow ==
    ASSUME NEW file \in DOMAIN File, NEW L, L = Len(File[file]), NEW s, IsSums(s, L, file)
    PROVE  /\ s[0] = 0
           /\ \A k \in 0 .. L : s[k] \in Nat /\ s[k] <= s[L]
           /\ \A k \in 0 .. L - 1 : s[k + 1] = s[k] + PagesOf(File[file][k + 1])
<1>1. L \in Nat /\ \A k \in 1 .. L : PagesOf(File[file][k]) \in Nat
  BY SegmentsAre
<1>2. s[0] = 0
  <2>1. 0 \in 0 .. L
    BY <1>1, SMT
  <2> QED BY <2>1 DEF IsSums
<1>3. ASSUME NEW k \in 0 .. L - 1 PROVE s[k + 1] = s[k] + PagesOf(File[file][k + 1])
  <2>1. k + 1 \in 0 .. L /\ k + 1 # 0 /\ (k + 1) - 1 = k
    BY <1>1, SMT
  <2> QED BY <2>1 DEF IsSums
<1>4. PICK w : w = [k \in 1 .. L |-> PagesOf(File[file][k])]
  OBVIOUS
<1>5. w \in [1 .. L -> Nat]
  BY <1>1, <1>4
<1>6. \A k \in 0 .. L - 1 : s[k + 1] = s[k] + w[k + 1]
  <2> TAKE k \in 0 .. L - 1
  <2>1. k + 1 \in 1 .. L
    BY <1>1, SMT
  <2> QED BY <1>3, <1>4, <2>1
<1>7. Bounded(s, L)
  <2>1. AddUp(s, w, L)
    BY <1>2, <1>6 DEF AddUp
  <2> QED BY <1>1, <1>5, <2>1, SumsOfNumbers
<1> QED BY <1>2, <1>3, <1>7 DEF Bounded

\* The whole file.
LEMMA FileLoaded ==
    ASSUME NEW file \in DOMAIN File, NEW q \in Proc, NEW m, IsMemory(m),
           Cardinality(FreeFrames(m)) >= PagesOfFile(file),
           NEW r, r = loadFile(m, q, file)
    PROVE  Loading(r, m, q, file, Len(File[file]) + 1, 0, 0)
<1>1. PICK L : L = Len(File[file])
  OBVIOUS
<1>2. L \in Nat /\ Segments(file) = 1 .. L
  BY <1>1, SegmentsAre DEF Segments
<1>3. PICK s : IsSums(s, L, file) /\ PagesOfFile(file) = s[L]
  BY <1>1, <1>2, SumsAre
<1>4. /\ s[0] = 0
      /\ \A k \in 0 .. L : s[k] \in Nat /\ s[k] <= s[L]
      /\ \A k \in 0 .. L - 1 : s[k + 1] = s[k] + PagesOf(File[file][k + 1])
  BY <1>1, <1>3, SumsGrow
<1>5. PICK f : IsLoads(f, L, m, q, file) /\ loadFile(m, q, file) = f[L]
  BY <1>1, <1>2, LoadsAre
<1>6. PICK total : total = s[L]
  OBVIOUS
<1>7. total \in Nat
  <2>1. L \in 0 .. L
    BY <1>2, SMT
  <2> QED BY <1>4, <1>6, <2>1
<1> DEFINE T == {k \in 0 .. L : Loading(f[k], m, q, file, k + 1, 0, total - s[k])}
<1>8. 0 \in T
  <2>1. f[0] = m /\ 0 \in 0 .. L /\ 0 + 1 = 1 /\ total - s[0] = total
    BY <1>2, <1>4, <1>5, <1>7, SMT DEF IsLoads
  <2>2. New(m, m, q) = {}
    BY DEF New
  <2>3. \A j \in Segments(file) : \A i \in Pages(file, j) : ~Before(j, i, 1, 0)
    <3> TAKE j \in Segments(file)
    <3> TAKE i \in Pages(file, j)
    <3>1. PICK x : x = PagesOf(File[file][j])
      OBVIOUS
    <3>2. x \in Nat /\ i \in 0 .. x - 1 /\ j \in 1 .. L
      BY <1>1, <1>2, <3>1, SegmentsAre DEF Pages
    <3> QED BY <1>2, <3>2, SMT DEF Before
  <2>4. Loading(m, m, q, file, 1, 0, total)
    BY <1>3, <1>6, <2>2, <2>3 DEF Loading
  <2> QED BY <2>1, <2>4
<1>9. ASSUME NEW k \in 0 .. L - 1, k \in T PROVE k + 1 \in T
  <2>1. k + 1 \in 1 .. L /\ k + 1 \in 0 .. L /\ k + 1 # 0 /\ (k + 1) - 1 = k /\ k \in 0 .. L
    BY <1>2, SMT
  <2>2. PICK g, h, d : g = f[k] /\ h = f[k + 1] /\ d = k + 1
    OBVIOUS
  <2>3. h = map_elf_file(g, q, file, d)
    BY <1>5, <2>1, <2>2 DEF IsLoads
  <2>4. PICK x, y, u : x = s[k] /\ y = PagesOf(File[file][d]) /\ u = s[d]
    OBVIOUS
  <2>5. x \in Nat /\ y \in Nat /\ u = x + y /\ u <= total
    <3>1. d \in 1 .. Len(File[file])
      BY <1>1, <2>1, <2>2
    <3>2. y \in Nat
      BY <2>4, <3>1, SegmentsAre
    <3>3. s[k + 1] = s[k] + PagesOf(File[file][k + 1]) /\ s[k + 1] <= s[L] /\ s[k] \in Nat
      BY <1>4, <2>1
    <3> QED BY <1>6, <2>2, <2>4, <3>2, <3>3
  <2>6. PICK more : more = total - x
    OBVIOUS
  <2>7. more \in Nat /\ more >= y /\ total - u = more - y
    BY <1>7, <2>5, <2>6, SMT
  <2>8. Loading(g, m, q, file, d, 0, more)
    BY <1>9, <2>2, <2>4, <2>6
  <2>9. d \in Segments(file)
    BY <1>2, <2>1, <2>2
  <2>10. Loading(h, m, q, file, d + 1, 0, more - y)
    BY <2>3, <2>4, <2>7, <2>8, <2>9, SegmentLoaded
  <2> QED BY <2>1, <2>2, <2>4, <2>7, <2>10
<1> HIDE DEF T
<1>10. \A k \in 0 .. L : k \in T
  BY <1>2, <1>8, <1>9, Induction
<1>11. L \in 0 .. L /\ total - s[L] = 0
  BY <1>2, <1>6, <1>7, SMT
<1>12. L \in T
  BY <1>10, <1>11
<1>13. Loading(f[L], m, q, file, L + 1, 0, total - s[L])
  BY <1>12 DEF T
<1> QED BY <1>1, <1>5, <1>11, <1>13

-------------------------------------------------------------------------------
(* Every program has the image of its file. *)

\* T are the pages of this file, each once, and their contents those of the file.
HasImage(T, C, file) ==
    /\ \A e \in T : \E j \in Segments(file) : \E i \in Pages(file, j) : IsCopied(e, C, file, j, i)
    /\ \A j \in Segments(file) : \A i \in Pages(file, j) : \E e \in T : e.page = File[file][j].page + i
    /\ \A d, e \in T : d.page = e.page => d = e

\* No frame is in both tables.
FramesApart(S, T) == \A d \in S, e \in T : d.frame # e.frame

\* After loadFile() the new pages are the image.
LEMMA LoadedImage ==
    ASSUME NEW file \in DOMAIN File, NEW q, NEW m, NEW r,
           Loading(r, m, q, file, Len(File[file]) + 1, 0, 0)
    PROVE  HasImage(New(r, m, q), r.content, file)
<1>1. \A j \in Segments(file) : \A i \in Pages(file, j) : Before(j, i, Len(File[file]) + 1, 0)
  <2> TAKE j \in Segments(file)
  <2>1. PICK L : L = Len(File[file])
    OBVIOUS
  <2>2. L \in Nat /\ j \in 1 .. L
    BY <2>1, SegmentsAre DEF Segments
  <2>3. j < L + 1
    BY <2>2, SMT
  <2> QED BY <2>1, <2>3 DEF Before
<1> QED BY <1>1 DEF Loading, HasImage

\* An image stays while its frames do.
LEMMA ImageStays ==
    ASSUME NEW T, NEW C, NEW D, NEW file, HasImage(T, C, file), \A e \in T : D[e.frame] = C[e.frame]
    PROVE  HasImage(T, D, file)
  BY DEF HasImage, IsCopied

\* There are as many pages as the segment needs.
LEMMA PagesCounted ==
    ASSUME NEW file \in DOMAIN File, NEW k \in Segments(file),
           NEW T \in SUBSET PageRecord, NEW C, HasImage(T, C, file),
           NEW a, a = File[file][k].page, NEW P, P = PagesOf(File[file][k])
    PROVE  Cardinality({e \in T : e.page \in a .. (a + P - 1)}) = P
<1>1. a \in Nat /\ P \in Nat
  BY SegmentsAre DEF Segments
<1> DEFINE S == {e \in T : e.page \in a .. (a + P - 1)}
           b == [i \in 1 .. P |-> CHOOSE e \in T : e.page = a + (i - 1)]
<1>2. ASSUME NEW i \in 1 .. P PROVE b[i] \in S /\ b[i].page = a + (i - 1)
  <2>1. i - 1 \in Pages(file, k) /\ a + (i - 1) \in a .. (a + P - 1)
    BY <1>1, SMT DEF Pages
  <2>2. \E e \in T : e.page = a + (i - 1)
    BY <2>1 DEF HasImage
  <2>3. b[i] \in T /\ b[i].page = a + (i - 1)
    BY <2>2
  <2> QED BY <2>1, <2>3
<1>3. b \in [1 .. P -> S]
  <2>1. b = [i \in 1 .. P |-> b[i]]
    OBVIOUS
  <2> HIDE DEF b, S
  <2> QED BY <1>2, <2>1
<1>4. \A i, j \in 1 .. P : b[i] = b[j] => i = j
  <2> TAKE i \in 1 .. P
  <2> TAKE j \in 1 .. P
  <2> HAVE b[i] = b[j]
  <2>1. b[i].page = a + (i - 1) /\ b[j].page = a + (j - 1)
    BY <1>2
  <2>2. a + (i - 1) = a + (j - 1)
    BY <2>1
  <2> QED BY <1>1, <2>2, SMT
<1>5. ASSUME NEW e \in S PROVE \E i \in 1 .. P : b[i] = e
  <2>1. PICK i : i = e.page - a + 1
    OBVIOUS
  <2>2. i \in 1 .. P /\ a + (i - 1) = e.page
    BY <1>1, <2>1, SMT
  <2>3. b[i] \in T /\ b[i].page = e.page
    BY <1>2, <2>2
  <2> HIDE DEF b
  <2>4. b[i] = e
    BY <2>3 DEF HasImage
  <2> QED BY <2>2, <2>4
<1> HIDE DEF b, S
<1>6. DOMAIN b = 1 .. P
  BY <1>3
<1>7. b \in Bijection(1 .. P, S)
  BY <1>3, <1>4, <1>5, <1>6 DEF Bijection, Injection, Surjection, IsInjective
<1>8. ExistsBijection(1 .. P, S)
  BY <1>7 DEF ExistsBijection
<1>9. IsFiniteSet(1 .. P) /\ Cardinality(1 .. P) = P
  <2>1. 1 \in Int /\ P \in Int
    BY <1>1
  <2>2. IsFiniteSet(1 .. P) /\ Cardinality(1 .. P) = IF 1 > P THEN 0 ELSE P - 1 + 1
    BY <2>1, FS_Interval
  <2> QED BY <1>1, <2>2, SMT
<1>10. Cardinality(S) = Cardinality(1 .. P)
  BY <1>8, <1>9, FS_Bijection
<1> QED BY <1>9, <1>10 DEF S

\* These are the images that ImagesAreIntact speaks of.
LEMMA ImagesMean ==
    ASSUME \A p \in live : /\ table[p] \in SUBSET PageRecord
                           /\ running[p] # None =>
                                running[p] \in DOMAIN File
                                        /\ HasImage(table[p], content, running[p])
    PROVE  ImagesAreIntact
<1>1. ASSUME NEW p \in live, running[p] # None, NEW file, file = running[p]
      PROVE  /\ \A k \in DOMAIN File[file] :
                  Cardinality({e \in table[p] : e.page \in File[file][k].page ..
                     (File[file][k].page + PagesOf(File[file][k]) - 1)}) = PagesOf(File[file][k])
             /\ \A e \in table[p] : \E k \in DOMAIN File[file] :
                  /\ e.page \in File[file][k].page .. (File[file][k].page + PagesOf(File[file][k]) - 1)
                  /\ content[e.frame] = [c \in Cell |->
                        IF (e.page - File[file][k].page) * PageSize + c < File[file][k].filesz
                          THEN <<file, HeaderSize * (File[file][k].offset
                                    + (e.page - File[file][k].page) * PageSize) + c>>
                          ELSE Zero]
  <2>1. file \in DOMAIN File /\ HasImage(table[p], content, file) /\ table[p] \in SUBSET PageRecord
    BY <1>1
  <2>2. DOMAIN File[file] = Segments(file)
    BY <2>1, SegmentsAre DEF Segments
  <2>3. ASSUME NEW k \in Segments(file)
        PROVE  Cardinality({e \in table[p] : e.page \in File[file][k].page ..
                  (File[file][k].page + PagesOf(File[file][k]) - 1)}) = PagesOf(File[file][k])
    BY <2>1, PagesCounted
  <2>4. ASSUME NEW e \in table[p]
        PROVE  \E k \in Segments(file) :
                  /\ e.page \in File[file][k].page .. (File[file][k].page + PagesOf(File[file][k]) - 1)
                  /\ content[e.frame] = [c \in Cell |->
                        IF (e.page - File[file][k].page) * PageSize + c < File[file][k].filesz
                          THEN <<file, HeaderSize * (File[file][k].offset
                                    + (e.page - File[file][k].page) * PageSize) + c>>
                          ELSE Zero]
    <3>1. PICK j \in Segments(file) : \E i \in Pages(file, j) : IsCopied(e, content, file, j, i)
      BY <2>1 DEF HasImage
    <3>2. PICK i \in Pages(file, j) : IsCopied(e, content, file, j, i)
      BY <3>1
    <3>3. PICK a, P, x : a = File[file][j].page /\ P = PagesOf(File[file][j]) /\ x = e.page
      OBVIOUS
    <3>4. a \in Nat /\ P \in Nat /\ i \in 0 .. P - 1 /\ x = a + i
      BY <2>1, <3>2, <3>3, SegmentsAre DEF Segments, Pages, IsCopied
    <3>5. x \in a .. (a + P - 1) /\ x - a = i
      BY <3>4, SMT
    <3>6. content[e.frame] = PageOf(file, j, x - a)
      BY <3>2, <3>5 DEF IsCopied
    <3> QED BY <3>3, <3>5, <3>6, Zenon DEF PageOf
  <2> QED BY <2>2, <2>3, <2>4
<1> QED BY <1>1, Zenon DEF ImagesAreIntact

\* The pages of two processes have no frame in common, but a child that has not
\* called exec() yet has those of its parent.  Each has the image of its file.
ImageInv ==
    /\ ChildrenInv
    /\ table \in [Proc -> SUBSET PageRecord] /\ IsContent(content)
    /\ running \in [Proc -> DOMAIN File \cup {None}]
    /\ \A q \in forked : table[q] = table[parent[q]]
    /\ \A p, r \in live \ forked : p # r => FramesApart(table[p], table[r])
    /\ \A p \in live : running[p] # None => HasImage(table[p], content, running[p])

LEMMA ImageInit == ExecInit => ImageInv
<1> SUFFICES ASSUME ExecInit PROVE ImageInv
  OBVIOUS
<1>1. /\ ChildrenInv /\ live = {Shell} /\ forked = {} /\ Shell \in Proc
      /\ \A p \in Proc : running[p] = None /\ table[p] = {}
  BY ChildrenInit, ExecAssumption DEF ExecInit
<1>2. table \in [Proc -> SUBSET PageRecord] /\ running \in [Proc -> DOMAIN File \cup {None}]
  BY DEF ExecInit
<1>3. IsContent(content)
  BY DEF ExecInit, IsContent
<1> QED BY <1>1, <1>2, <1>3 DEF ImageInv, FramesApart

\* fork() ...
LEMMA ImageFork ==
    ASSUME ImageInv, NEW p \in Proc, NEW q \in Proc, fork(p, q)
    PROVE  ImageInv'
<1>1. /\ p \in live \ forked /\ q \notin live /\ parent' = [parent EXCEPT ![q] = p]
      /\ live' = live \cup {q} /\ forked' = forked \cup {q} /\ content' = content
      /\ running' = [running EXCEPT ![q] = running[p]]
      /\ table' = [table EXCEPT ![q] = table[p]]
      /\ ChildrenInv'
  BY ChildrenFork DEF fork, ImageInv
<1>2. /\ live \subseteq Proc /\ forked \subseteq live /\ parent \in [Proc -> Proc \cup {None}]
      /\ table \in [Proc -> SUBSET PageRecord] /\ IsContent(content)
      /\ running \in [Proc -> DOMAIN File \cup {None}]
  BY DEF ImageInv, ChildrenInv, forked
<1>3. /\ \A r \in live : table'[r] = table[r] /\ running'[r] = running[r]
      /\ table'[q] = table[p] /\ running'[q] = running[p]
  BY <1>1, <1>2
<1>4. /\ table' \in [Proc -> SUBSET PageRecord] /\ IsContent(content')
      /\ running' \in [Proc -> DOMAIN File \cup {None}]
  BY <1>1, <1>2
<1>5. \A r \in live' : \E s \in live : table'[r] = table[s] /\ running'[r] = running[s]
  BY <1>1, <1>3
<1>6. \A r \in forked' : table'[r] = table'[parent'[r]]
  <2> TAKE r \in forked'
  <2>1. CASE r = q
    <3>1. parent'[r] = p
      BY <1>1, <1>2, <2>1
    <3> QED BY <1>1, <1>3, <2>1, <3>1
  <2>2. CASE r # q
    <3>1. r \in forked /\ parent'[r] = parent[r] /\ parent[r] \in live
      BY <1>1, <1>2, <2>2 DEF ImageInv, ChildrenInv, forked
    <3>2. table[r] = table[parent[r]]
      BY <3>1 DEF ImageInv
    <3> QED BY <1>2, <1>3, <3>1, <3>2
  <2> QED BY <2>1, <2>2
<1>7. live' \ forked' = live \ forked
  BY <1>1, <1>2
<1>8. \A r, s \in live' \ forked' : r # s => FramesApart(table'[r], table'[s])
  BY <1>3, <1>7 DEF ImageInv
<1>9. \A r \in live' : running'[r] # None => HasImage(table'[r], content', running'[r])
  BY <1>1, <1>5 DEF ImageInv
<1> QED BY <1>1, <1>4, <1>6, <1>8, <1>9 DEF ImageInv

\* ... exec() ...
LEMMA ImageExec ==
    ASSUME ImageInv, NEW q \in Proc, NEW line, exec(q, line)
    PROVE  ImageInv'
<1>1. PICK file, m, r : /\ file = parse_command(line)[1]
                        /\ m = [table |-> table, content |-> content, last |-> 0]
                        /\ r = loadFile(m, q, file)
  OBVIOUS
<1>2. /\ live \subseteq Proc /\ forked \subseteq live /\ parent \in [Proc -> Proc \cup {None}]
      /\ table \in [Proc -> SUBSET PageRecord] /\ IsContent(content)
      /\ running \in [Proc -> DOMAIN File \cup {None}]
  BY DEF ImageInv, ChildrenInv, forked
<1>3. /\ q \in forked /\ file \in DOMAIN File /\ live' = live /\ forked' = forked \ {q}
      /\ Cardinality(FreeFrames([table |-> table])) >= PagesOfFile(file)
      /\ table' = [r.table EXCEPT ![q] = r.table[q] \ table[q]]
      /\ content' = r.content /\ running' = [running EXCEPT ![q] = file]
      /\ parent' = [parent EXCEPT ![q] = None] /\ ChildrenInv'
  <2>1. ChildrenInv' /\ forked' = forked \ {q} /\ q \in forked
    BY ChildrenExec DEF ImageInv
  <2> QED BY <1>1, <2>1 DEF exec
<1>4. m.table = table /\ m.content = content
  BY <1>1
<1>5. FreeFrames(m) = FreeFrames([table |-> table])
  BY <1>4 DEF FreeFrames
<1>6. IsMemory(m)
  BY <1>2, <1>4 DEF IsMemory
<1>7. Loading(r, m, q, file, Len(File[file]) + 1, 0, 0)
  BY <1>1, <1>3, <1>5, <1>6, FileLoaded
<1>8. HasImage(New(r, m, q), r.content, file)
  BY <1>3, <1>7, LoadedImage
<1>9. /\ r.table \in [Proc -> SUBSET PageRecord] /\ IsContent(r.content)
      /\ \A p \in Proc : p # q => r.table[p] = table[p]
      /\ \A f \in Frame : f \notin FreeFrames(m) => r.content[f] = content[f]
      /\ \A e \in New(r, m, q) : e.frame \in FreeFrames(m)
  BY <1>4, <1>7 DEF Loading, IsMemory
<1>10. table'[q] = New(r, m, q) /\ \A p \in Proc : p # q => table'[p] = table[p]
  BY <1>3, <1>4, <1>9 DEF New
<1>11. running'[q] = file /\ \A p \in Proc : p # q => running'[p] = running[p]
  BY <1>2, <1>3
<1>12. \A p \in Proc : \A e \in table[p] : e.frame \in Frame /\ e.frame \notin FreeFrames(m)
  BY <1>2, <1>4 DEF FreeFrames, PageRecord
<1>13. \A p \in Proc : p # q => FramesApart(table'[p], table'[q])
        /\ FramesApart(table'[q], table'[p])
  BY <1>9, <1>10, <1>12 DEF FramesApart
<1>14. /\ table' \in [Proc -> SUBSET PageRecord] /\ IsContent(content')
       /\ running' \in [Proc -> DOMAIN File \cup {None}]
  <2>1. r.table[q] \ table[q] \in SUBSET PageRecord
    BY <1>9
  <2> QED BY <1>2, <1>3, <1>9, <2>1
<1>15. \A p \in forked' : table'[p] = table'[parent'[p]]
  <2> TAKE p \in forked'
  <2>1. p \in forked /\ p # q
    BY <1>3
  <2>2. parent'[p] = parent[p] /\ parent[p] \in Proc /\ parent[p] # q /\ p \in Proc
    BY <1>2, <1>3, <2>1 DEF ImageInv, ChildrenInv, forked
  <2>3. table[p] = table[parent[p]]
    BY <2>1 DEF ImageInv
  <2> QED BY <1>10, <2>1, <2>2, <2>3
<1>16. \A p, s \in live' \ forked' : p # s => FramesApart(table'[p], table'[s])
  <2> TAKE p \in live' \ forked'
  <2> TAKE s \in live' \ forked'
  <2> HAVE p # s
  <2>1. p \in Proc /\ s \in Proc /\ (p # q => p \in live \ forked) /\ (s # q => s \in live \ forked)
    BY <1>2, <1>3
  <2>2. CASE p # q /\ s # q
    BY <1>10, <2>1, <2>2 DEF ImageInv
  <2> QED BY <1>13, <2>1, <2>2
<1>17. \A p \in live' : running'[p] # None => HasImage(table'[p], content', running'[p])
  <2> TAKE p \in live'
  <2> HAVE running'[p] # None
  <2>1. p \in live /\ p \in Proc
    BY <1>2, <1>3
  <2>2. CASE p = q
    BY <1>3, <1>8, <1>10, <1>11, <2>2
  <2>3. CASE p # q
    <3>1. running[p] # None /\ running'[p] = running[p] /\ table'[p] = table[p]
      BY <1>10, <1>11, <2>1, <2>3
    <3>2. HasImage(table[p], content, running[p])
      BY <2>1, <3>1 DEF ImageInv
    <3>3. \A e \in table[p] : r.content[e.frame] = content[e.frame]
      BY <1>9, <1>12, <2>1
    <3>4. HasImage(table[p], r.content, running[p])
      BY <3>2, <3>3, ImageStays
    <3> QED BY <1>3, <3>1, <3>4
  <2> QED BY <2>2, <2>3
<1> QED BY <1>3, <1>14, <1>15, <1>16, <1>17 DEF ImageInv

\* ... and exit() keep it.
LEMMA ImageExit ==
    ASSUME ImageInv, NEW q \in Proc, exit(q)
    PROVE  ImageInv'
<1>1. /\ q \in live \ forked /\ \A p \in forked : parent[p] # q
      /\ ChildrenInv' /\ parent' = parent
      /\ live' = live \ {q} /\ forked' = forked
      /\ running' = [running EXCEPT ![q] = None] /\ table' = [table EXCEPT ![q] = {}]
      /\ content' = [f \in Frame |-> IF \E e \in table[q] : e.frame = f
                                     THEN [c \in Cell |-> Zero] ELSE content[f]]
  <2>1. ChildrenInv' /\ forked' = forked
    BY ChildrenExit DEF ImageInv
  <2> QED BY <2>1 DEF exit
<1>2. /\ live \subseteq Proc /\ forked \subseteq live
      /\ table \in [Proc -> SUBSET PageRecord] /\ IsContent(content)
      /\ running \in [Proc -> DOMAIN File \cup {None}]
  BY DEF ImageInv, ChildrenInv, forked
<1>3. \A p \in live' : p \in live /\ p # q /\ table'[p] = table[p] /\ running'[p] = running[p]
  BY <1>1, <1>2
<1>4. \A p \in live' : FramesApart(table[p], table[q])
  <2> TAKE p \in live'
  <2>1. CASE p \in forked
    <3>1. parent[p] \in live \ forked /\ parent[p] # q
      BY <1>1, <1>2, <2>1 DEF ImageInv, ChildrenInv, forked
    <3>2. table[p] = table[parent[p]]
      BY <2>1 DEF ImageInv
    <3> QED BY <1>1, <3>1, <3>2 DEF ImageInv
  <2>2. CASE p \notin forked
    BY <1>1, <1>3, <2>2 DEF ImageInv
  <2> QED BY <2>1, <2>2
<1>5. \A p \in live' : \A e \in table[p] : content'[e.frame] = content[e.frame]
  <2> TAKE p \in live'
  <2> TAKE e \in table[p]
  <2>1. e.frame \in Frame
    BY <1>2, <1>3 DEF PageRecord
  <2>2. ~\E d \in table[q] : d.frame = e.frame
    BY <1>4 DEF FramesApart
  <2> QED BY <1>1, <2>1, <2>2
<1>6. IsContent(content')
  <2>1. \A f \in Frame : content[f] = [c \in Cell |-> content[f][c]]
    BY <1>2, Zenon DEF IsContent
  <2>2. \A f \in Frame : content'[f] = [c \in Cell |-> content'[f][c]]
    <3> TAKE f \in Frame
    <3>1. CASE \E e \in table[q] : e.frame = f
      BY <1>1, <3>1
    <3>2. CASE ~\E e \in table[q] : e.frame = f
      BY <1>1, <2>1, <3>2
    <3> QED BY <3>1, <3>2
  <2>3. content' = [f \in Frame |-> content'[f]]
    BY <1>1
  <2> QED BY <2>2, <2>3 DEF IsContent
<1>7. /\ table' \in [Proc -> SUBSET PageRecord]
      /\ running' \in [Proc -> DOMAIN File \cup {None}]
  BY <1>1, <1>2
<1>8. \A p \in forked' : table'[p] = table'[parent'[p]]
  <2> TAKE p \in forked'
  <2>1. p \in forked /\ p # q /\ p \in live /\ p \in live'
    BY <1>1, <1>2
  <2>2. parent[p] \in live /\ parent[p] # q
    BY <1>1, <1>2, <2>1 DEF ImageInv, ChildrenInv, forked
  <2>3. table[p] = table[parent[p]]
    BY <2>1 DEF ImageInv
  <2> QED BY <1>1, <1>3, <2>1, <2>2, <2>3
<1>9. \A p, s \in live' \ forked' : p # s => FramesApart(table'[p], table'[s])
  BY <1>1, <1>3 DEF ImageInv
<1>10. \A p \in live' : running'[p] # None => HasImage(table'[p], content', running'[p])
  <2> TAKE p \in live'
  <2> HAVE running'[p] # None
  <2>1. HasImage(table[p], content, running[p])
    BY <1>3 DEF ImageInv
  <2>2. \A e \in table[p] : content'[e.frame] = content[e.frame]
    BY <1>5
  <2>3. PICK D : D = content'
    OBVIOUS
  <2>4. HasImage(table[p], D, running[p])
    BY <2>1, <2>2, <2>3, ImageStays
  <2> QED BY <1>3, <2>3, <2>4
<1> QED BY <1>1, <1>6, <1>7, <1>8, <1>9, <1>10 DEF ImageInv

\* Whatever was loaded and ended before: a program has the pages of its file, with
\* what was copied there and zeros behind it, and no other program changes them
\* (loadFile() and map_elf_file(), tarfs.c; exec() and exit(), task.c).
THEOREM ImagesStayIntact == ExecSpec => []ImagesAreIntact
<1>1. ExecInit => ImageInv
  BY ImageInit
<1>2. ImageInv /\ [ExecNext]_execVars => ImageInv'
  <2> SUFFICES ASSUME ImageInv, [ExecNext]_execVars PROVE ImageInv'
    OBVIOUS
  <2>1. ASSUME live' = live, parent' = parent, image' = image PROVE ImageInv'
    <3>1. running' = running /\ table' = table /\ content' = content
      BY <2>1 DEF image
    <3>2. ChildrenInv' /\ forked' = forked
      BY <2>1, ChildrenSame DEF ImageInv
    <3> QED BY <2>1, <3>1, <3>2 DEF ImageInv
  <2>2. CASE UNCHANGED execVars
    BY <2>1, <2>2 DEF execVars
  <2>3. ASSUME NEW p \in Proc, NEW n \in Name, NEW v \in Value, setenv(p, n, v) PROVE ImageInv'
    BY <2>1, <2>3 DEF setenv
  <2>4. ASSUME NEW p \in Proc, NEW q \in Proc, fork(p, q) PROVE ImageInv'
    BY <2>4, ImageFork
  <2>5. ASSUME NEW q \in Proc, NEW line, exec(q, line) PROVE ImageInv'
    BY <2>5, ImageExec
  <2>6. ASSUME NEW q \in Proc, exit(q) PROVE ImageInv'
    BY <2>6, ImageExit
  <2> QED BY <2>2, <2>3, <2>4, <2>5, <2>6 DEF ExecNext
<1>3. ImageInv => ImagesAreIntact
  <2> SUFFICES ASSUME ImageInv PROVE ImagesAreIntact
    OBVIOUS
  <2>1. ASSUME NEW p \in live
        PROVE  /\ table[p] \in SUBSET PageRecord
               /\ running[p] # None =>
                    running[p] \in DOMAIN File /\ HasImage(table[p], content, running[p])
    <3>1. p \in Proc
      BY DEF ImageInv, ChildrenInv
    <3> QED BY <3>1 DEF ImageInv
  <2> QED BY <2>1, ImagesMean
<1> QED BY <1>1, <1>2, <1>3, PTL DEF ExecSpec

-------------------------------------------------------------------------------
(* The page of arguments. *)

\* Characters, and the byte that ends a string; words have none of those.
Letters == STRING \cup {Nul}
IsWord(w) == w \in Seq(STRING) /\ \A l \in 1 .. Len(w) : w[l] # Nul

\* The string w is on the page from pos on.
Holds(P, pos, w) ==
    /\ pos \in Nat /\ pos + Len(w) + 1 <= Len(P)
    /\ \A l \in 1 .. Len(w) : P[pos + l] = w[l]
    /\ P[pos + Len(w) + 1] = Nul

\* There the program finds it.
LEMMA StringIs ==
    ASSUME NEW P \in Seq(Letters), NEW w, IsWord(w), NEW pos, Holds(P, pos, w)
    PROVE  StringAt(P, pos) = w
<1>1. PICK n, m : n = Len(w) /\ m = Len(P)
  OBVIOUS
<1>2. n \in Nat /\ m \in Nat /\ pos \in Nat /\ pos + n + 1 <= m /\ w \in Seq(STRING)
  BY <1>1 DEF IsWord, Holds
<1>3. /\ \A l \in 1 .. n : P[pos + l] = w[l] /\ w[l] # Nul
      /\ P[pos + n + 1] = Nul
  BY <1>1 DEF IsWord, Holds
<1> DEFINE ends == {x \in pos + 1 .. m : P[x] = Nul} \cup {m + 1}
<1>4. PICK e : e = pos + n + 1
  OBVIOUS
<1>5. e \in ends
  <2>1. e \in pos + 1 .. m
    BY <1>2, <1>4, SMT
  <2> QED BY <1>3, <1>4, <2>1
<1>6. \A x \in ends : e <= x
  <2> TAKE x \in ends
  <2>1. CASE x \in pos + 1 .. m /\ P[x] = Nul
    <3>1. ASSUME x < e PROVE FALSE
      <4>1. PICK l : l = x - pos
        OBVIOUS
      <4>2. l \in 1 .. n /\ pos + l = x
        BY <1>2, <1>4, <2>1, <3>1, <4>1, SMT
      <4> QED BY <1>3, <2>1, <4>2
    <3>2. x \in Int /\ e \in Int
      BY <1>2, <1>4, <2>1
    <3> QED BY <3>1, <3>2, SMT
  <2>2. CASE x = m + 1
    BY <1>2, <1>4, <2>2, SMT
  <2> QED BY <2>1, <2>2
<1>7. ends \in SUBSET Nat
  BY <1>2, SMT
<1> HIDE DEF ends
<1>8. PICK x : x = Min(ends)
  OBVIOUS
<1>9. x \in ends /\ \A y \in ends : x <= y
  BY <1>5, <1>7, <1>8, LeastNatural
<1>10. x = e
  <2>1. x <= e /\ e <= x /\ x \in Nat /\ e \in Nat
    BY <1>5, <1>6, <1>7, <1>9
  <2> QED BY <2>1, SMT
<1>11. StringAt(P, pos) = SubSeq(P, pos + 1, e - 1)
  BY <1>1, <1>8, <1>10 DEF StringAt, ends
<1>12. PICK a, b, v : a = pos + 1 /\ b = e - 1 /\ v = SubSeq(P, a, b)
  OBVIOUS
<1>13. a \in Int /\ b \in Int /\ b - a + 1 = n /\ (a <= b <=> 1 <= n)
  BY <1>2, <1>4, <1>12, SMT
<1>14. \A y \in a .. b : P[y] \in Letters
  <2> TAKE y \in a .. b
  <2>1. y \in 1 .. m
    BY <1>2, <1>4, <1>12, SMT
  <2> QED BY <1>1, <2>1
<1>15. v = [l \in 1 .. n |-> v[l]] /\ \A l \in 1 .. n : v[l] = P[a + l - 1]
  <2>1. Part(v, Letters, P, a, n)
    <3>1. n = b - a + 1
      BY <1>13
    <3> QED BY <1>2, <1>12, <1>13, <1>14, <3>1, PartIs
  <2> QED BY <2>1 DEF Part
<1>16. \A l \in 1 .. n : a + l - 1 = pos + l
  BY <1>2, <1>12, SMT
<1>17. w = [l \in 1 .. n |-> w[l]]
  BY <1>1, <1>2
<1>18. v = w
  BY <1>3, <1>15, <1>16, <1>17
<1> QED BY <1>11, <1>12, <1>18

\* u is s with t behind it.
Joined(u, S, s, t) ==
    /\ u \in Seq(S) /\ Len(u) = Len(s) + Len(t)
    /\ \A l \in 1 .. Len(s) : u[l] = s[l]
    /\ \A l \in 1 .. Len(t) : u[Len(s) + l] = t[l]

\* One sequence behind another.
LEMMA JoinedIs ==
    ASSUME NEW S, NEW s \in Seq(S), NEW t \in Seq(S), NEW u, u = s \o t
    PROVE  Joined(u, S, s, t)
<1>1. /\ u \in Seq(S) /\ Len(u) = Len(s) + Len(t)
      /\ \A l \in 1 .. Len(s) + Len(t) : u[l] = IF l <= Len(s) THEN s[l] ELSE t[l - Len(s)]
  BY ConcatProperties
<1>2. PICK n, m : n = Len(s) /\ m = Len(t)
  OBVIOUS
<1>3. n \in Nat /\ m \in Nat
  BY <1>2
<1>4. \A l \in 1 .. n + m : (l <= n => u[l] = s[l]) /\ (~(l <= n) => u[l] = t[l - n])
  BY <1>1, <1>2, Zenon
<1>5. \A l \in 1 .. n : l \in 1 .. n + m /\ l <= n
  BY <1>3, SMT
<1>6. \A l \in 1 .. m : n + l \in 1 .. n + m /\ ~(n + l <= n) /\ (n + l) - n = l
  BY <1>3, SMT
<1>7. \A l \in 1 .. n : u[l] = s[l]
  BY <1>4, <1>5
<1>8. \A l \in 1 .. m : u[n + l] = t[l]
  <2> TAKE l \in 1 .. m
  <2>1. PICK x : x = n + l
    OBVIOUS
  <2>2. x \in 1 .. n + m /\ ~(x <= n) /\ x - n = l
    BY <1>6, <2>1
  <2>3. u[x] = t[x - n]
    BY <1>4, <2>2
  <2> QED BY <2>1, <2>2, <2>3
<1> QED BY <1>1, <1>2, <1>7, <1>8 DEF Joined

\* An argument, or its first n characters, is put behind the others.
Pushed(r, p, arg, n) ==
    /\ n \in 0 .. Len(arg)
    /\ r.page \in Seq(Letters) /\ r.at \in Seq(Nat)
    /\ Len(r.page) = Len(p.page) + n + 1 /\ Len(r.at) = Len(p.at) + 1
    /\ \A l \in 1 .. Len(p.page) : r.page[l] = p.page[l]
    /\ Holds(r.page, Len(p.page), SubSeq(arg, 1, n))
    /\ r.at[1] = Len(p.page) /\ \A l \in 1 .. Len(p.at) : r.at[1 + l] = p.at[l]
    /\ Len(p.page) + Len(arg) <= ArgLimit => n = Len(arg)

LEMMA PushedIs ==
    ASSUME NEW p, p.page \in Seq(Letters), p.at \in Seq(Nat), NEW arg \in Seq(STRING),
           NEW r, r = PushArgument(arg, p)
    PROVE  \E n : Pushed(r, p, arg, n)
<1>1. PICK k, w, z : k = Len(p.page) /\ w = Len(arg) /\ z = ArgLimit - k
  OBVIOUS
<1>2. k \in Nat /\ w \in Nat /\ z \in Int /\ ArgLimit \in Nat
  BY <1>1, ExecAssumption
<1>3. PICK y : y = Max({0, z})
  OBVIOUS
<1>4. y \in Nat /\ y = IF 0 <= z THEN z ELSE 0
  <2>1. PICK o : o = 0
    OBVIOUS
  <2>2. o \in Int /\ z \in Int
    BY <1>2, <2>1
  <2>3. Max({o, z}) = IF o <= z THEN z ELSE o
    BY <2>2, TwoNumbers
  <2>4. y = IF o <= z THEN z ELSE o
    BY <1>3, <2>1, <2>3
  <2> QED BY <1>2, <2>1, <2>4, SMT
<1>5. PICK n : n = Min({w, y})
  OBVIOUS
<1>6. n = IF w <= y THEN w ELSE y
  <2>1. w \in Int /\ y \in Int
    BY <1>2, <1>4
  <2>2. Min({w, y}) = IF w <= y THEN w ELSE y
    BY <2>1, TwoNumbers
  <2> QED BY <1>5, <2>2
<1>7. n \in 0 .. w /\ n \in Nat /\ (k + w <= ArgLimit => n = w)
  BY <1>1, <1>2, <1>4, <1>6, SMT
<1>8. PICK kept, end, front, page : /\ kept = SubSeq(arg, 1, n) /\ end = <<Nul>>
                                    /\ front = p.page \o kept /\ page = front \o end
  OBVIOUS
<1>9. PICK first, at : first = <<k>> /\ at = first \o p.at
  OBVIOUS
<1>10. r.page = page /\ r.at = at
  BY <1>1, <1>3, <1>5, <1>8, <1>9 DEF PushArgument
<1>11. kept \in Seq(STRING) /\ Len(kept) = n
  <2>1. Begins(kept, STRING, arg, n)
    BY <1>1, <1>7, <1>8, BeginningIs
  <2> QED BY <2>1 DEF Begins
<1>12. kept \in Seq(Letters)
  BY <1>11 DEF Letters
<1>13. end \in Seq(Letters) /\ Len(end) = 1 /\ end[1] = Nul
  BY <1>8 DEF Letters
<1>14. Joined(front, Letters, p.page, kept)
  BY <1>8, <1>12, JoinedIs
<1>15. front \in Seq(Letters)
  BY <1>14 DEF Joined
<1>16. Joined(page, Letters, front, end)
  BY <1>8, <1>13, <1>15, JoinedIs
<1>17. /\ Len(front) = k + n
       /\ \A l \in 1 .. k : front[l] = p.page[l]
       /\ \A l \in 1 .. n : front[k + l] = kept[l]
  BY <1>1, <1>11, <1>14 DEF Joined
<1>18. PICK d : d = k + n
  OBVIOUS
<1>19. d \in Nat /\ 1 \in 1 .. 1
  BY <1>2, <1>7, <1>18, SMT
<1>20. /\ page \in Seq(Letters) /\ Len(page) = d + 1
       /\ \A l \in 1 .. d : page[l] = front[l]
       /\ page[d + 1] = Nul
  BY <1>13, <1>16, <1>17, <1>18, <1>19 DEF Joined
<1>21. \A l \in 1 .. k : page[l] = p.page[l]
  <2> TAKE l \in 1 .. k
  <2>1. l \in 1 .. d
    BY <1>2, <1>7, <1>18, SMT
  <2> QED BY <1>17, <1>20, <2>1
<1>22. \A l \in 1 .. n : page[k + l] = kept[l]
  <2> TAKE l \in 1 .. n
  <2>1. k + l \in 1 .. d
    BY <1>2, <1>7, <1>18, SMT
  <2> QED BY <1>17, <1>20, <2>1
<1>23. Len(page) = k + n + 1 /\ page[k + n + 1] = Nul /\ k + n + 1 <= Len(page)
  <2>1. PICK x : x = Len(page)
    OBVIOUS
  <2>2. x = k + n + 1 /\ k + n + 1 <= x
    BY <1>2, <1>7, <1>18, <1>20, <2>1, SMT
  <2> QED BY <1>18, <1>20, <2>1, <2>2
<1>24. Holds(page, k, kept)
  BY <1>2, <1>11, <1>22, <1>23 DEF Holds
<1>25. first \in Seq(Nat) /\ Len(first) = 1 /\ first[1] = k
  BY <1>2, <1>9
<1>26. Joined(at, Nat, first, p.at)
  BY <1>9, <1>25, JoinedIs
<1>27. at \in Seq(Nat) /\ at[1] = k /\ \A l \in 1 .. Len(p.at) : at[1 + l] = p.at[l]
  BY <1>19, <1>25, <1>26 DEF Joined
<1>28. Len(at) = Len(p.at) + 1
  <2>1. PICK x, v : x = Len(at) /\ v = Len(p.at)
    OBVIOUS
  <2>2. x = 1 + v /\ v \in Nat
    BY <1>25, <1>26, <2>1 DEF Joined
  <2> QED BY <2>1, <2>2, SMT
<1>29. Pushed(r, p, arg, n)
  BY <1>1, <1>7, <1>8, <1>10, <1>20, <1>21, <1>23, <1>24, <1>27, <1>28 DEF Pushed
<1> QED BY <1>29

\* The page after each argument.
ArePacked(f, L, args) ==
    f = [n \in 0 .. L |-> IF n = 0 THEN [page |-> <<>>, at |-> <<>>]
            ELSE PushArgument(args[Len(args) + 1 - n], f[n - 1])]

\* There is such a sequence, and PushArguments is its last.
LEMMA PackedAre ==
    ASSUME NEW args, Len(args) \in Nat
    PROVE  \E f : ArePacked(f, Len(args), args) /\ PushArguments(args) = f[Len(args)]
<1> DEFINE L == Len(args)
           T == {x \in 0 .. L : \E f : ArePacked(f, x, args)}
<1>1. 0 \in T
  <2>1. ArePacked([n \in 0 .. 0 |-> [page |-> <<>>, at |-> <<>>]], 0, args)
    BY SMT DEF ArePacked
  <2> QED BY <2>1
<1>2. ASSUME NEW l \in 0 .. L - 1, l \in T PROVE l + 1 \in T
  <2>1. PICK f : ArePacked(f, l, args)
    BY <1>2
  <2> DEFINE g == [n \in 0 .. l + 1 |-> IF n = 0 THEN [page |-> <<>>, at |-> <<>>]
          ELSE PushArgument(args[Len(args) + 1 - n], f[n - 1])]
  <2>2. ASSUME NEW n \in 0 .. l PROVE g[n] = f[n]
    <3>1. n \in 0 .. l + 1
      BY SMT
    <3>2. f[n] = IF n = 0 THEN [page |-> <<>>, at |-> <<>>]
            ELSE PushArgument(args[Len(args) + 1 - n], f[n - 1])
      BY <2>1 DEF ArePacked
    <3> QED BY <3>1, <3>2
  <2>3. ASSUME NEW n \in 0 .. l + 1
        PROVE  g[n] = IF n = 0 THEN [page |-> <<>>, at |-> <<>>]
                ELSE PushArgument(args[Len(args) + 1 - n], g[n - 1])
    <3>1. CASE n = 0
      BY <3>1
    <3>2. CASE n # 0
      <4>1. n - 1 \in 0 .. l
        BY <3>2, SMT
      <4>2. g[n - 1] = f[n - 1]
        BY <2>2, <4>1
      <4> QED BY <3>2, <4>2
    <3> QED BY <3>1, <3>2
  <2>4. g = [n \in 0 .. l + 1 |-> g[n]]
    OBVIOUS
  <2> HIDE DEF g
  <2>5. ArePacked(g, l + 1, args)
    BY <2>3, <2>4 DEF ArePacked
  <2>6. l + 1 \in 0 .. L
    BY SMT
  <2> QED BY <2>5, <2>6
<1> HIDE DEF T
<1>3. \A l \in 0 .. L : l \in T
  BY <1>1, <1>2, Induction
<1>4. L \in T
  BY <1>3, SMT
<1>5. \E f : ArePacked(f, L, args)
  BY <1>4 DEF T
<1> DEFINE h == CHOOSE f : ArePacked(f, L, args)
<1>6. ArePacked(h, L, args)
  BY <1>5
<1>7. PushArguments(args) = h[L]
  BY DEF PushArguments, ArePacked
<1> QED BY <1>6, <1>7

\* The bytes of the last arguments.
AreBytes(f, L, args) ==
    f = [n \in 0 .. L |-> IF n = 0 THEN 0 ELSE f[n - 1] + Len(args[Len(args) + 1 - n]) + 1]

\* There are such sums, and the last is that of all.
LEMMA BytesAre ==
    ASSUME NEW args, Len(args) \in Nat
    PROVE  \E f : AreBytes(f, Len(args), args) /\ BytesOf(args) = f[Len(args)]
<1> DEFINE L == Len(args)
           T == {x \in 0 .. L : \E f : AreBytes(f, x, args)}
<1>1. 0 \in T
  <2>1. AreBytes([n \in 0 .. 0 |-> 0], 0, args)
    BY SMT DEF AreBytes
  <2> QED BY <2>1
<1>2. ASSUME NEW l \in 0 .. L - 1, l \in T PROVE l + 1 \in T
  <2>1. PICK f : AreBytes(f, l, args)
    BY <1>2
  <2> DEFINE g == [n \in 0 .. l + 1 |-> IF n = 0 THEN 0
          ELSE f[n - 1] + Len(args[Len(args) + 1 - n]) + 1]
  <2>2. ASSUME NEW n \in 0 .. l PROVE g[n] = f[n]
    <3>1. n \in 0 .. l + 1
      BY SMT
    <3>2. f[n] = IF n = 0 THEN 0 ELSE f[n - 1] + Len(args[Len(args) + 1 - n]) + 1
      BY <2>1 DEF AreBytes
    <3> QED BY <3>1, <3>2
  <2>3. ASSUME NEW n \in 0 .. l + 1
        PROVE  g[n] = IF n = 0 THEN 0 ELSE g[n - 1] + Len(args[Len(args) + 1 - n]) + 1
    <3>1. CASE n = 0
      BY <3>1
    <3>2. CASE n # 0
      <4>1. n - 1 \in 0 .. l
        BY <3>2, SMT
      <4>2. g[n - 1] = f[n - 1]
        BY <2>2, <4>1
      <4> QED BY <3>2, <4>2
    <3> QED BY <3>1, <3>2
  <2>4. g = [n \in 0 .. l + 1 |-> g[n]]
    OBVIOUS
  <2> HIDE DEF g
  <2>5. AreBytes(g, l + 1, args)
    BY <2>3, <2>4 DEF AreBytes
  <2>6. l + 1 \in 0 .. L
    BY SMT
  <2> QED BY <2>5, <2>6
<1> HIDE DEF T
<1>3. \A l \in 0 .. L : l \in T
  BY <1>1, <1>2, Induction
<1>4. L \in T
  BY <1>3, SMT
<1>5. \E f : AreBytes(f, L, args)
  BY <1>4 DEF T
<1> DEFINE h == CHOOSE f : AreBytes(f, L, args)
<1>6. AreBytes(h, L, args)
  BY <1>5
<1>7. BytesOf(args) = h[L]
  BY DEF BytesOf, AreBytes
<1> QED BY <1>6, <1>7

\* What is on the page stays there.
LEMMA HoldsStays ==
    ASSUME NEW P, NEW Q, P \in Seq(Letters), Q \in Seq(Letters), Len(P) <= Len(Q),
           \A l \in 1 .. Len(P) : Q[l] = P[l],
           NEW pos, NEW w \in Seq(STRING), Holds(P, pos, w)
    PROVE  Holds(Q, pos, w)
<1>1. PICK m, n, x : m = Len(P) /\ n = Len(Q) /\ x = Len(w)
  OBVIOUS
<1>2. m \in Nat /\ n \in Nat /\ x \in Nat /\ pos \in Nat /\ pos + x + 1 <= m /\ m <= n
  BY <1>1 DEF Holds
<1>3. \A l \in 1 .. x : pos + l \in 1 .. m
  BY <1>2, SMT
<1>4. pos + x + 1 \in 1 .. m /\ pos + x + 1 <= n
  BY <1>2, SMT
<1>5. \A l \in 1 .. x : Q[pos + l] = w[l]
  BY <1>1, <1>3 DEF Holds
<1>6. Q[pos + x + 1] = Nul
  BY <1>1, <1>4 DEF Holds
<1> QED BY <1>1, <1>2, <1>4, <1>5, <1>6 DEF Holds

\* The page holds the last k arguments, each or its beginning, in b bytes at most.
Packing(p, args, k, b, fits) ==
    /\ p.page \in Seq(Letters) /\ p.at \in Seq(Nat) /\ Len(p.at) = k /\ Len(p.page) <= b
    /\ \A a \in 1 .. k : \E n \in 0 .. Len(args[Len(args) - k + a]) :
        /\ Holds(p.page, p.at[a], SubSeq(args[Len(args) - k + a], 1, n))
        /\ fits => n = Len(args[Len(args) - k + a])

\* One more.
LEMMA PackOne ==
    ASSUME NEW args \in Seq(Seq(STRING)), NEW k \in 0 .. Len(args) - 1, NEW b \in Nat,
           NEW p, NEW fits, Packing(p, args, k, b, fits),
           NEW arg, arg = args[Len(args) - k],
           fits => b + Len(arg) <= ArgLimit,
           NEW r, r = PushArgument(arg, p)
    PROVE  Packing(r, args, k + 1, b + Len(arg) + 1, fits)
<1>1. PICK L, w, m : L = Len(args) /\ w = Len(arg) /\ m = Len(p.page)
  OBVIOUS
<1>2. L \in Nat /\ k \in 0 .. L - 1 /\ L - k \in 1 .. L
  BY <1>1, SMT
<1>3. arg \in Seq(STRING) /\ w \in Nat
  BY <1>1, <1>2
<1>4. p.page \in Seq(Letters) /\ p.at \in Seq(Nat) /\ Len(p.at) = k /\ m <= b /\ m \in Nat
  BY <1>1 DEF Packing
<1>5. PICK n : Pushed(r, p, arg, n)
  BY <1>3, <1>4, PushedIs
<1>6. /\ n \in 0 .. w /\ r.page \in Seq(Letters) /\ r.at \in Seq(Nat)
      /\ Len(r.page) = m + n + 1 /\ Len(r.at) = k + 1
      /\ \A l \in 1 .. m : r.page[l] = p.page[l]
      /\ Holds(r.page, m, SubSeq(arg, 1, n))
      /\ r.at[1] = m /\ \A l \in 1 .. k : r.at[1 + l] = p.at[l]
      /\ m + w <= ArgLimit => n = w
  BY <1>1, <1>4, <1>5 DEF Pushed
<1>7. m + n + 1 <= b + w + 1 /\ m <= m + n + 1 /\ (fits => n = w)
  <2>1. fits => m + w <= ArgLimit
    <3>1. b + w <= ArgLimit => m + w <= ArgLimit
      BY <1>3, <1>4, ExecAssumption, SMT
    <3> QED BY <1>1, <3>1
  <2>2. n \in 0 .. w /\ m \in Nat /\ w \in Nat /\ m <= b
    BY <1>3, <1>4, <1>6
  <2>3. m + n + 1 <= b + w + 1 /\ m <= m + n + 1
    BY <2>2, SMT
  <2> QED BY <1>6, <2>1, <2>3
<1>8. ASSUME NEW a \in 1 .. k + 1
      PROVE  \E x \in 0 .. Len(args[L - (k + 1) + a]) :
                /\ Holds(r.page, r.at[a], SubSeq(args[L - (k + 1) + a], 1, x))
                /\ fits => x = Len(args[L - (k + 1) + a])
  <2>1. CASE a = 1
    <3>1. L - (k + 1) + a = L - k
      BY <1>2, <2>1, SMT
    <3>2. args[L - (k + 1) + a] = arg /\ r.at[a] = m
      BY <1>1, <1>6, <2>1, <3>1
    <3> QED BY <1>1, <1>6, <1>7, <3>2
  <2>2. CASE a # 1
    <3>1. PICK c : c = a - 1
      OBVIOUS
    <3>2. c \in 1 .. k /\ 1 + c = a /\ L - (k + 1) + a = L - k + c /\ L - k + c \in 1 .. L
      BY <1>2, <2>2, <3>1, SMT
    <3>3. PICK v : v = args[L - k + c]
      OBVIOUS
    <3>4. PICK x \in 0 .. Len(v) : Holds(p.page, p.at[c], SubSeq(v, 1, x)) /\ (fits => x = Len(v))
      BY <1>1, <3>2, <3>3 DEF Packing
    <3>5. v \in Seq(STRING)
      BY <1>1, <3>2, <3>3
    <3>6. PICK u : u = SubSeq(v, 1, x)
      OBVIOUS
    <3>7. u \in Seq(STRING)
      <4>1. Begins(u, STRING, v, x)
        BY <3>4, <3>5, <3>6, BeginningIs
      <4> QED BY <4>1 DEF Begins
    <3>8. r.at[a] = p.at[c] /\ args[L - (k + 1) + a] = v
      BY <1>6, <3>2, <3>3
    <3>9. Holds(r.page, p.at[c], u)
      <4>1. PICK P, Q, pos : P = p.page /\ Q = r.page /\ pos = p.at[c]
        OBVIOUS
      <4>2. /\ P \in Seq(Letters) /\ Q \in Seq(Letters) /\ Len(P) <= Len(Q)
            /\ \A l \in 1 .. Len(P) : Q[l] = P[l] /\ Holds(P, pos, u)
        BY <1>1, <1>4, <1>6, <1>7, <3>4, <3>6, <4>1
      <4>3. Holds(P, pos, u)
        BY <3>4, <3>6, <4>1
      <4>4. Holds(Q, pos, u)
        BY <3>7, <4>2, <4>3, HoldsStays
      <4> QED BY <4>1, <4>4
    <3> QED BY <3>4, <3>6, <3>8, <3>9
  <2> QED BY <2>1, <2>2
<1>9. Len(r.page) <= b + w + 1
  BY <1>6, <1>7
<1> QED BY <1>1, <1>6, <1>8, <1>9 DEF Packing

\* Every string, or its beginning, is found as it was given.
Arrived(found, args) ==
    /\ Len(found) = Len(args)
    /\ \A a \in DOMAIN args : IsPrefix(found[a], args[a])
    /\ BytesOf(args) <= ArgLimit + 1 => found = args

LEMMA AllArrive ==
    ASSUME NEW args \in Seq(Seq(STRING)), \A a \in 1 .. Len(args) : IsWord(args[a])
    PROVE  Arrived(ArgumentsFound(args), args)
<1>1. PICK L : L = Len(args)
  OBVIOUS
<1>2. L \in Nat /\ DOMAIN args = 1 .. L /\ \A a \in 1 .. L : args[a] \in Seq(STRING)
        /\ Len(args[a]) \in Nat
  BY <1>1
<1>3. PICK f : ArePacked(f, L, args) /\ PushArguments(args) = f[L]
  BY <1>1, <1>2, PackedAre
<1>4. PICK s : AreBytes(s, L, args) /\ BytesOf(args) = s[L]
  BY <1>1, <1>2, BytesAre
<1> DEFINE w == [k \in 1 .. L |-> Len(args[L + 1 - k]) + 1]
<1>5. w \in [1 .. L -> Nat]
  <2>1. \A k \in 1 .. L : L + 1 - k \in 1 .. L
    BY <1>2, SMT
  <2>2. \A k \in 1 .. L : Len(args[L + 1 - k]) \in Nat
    BY <1>2, <2>1
  <2>3. \A k \in 1 .. L : Len(args[L + 1 - k]) + 1 \in Nat
    BY <2>2
  <2> QED BY <2>3
<1>6. ASSUME NEW k \in 0 .. L - 1
      PROVE  /\ k + 1 \in 0 .. L /\ k + 1 # 0 /\ (k + 1) - 1 = k /\ L + 1 - (k + 1) = L - k
             /\ k \in 0 .. L /\ L - k \in 1 .. L /\ k + 1 \in 1 .. L
  BY <1>2, SMT
<1>7. /\ s[0] = 0 /\ f[0] = [page |-> <<>>, at |-> <<>>]
      /\ \A k \in 0 .. L - 1 : /\ s[k + 1] = s[k] + Len(args[L - k]) + 1
                               /\ f[k + 1] = PushArgument(args[L - k], f[k])
  <2>1. 0 \in 0 .. L
    BY <1>2, SMT
  <2>2. s[0] = 0 /\ f[0] = [page |-> <<>>, at |-> <<>>]
    BY <1>3, <1>4, <2>1 DEF AreBytes, ArePacked
  <2>3. ASSUME NEW k \in 0 .. L - 1
        PROVE  s[k + 1] = s[k] + Len(args[L - k]) + 1 /\ f[k + 1] = PushArgument(args[L - k], f[k])
    BY <1>1, <1>3, <1>4, <1>6 DEF AreBytes, ArePacked
  <2> QED BY <2>2, <2>3
<1>8. Bounded(s, L)
  <2>1. ASSUME NEW k \in 0 .. L - 1, s[k] \in Nat PROVE s[k + 1] = s[k] + w[k + 1]
    <3>1. w[k + 1] = Len(args[L - k]) + 1
      BY <1>6
    <3>2. PICK x, y : x = s[k] /\ y = Len(args[L - k])
      OBVIOUS
    <3>3. x \in Nat /\ y \in Nat /\ s[k + 1] = x + y + 1 /\ w[k + 1] = y + 1
      BY <1>2, <1>6, <1>7, <2>1, <3>1, <3>2
    <3>4. x + y + 1 = x + (y + 1)
      BY <3>3, SMT
    <3> QED BY <3>2, <3>3, <3>4
  <2> DEFINE T == {k \in 0 .. L : s[k] \in Nat}
  <2>2. 0 \in T
    BY <1>2, <1>7, SMT
  <2>3. ASSUME NEW k \in 0 .. L - 1, k \in T PROVE k + 1 \in T
    <3>1. PICK x, y : x = s[k] /\ y = w[k + 1]
      OBVIOUS
    <3>2. x \in Nat /\ y \in Nat /\ s[k + 1] = x + y
      BY <1>5, <1>6, <2>1, <2>3, <3>1
    <3>3. x + y \in Nat
      BY <3>2, SMT
    <3> QED BY <1>6, <3>2, <3>3
  <2> HIDE DEF T
  <2>4. \A k \in 0 .. L : k \in T
    BY <1>2, <2>2, <2>3, Induction
  <2>5. \A k \in 0 .. L : s[k] \in Nat
    BY <2>4 DEF T
  <2> HIDE DEF w
  <2>6. \A k \in 0 .. L - 1 : s[k + 1] = s[k] + w[k + 1]
    BY <1>6, <2>1, <2>5
  <2>7. AddUp(s, w, L)
    BY <1>7, <2>6 DEF AddUp
  <2> QED BY <1>2, <1>5, <2>7, SumsOfNumbers
<1>9. PICK fits \in BOOLEAN : fits <=> s[L] <= ArgLimit + 1
  <2>1. CASE s[L] <= ArgLimit + 1
    <3>1. TRUE <=> s[L] <= ArgLimit + 1
      BY <2>1
    <3> QED BY <3>1
  <2>2. CASE ~(s[L] <= ArgLimit + 1)
    <3>1. FALSE <=> s[L] <= ArgLimit + 1
      BY <2>2
    <3> QED BY <3>1
  <2> QED BY <2>1, <2>2
<1> HIDE DEF w
<1> DEFINE T == {k \in 0 .. L : Packing(f[k], args, k, s[k], fits)}
<1>10. 0 \in T
  <2>1. PICK p : p = f[0]
    OBVIOUS
  <2>2. p.page = <<>> /\ p.at = <<>>
    BY <1>7, <2>1
  <2>3. p.page \in Seq(Letters) /\ p.at \in Seq(Nat) /\ Len(p.at) = 0 /\ Len(p.page) <= 0
    BY <2>2
  <2>4. 1 .. 0 = {} /\ 0 \in 0 .. L
    BY <1>2, SMT
  <2>5. Packing(p, args, 0, 0, fits)
    BY <2>3, <2>4 DEF Packing
  <2> QED BY <1>7, <2>1, <2>4, <2>5
<1>11. ASSUME NEW k \in 0 .. L - 1, k \in T PROVE k + 1 \in T
  <2>1. PICK arg, p, b, r, d : arg = args[L - k] /\ p = f[k] /\ b = s[k] /\ r = f[k + 1]
          /\ d = Len(arg)
    OBVIOUS
  <2>2. r = PushArgument(arg, p) /\ s[k + 1] = b + d + 1
    BY <1>7, <2>1
  <2>3. b \in Nat /\ d \in Nat /\ s[k + 1] <= s[L] /\ s[L] \in Nat
    <3>1. L \in 0 .. L
      BY <1>2, SMT
    <3> QED BY <1>2, <1>6, <1>8, <2>1, <3>1 DEF Bounded
  <2>4. fits => b + d <= ArgLimit
    <3>1. PICK x : x = s[L]
      OBVIOUS
    <3>2. x \in Nat /\ b + d + 1 <= x /\ (fits => x <= ArgLimit + 1)
      BY <1>9, <2>2, <2>3, <3>1
    <3> QED BY <2>3, <3>2, ExecAssumption, SMT
  <2>5. Packing(p, args, k, b, fits)
    BY <1>11, <2>1
  <2>6. Packing(r, args, k + 1, b + d + 1, fits)
    BY <1>1, <2>1, <2>2, <2>3, <2>4, <2>5, PackOne
  <2> QED BY <1>6, <2>1, <2>2, <2>6
<1> HIDE DEF T
<1>12. \A k \in 0 .. L : k \in T
  BY <1>2, <1>10, <1>11, Induction
<1>13. PICK p : p = f[L]
  OBVIOUS
<1>14. Packing(p, args, L, s[L], fits)
  <2>1. L \in 0 .. L
    BY <1>2, SMT
  <2> QED BY <1>12, <1>13, <2>1 DEF T
<1>15. PICK found : found = [a \in 1 .. L |-> StringAt(p.page, p.at[a])]
  OBVIOUS
<1>16. ArgumentsFound(args) = found
  <2>1. DOMAIN p.at = 1 .. L
    BY <1>14 DEF Packing
  <2> QED BY <1>3, <1>13, <1>15, <2>1 DEF ArgumentsFound
<1>17. ASSUME NEW a \in 1 .. L PROVE IsPrefix(found[a], args[a]) /\ (fits => found[a] = args[a])
  <2>1. L - L + a = a
    BY <1>2, SMT
  <2>2. PICK v : v = args[a]
    OBVIOUS
  <2>3. PICK n \in 0 .. Len(v) : Holds(p.page, p.at[a], SubSeq(v, 1, n)) /\ (fits => n = Len(v))
    BY <1>1, <1>14, <2>1, <2>2 DEF Packing
  <2>4. PICK u : u = SubSeq(v, 1, n)
    OBVIOUS
  <2>5. v \in Seq(STRING) /\ IsWord(v)
    BY <1>1, <1>2, <2>2
  <2>6. /\ u \in Seq(STRING) /\ Len(u) = n /\ \A l \in 1 .. n : u[l] = v[l]
        /\ n = Len(v) => u = v
        /\ IsPrefix(u, v)
    <3>1. Begins(u, STRING, v, n)
      BY <2>3, <2>4, <2>5, BeginningIs
    <3> QED BY <3>1 DEF Begins
  <2>7. IsWord(u)
    <3>1. \A l \in 1 .. n : l \in 1 .. Len(v)
      <4>1. PICK x : x = Len(v)
        OBVIOUS
      <4>2. x \in Nat /\ n \in 0 .. x
        BY <2>5, <4>1
      <4>3. \A l \in 1 .. n : l \in 1 .. x
        BY <4>2, SMT
      <4> QED BY <4>1, <4>3
    <3> QED BY <2>5, <2>6, <3>1 DEF IsWord
  <2>8. StringAt(p.page, p.at[a]) = u
    <3>1. PICK P, pos : P = p.page /\ pos = p.at[a]
      OBVIOUS
    <3>2. P \in Seq(Letters) /\ Holds(P, pos, u)
      BY <1>14, <2>3, <2>4, <3>1 DEF Packing
    <3>3. StringAt(P, pos) = u
      BY <2>7, <3>2, StringIs
    <3> QED BY <3>1, <3>3
  <2> QED BY <1>15, <2>2, <2>3, <2>6, <2>8
<1>18. Len(found) = L
  BY <1>2, <1>15
<1>19. fits => found = args
  <2>1. args = [a \in 1 .. L |-> args[a]] /\ found = [a \in 1 .. L |-> found[a]]
    BY <1>2, <1>15
  <2> QED BY <1>17, <2>1
<1> QED BY <1>1, <1>2, <1>4, <1>9, <1>16, <1>17, <1>18, <1>19 DEF Arrived

-------------------------------------------------------------------------------
(* The words of a line. *)

\* What parse_command() has when the line ends, and what it returns then.
Scanned(line) ==
    LET loop[i \in 0 .. Len(line)] ==
            IF i = 0 THEN [args |-> <<>>, start |-> 0, end |-> 0]
            ELSE Scan(line, loop[i - 1], i - 1)
    IN loop[Len(line)]
ScannedArgs(s, line) ==
    IF s.start > s.end THEN s.args
    ELSE Append(s.args, SubSeq(line, s.start + 1, s.end + 1))
Foreground(args) == IF Last(args) = Background THEN Front(args) ELSE args
Fitting(args) == IF Len(args) < ArgumentBuffer THEN args ELSE [args EXCEPT ![1] = None]

\* The words with character k, and all words of a line.
WithLetter(before, line, k) ==
    IF line[k] = Blank THEN before
    ELSE IF k > 1 /\ line[k - 1] # Blank
           THEN Append(Front(before), Append(Last(before), line[k]))
           ELSE Append(before, <<line[k]>>)
AllWords(line) ==
    LET words[k \in 0 .. Len(line)] ==
            IF k = 0 THEN <<>> ELSE WithLetter(words[k - 1], line, k)
    IN words[Len(line)]

\* Both leave out a last word that stands for the background.
LEMMA LastIsLeftOut ==
    ASSUME NEW line
    PROVE  /\ parse_command(line) = Fitting(Foreground(ScannedArgs(Scanned(line), line)))
           /\ Words(line) = Foreground(AllWords(line))
  BY DEF parse_command, Words, Scanned, ScannedArgs, AllWords, WithLetter, Foreground, Fitting

\* The first of arguments that have no room is not the name of a file.
LEMMA FileFits ==
    ASSUME NEW S, NEW a \in Seq(S), Fitting(a)[1] \in DOMAIN File
    PROVE  Fitting(a) = a /\ Len(a) < ArgumentBuffer
<1>1. PICK n : n = Len(a)
  OBVIOUS
<1>2. n \in Nat /\ DOMAIN a = 1 .. n
  BY <1>1
<1>3. CASE Len(a) < ArgumentBuffer
  BY <1>3 DEF Fitting
<1>4. CASE ~(Len(a) < ArgumentBuffer)
  <2>1. 1 \in 1 .. n
    <3>1. ArgumentBuffer \in Nat \ {0}
      BY ExecAssumption
    <3> QED BY <1>1, <1>2, <1>4, <3>1, SMT
  <2>2. Fitting(a)[1] = None
    BY <1>2, <1>4, <2>1 DEF Fitting
  <2>3. None \notin DOMAIN File
    BY ExecAssumption
  <2> QED BY <2>2, <2>3
<1> QED BY <1>3, <1>4

\* The scan after each character.
AreScans(f, L, line) ==
    f = [n \in 0 .. L |-> IF n = 0 THEN [args |-> <<>>, start |-> 0, end |-> 0]
            ELSE Scan(line, f[n - 1], n - 1)]

\* There is such a sequence, and the scan of the line is its last.
LEMMA ScansAre ==
    ASSUME NEW line, Len(line) \in Nat
    PROVE  \E f : AreScans(f, Len(line), line) /\ Scanned(line) = f[Len(line)]
<1> DEFINE L == Len(line)
           T == {x \in 0 .. L : \E f : AreScans(f, x, line)}
<1>1. 0 \in T
  <2>1. AreScans([n \in 0 .. 0 |-> [args |-> <<>>, start |-> 0, end |-> 0]], 0, line)
    BY SMT DEF AreScans
  <2> QED BY <2>1
<1>2. ASSUME NEW l \in 0 .. L - 1, l \in T PROVE l + 1 \in T
  <2>1. PICK f : AreScans(f, l, line)
    BY <1>2
  <2> DEFINE g == [n \in 0 .. l + 1 |-> IF n = 0 THEN [args |-> <<>>, start |-> 0, end |-> 0]
          ELSE Scan(line, f[n - 1], n - 1)]
  <2>2. ASSUME NEW n \in 0 .. l PROVE g[n] = f[n]
    <3>1. n \in 0 .. l + 1
      BY SMT
    <3>2. f[n] = IF n = 0 THEN [args |-> <<>>, start |-> 0, end |-> 0]
            ELSE Scan(line, f[n - 1], n - 1)
      BY <2>1 DEF AreScans
    <3> QED BY <3>1, <3>2
  <2>3. ASSUME NEW n \in 0 .. l + 1
        PROVE  g[n] = IF n = 0 THEN [args |-> <<>>, start |-> 0, end |-> 0]
                ELSE Scan(line, g[n - 1], n - 1)
    <3>1. CASE n = 0
      BY <3>1
    <3>2. CASE n # 0
      <4>1. n - 1 \in 0 .. l
        BY <3>2, SMT
      <4>2. g[n - 1] = f[n - 1]
        BY <2>2, <4>1
      <4> QED BY <3>2, <4>2
    <3> QED BY <3>1, <3>2
  <2>4. g = [n \in 0 .. l + 1 |-> g[n]]
    OBVIOUS
  <2> HIDE DEF g
  <2>5. AreScans(g, l + 1, line)
    BY <2>3, <2>4 DEF AreScans
  <2>6. l + 1 \in 0 .. L
    BY SMT
  <2> QED BY <2>5, <2>6
<1> HIDE DEF T
<1>3. \A l \in 0 .. L : l \in T
  BY <1>1, <1>2, Induction
<1>4. L \in T
  BY <1>3, SMT
<1>5. \E f : AreScans(f, L, line)
  BY <1>4 DEF T
<1> DEFINE h == CHOOSE f : AreScans(f, L, line)
<1>6. AreScans(h, L, line)
  BY <1>5
<1>7. Scanned(line) = h[L]
  BY DEF Scanned, AreScans
<1> QED BY <1>6, <1>7

\* The words after each character.
AreWords(f, L, line) ==
    f = [n \in 0 .. L |-> IF n = 0 THEN <<>> ELSE WithLetter(f[n - 1], line, n)]

\* There is such a sequence, and the words of the line are its last.
LEMMA WordsAre ==
    ASSUME NEW line, Len(line) \in Nat
    PROVE  \E f : AreWords(f, Len(line), line) /\ AllWords(line) = f[Len(line)]
<1> DEFINE L == Len(line)
           T == {x \in 0 .. L : \E f : AreWords(f, x, line)}
<1>1. 0 \in T
  <2>1. AreWords([n \in 0 .. 0 |-> <<>>], 0, line)
    BY SMT DEF AreWords
  <2> QED BY <2>1
<1>2. ASSUME NEW l \in 0 .. L - 1, l \in T PROVE l + 1 \in T
  <2>1. PICK f : AreWords(f, l, line)
    BY <1>2
  <2> DEFINE g == [n \in 0 .. l + 1 |-> IF n = 0 THEN <<>> ELSE WithLetter(f[n - 1], line, n)]
  <2>2. ASSUME NEW n \in 0 .. l PROVE g[n] = f[n]
    <3>1. n \in 0 .. l + 1
      BY SMT
    <3>2. f[n] = IF n = 0 THEN <<>> ELSE WithLetter(f[n - 1], line, n)
      BY <2>1 DEF AreWords
    <3> QED BY <3>1, <3>2
  <2>3. ASSUME NEW n \in 0 .. l + 1
        PROVE  g[n] = IF n = 0 THEN <<>> ELSE WithLetter(g[n - 1], line, n)
    <3>1. CASE n = 0
      BY <3>1
    <3>2. CASE n # 0
      <4>1. n - 1 \in 0 .. l
        BY <3>2, SMT
      <4>2. g[n - 1] = f[n - 1]
        BY <2>2, <4>1
      <4> QED BY <3>2, <4>2
    <3> QED BY <3>1, <3>2
  <2>4. g = [n \in 0 .. l + 1 |-> g[n]]
    OBVIOUS
  <2> HIDE DEF g
  <2>5. AreWords(g, l + 1, line)
    BY <2>3, <2>4 DEF AreWords
  <2>6. l + 1 \in 0 .. L
    BY SMT
  <2> QED BY <2>5, <2>6
<1> HIDE DEF T
<1>3. \A l \in 0 .. L : l \in T
  BY <1>1, <1>2, Induction
<1>4. L \in T
  BY <1>3, SMT
<1>5. \E f : AreWords(f, L, line)
  BY <1>4 DEF T
<1> DEFINE h == CHOOSE f : AreWords(f, L, line)
<1>6. AreWords(h, L, line)
  BY <1>5
<1>7. AllWords(line) = h[L]
  BY DEF AllWords, AreWords
<1> QED BY <1>6, <1>7

\* What a step of the scan does.
IsScanned(r, s, line, i) ==
    /\ \E a, b, c : r = [args |-> a, start |-> b, end |-> c]
    /\ line[i + 1] # Blank => r.args = s.args /\ r.start = s.start /\ r.end = i
    /\ line[i + 1] = Blank /\ (s.start > s.end \/ s.end = 0) =>
        r.args = s.args /\ r.start = s.start + 1 /\ r.end = s.end
    /\ line[i + 1] = Blank /\ ~(s.start > s.end \/ s.end = 0) =>
        /\ r.args = Append(s.args, SubSeq(line, s.start + 1, s.end + 1))
        /\ r.start = i + 1 /\ r.end = s.end

LEMMA ScannedIs ==
    ASSUME NEW line, NEW i, NEW s, \E a, b, c : s = [args |-> a, start |-> b, end |-> c],
           NEW r, r = Scan(line, s, i)
    PROVE  IsScanned(r, s, line, i)
<1>1. PICK a, b, c : s = [args |-> a, start |-> b, end |-> c]
  OBVIOUS
<1>2. s.args = a /\ s.start = b /\ s.end = c
  BY <1>1
<1>3. CASE line[i + 1] # Blank
  <2>1. r = [s EXCEPT !.end = i]
    BY <1>3 DEF Scan
  <2>2. r = [args |-> a, start |-> b, end |-> i]
    BY <1>1, <2>1
  <2>3. r.args = a /\ r.start = b /\ r.end = i
    BY <2>2
  <2> QED BY <1>2, <1>3, <2>2, <2>3 DEF IsScanned
<1>4. CASE line[i + 1] = Blank /\ (s.start > s.end \/ s.end = 0)
  <2>1. r = [s EXCEPT !.start = @ + 1]
    BY <1>4 DEF Scan
  <2>2. PICK d : d = s.start + 1
    OBVIOUS
  <2>3. r = [args |-> a, start |-> d, end |-> c]
    BY <1>1, <1>2, <2>1, <2>2
  <2>4. r.args = a /\ r.start = d /\ r.end = c
    BY <2>3
  <2> QED BY <1>2, <1>4, <2>2, <2>3, <2>4 DEF IsScanned
<1>5. CASE line[i + 1] = Blank /\ ~(s.start > s.end \/ s.end = 0)
  <2>1. PICK x, d, e : /\ x = Append(s.args, SubSeq(line, s.start + 1, s.end + 1))
                       /\ d = i + 1 /\ e = s.end
    OBVIOUS
  <2>2. r = [args |-> x, start |-> d, end |-> e]
    BY <1>5, <2>1 DEF Scan
  <2>3. r.args = x /\ r.start = d /\ r.end = e
    BY <2>2
  <2> QED BY <1>5, <2>1, <2>2, <2>3 DEF IsScanned
<1> QED BY <1>3, <1>4, <1>5

\* A list of words.
WordList(w) == w \in Seq(Seq(STRING)) /\ \A l \in 1 .. Len(w) : IsWord(w[l])

\* u is w with x behind it.
Lengthened(u, S, w, x) ==
    /\ u \in Seq(S) /\ Len(u) = Len(w) + 1 /\ Len(u) >= 1
    /\ \A l \in 1 .. Len(w) : u[l] = w[l]
    /\ u[Len(w) + 1] = x
    /\ Front(u) = w /\ Last(u) = x

LEMMA LengthenedIs ==
    ASSUME NEW S, NEW w \in Seq(S), NEW x \in S, NEW u, u = Append(w, x)
    PROVE  Lengthened(u, S, w, x)
<1>1. /\ u \in Seq(S) /\ Len(u) = Len(w) + 1
      /\ \A l \in 1 .. Len(w) : u[l] = w[l]
      /\ u[Len(w) + 1] = x
  BY AppendProperties
<1>2. PICK n, m : n = Len(w) /\ m = Len(u)
  OBVIOUS
<1>3. n \in Nat /\ m = n + 1 /\ w = [l \in 1 .. n |-> w[l]]
  BY <1>1, <1>2
<1>4. m >= 1 /\ m - 1 = n /\ n \in 0 .. m
  BY <1>3, SMT
<1>5. Last(u) = x
  BY <1>1, <1>2, <1>3 DEF Last
<1>6. Front(u) = w
  <2>1. PICK v : v = SubSeq(u, 1, n)
    OBVIOUS
  <2>2. Begins(v, S, u, n)
    BY <1>1, <1>2, <1>4, <2>1, BeginningIs
  <2>3. v \in Seq(S) /\ Len(v) = n /\ \A l \in 1 .. n : v[l] = u[l]
    BY <2>2 DEF Begins
  <2>4. v = [l \in 1 .. n |-> v[l]]
    BY <2>3
  <2>5. v = w
    BY <1>1, <1>2, <1>3, <2>3, <2>4
  <2> QED BY <1>2, <1>4, <2>1, <2>5 DEF Front
<1> QED BY <1>1, <1>2, <1>4, <1>5, <1>6 DEF Lengthened

\* A list of words with one more is a list of words.
LEMMA WordsLengthen ==
    ASSUME NEW w, WordList(w), NEW x, IsWord(x), NEW u, u = Append(w, x)
    PROVE  WordList(u) /\ Lengthened(u, Seq(STRING), w, x)
<1>1. w \in Seq(Seq(STRING)) /\ x \in Seq(STRING)
  BY DEF WordList, IsWord
<1>2. Lengthened(u, Seq(STRING), w, x)
  BY <1>1, LengthenedIs
<1>3. ASSUME NEW l \in 1 .. Len(u) PROVE IsWord(u[l])
  <2>1. PICK n : n = Len(w)
    OBVIOUS
  <2>2. n \in Nat /\ Len(u) = n + 1
    BY <1>1, <1>2, <2>1 DEF Lengthened
  <2>3. l \in 1 .. n \/ l = n + 1
    BY <2>2, SMT
  <2> QED BY <1>2, <2>1, <2>3 DEF Lengthened, WordList
<1> QED BY <1>2, <1>3 DEF WordList, Lengthened

\* The letters of a command make words.
Lettered(line) == line \in Seq(STRING) /\ \A k \in 1 .. Len(line) : line[k] # Nul

\* A part of a line is a word.
LEMMA PartIsWord ==
    ASSUME NEW line, Lettered(line), NEW a \in Nat, NEW b \in Nat, 1 <= a, a <= b + 1, b <= Len(line),
           NEW v, v = SubSeq(line, a, b)
    PROVE  IsWord(v) /\ Part(v, STRING, line, a, b - a + 1)
<1>1. PICK L, n : L = Len(line) /\ n = b - a + 1
  OBVIOUS
<1>2. L \in Nat /\ n \in Nat /\ a \in Int /\ b \in Int /\ \A y \in a .. b : y \in 1 .. L
  <2>1. L \in Nat /\ b <= L
    BY <1>1 DEF Lettered
  <2>2. n \in Nat /\ a \in Int /\ b \in Int /\ \A y \in a .. b : y \in 1 .. L
    BY <1>1, <2>1, SMT
  <2> QED BY <2>1, <2>2
<1>3. \A y \in a .. b : line[y] \in STRING
  BY <1>1, <1>2 DEF Lettered
<1>4. Part(v, STRING, line, a, n)
  BY <1>1, <1>2, <1>3, PartIs
<1>5. v \in Seq(STRING) /\ Len(v) = n /\ \A l \in 1 .. n : v[l] = line[a + l - 1]
  BY <1>4 DEF Part
<1>6. \A l \in 1 .. n : a + l - 1 \in 1 .. L
  BY <1>1, <1>2, SMT
<1>7. \A l \in 1 .. n : v[l] # Nul
  BY <1>1, <1>5, <1>6 DEF Lettered
<1> QED BY <1>1, <1>4, <1>5, <1>7 DEF IsWord

\* One letter more of a word.
LEMMA LetterMore ==
    ASSUME NEW line, Lettered(line), NEW a \in Nat, NEW b \in Nat, 1 <= a, a <= b + 1, b + 1 <= Len(line)
    PROVE  Append(SubSeq(line, a, b), line[b + 1]) = SubSeq(line, a, b + 1)
<1>1. PICK v, u, c, n, x : /\ v = SubSeq(line, a, b) /\ c = b + 1 /\ u = SubSeq(line, a, c)
                           /\ n = b - a + 1 /\ x = line[c]
  OBVIOUS
<1>2. /\ c \in Nat /\ n \in Nat /\ a <= c + 1 /\ c <= Len(line) /\ b <= Len(line)
        /\ c - a + 1 = n + 1
      /\ a + (n + 1) - 1 = c /\ c >= 1
  <2>1. PICK L : L = Len(line)
    OBVIOUS
  <2>2. L \in Nat /\ b + 1 <= L
    BY <2>1 DEF Lettered
  <2>3. /\ c \in Nat /\ n \in Nat /\ a <= c + 1 /\ c <= L /\ b <= L /\ c - a + 1 = n + 1
        /\ a + (n + 1) - 1 = c /\ c >= 1
    BY <1>1, <2>2, SMT
  <2> QED BY <2>1, <2>3
<1>3. Part(v, STRING, line, a, n)
  BY <1>1, <1>2, PartIsWord
<1>4. Part(u, STRING, line, a, n + 1)
  <2>1. Part(u, STRING, line, a, c - a + 1)
    BY <1>1, <1>2, PartIsWord
  <2> QED BY <1>2, <2>1
<1>5. x \in STRING
  <2>1. c \in 1 .. Len(line)
    BY <1>2 DEF Lettered
  <2> QED BY <1>1, <2>1 DEF Lettered
<1>6. PICK w : w = Append(v, x)
  OBVIOUS
<1>7. Lengthened(w, STRING, v, x)
  BY <1>3, <1>5, <1>6, LengthenedIs DEF Part
<1>8. w \in Seq(STRING) /\ Len(w) = n + 1 /\ \A l \in 1 .. n : w[l] = v[l]
  BY <1>3, <1>7 DEF Lengthened, Part
<1>9. w[n + 1] = x
  BY <1>3, <1>7 DEF Lengthened, Part
<1>10. w = [l \in 1 .. n + 1 |-> w[l]]
  BY <1>8
<1>11. u = [l \in 1 .. n + 1 |-> u[l]] /\ \A l \in 1 .. n + 1 : u[l] = line[a + l - 1]
  BY <1>4 DEF Part
<1>12. ASSUME NEW l \in 1 .. n + 1 PROVE w[l] = u[l]
  <2>1. CASE l \in 1 .. n
    BY <1>3, <1>8, <1>11, <2>1 DEF Part
  <2>2. CASE l = n + 1
    BY <1>1, <1>2, <1>9, <1>11, <2>2
  <2>3. l \in 1 .. n \/ l = n + 1
    BY <1>2, SMT
  <2> QED BY <2>1, <2>2, <2>3
<1>13. w = u
  BY <1>10, <1>11, <1>12
<1> QED BY <1>1, <1>6, <1>13

\* A word of one letter.
LEMMA OneLetter ==
    ASSUME NEW line, Lettered(line), NEW a \in 1 .. Len(line)
    PROVE  /\ IsWord(<<line[a]>>)
           /\ SubSeq(line, a, a) = <<line[a]>>
<1>1. PICK v : v = SubSeq(line, a, a)
  OBVIOUS
<1>2. a \in Nat /\ 1 <= a /\ a <= a + 1 /\ a <= Len(line) /\ a - a + 1 = 1 /\ a + 1 - 1 = a
  <2>1. PICK L : L = Len(line)
    OBVIOUS
  <2>2. L \in Nat /\ a \in 1 .. L
    BY <2>1 DEF Lettered
  <2>3. a \in Nat /\ 1 <= a /\ a <= a + 1 /\ a <= L /\ a - a + 1 = 1 /\ a + 1 - 1 = a
    BY <2>2, SMT
  <2> QED BY <2>1, <2>3
<1>3. IsWord(v) /\ Part(v, STRING, line, a, 1)
  <2>1. IsWord(v) /\ Part(v, STRING, line, a, a - a + 1)
    BY <1>1, <1>2, PartIsWord
  <2> QED BY <1>2, <2>1
<1>4. v = [l \in 1 .. 1 |-> v[l]] /\ \A l \in 1 .. 1 : v[l] = line[a + l - 1]
  BY <1>3 DEF Part
<1>5. \A l \in 1 .. 1 : v[l] = line[a]
  <2> TAKE l \in 1 .. 1
  <2>1. l = 1
    BY SMT
  <2> QED BY <1>2, <1>4, <2>1
<1>6. v = <<line[a]>>
  BY <1>4, <1>5
<1> QED BY <1>1, <1>3, <1>6

\* After i characters the scan has the words: the last one is between the start
\* and the last character, unless that is a blank.
Aligned(s, w, i, line) ==
    /\ \E a, b, c : s = [args |-> a, start |-> b, end |-> c]
    /\ WordList(s.args) /\ WordList(w) /\ Len(w) >= 1
    /\ s.start \in Nat /\ s.end \in Nat /\ s.start <= i /\ s.end < i
    /\ line[i] # Blank => /\ s.end = i - 1 /\ s.start < i
                          /\ w = Append(s.args, SubSeq(line, s.start + 1, i))
    /\ line[i] = Blank => s.start = i /\ w = s.args

\* The first character.
LEMMA AlignedFirst ==
    ASSUME NEW line, Lettered(line), 1 \in 1 .. Len(line), line[1] # Blank,
           NEW s, s = Scan(line, [args |-> <<>>, start |-> 0, end |-> 0], 0),
           NEW w, w = WithLetter(<<>>, line, 1)
    PROVE  Aligned(s, w, 1, line)
<1>1. PICK z, o : z = [args |-> <<>>, start |-> 0, end |-> 0] /\ o = 0
  OBVIOUS
<1>2. z.args = <<>> /\ z.start = 0 /\ z.end = 0
  BY <1>1
<1>3. IsScanned(s, z, line, o)
  <2>1. \E a, b, c : z = [args |-> a, start |-> b, end |-> c]
    BY <1>1
  <2>2. s = Scan(line, z, o)
    BY <1>1
  <2> QED BY <2>1, <2>2, ScannedIs
<1>4. o + 1 = 1 /\ ~(1 > 1) /\ o = 1 - 1 /\ 0 \in Nat /\ 0 <= 1 /\ 0 < 1 /\ 0 + 1 = 1
  BY <1>1, SMT
<1>5. s.args = <<>> /\ s.start = 0 /\ s.end = 0
  BY <1>1, <1>2, <1>3, <1>4 DEF IsScanned
<1>6. \E a, b, c : s = [args |-> a, start |-> b, end |-> c]
  BY <1>3 DEF IsScanned
<1>7. PICK x, none : x = <<line[1]>> /\ none = <<>>
  OBVIOUS
<1>8. IsWord(x) /\ SubSeq(line, 1, 1) = x
  BY <1>7, OneLetter
<1>9. w = Append(none, x)
  BY <1>4, <1>7 DEF WithLetter
<1>10. WordList(none)
  <2>1. none \in Seq(Seq(STRING)) /\ Len(none) = 0
    BY <1>7
  <2>2. 1 .. 0 = {}
    BY SMT
  <2> QED BY <2>1, <2>2 DEF WordList
<1>11. WordList(w) /\ Len(w) >= 1
  <2>1. WordList(w) /\ Lengthened(w, Seq(STRING), none, x)
    BY <1>8, <1>9, <1>10, WordsLengthen
  <2> QED BY <2>1 DEF Lengthened
<1>12. w = Append(s.args, SubSeq(line, s.start + 1, 1))
  BY <1>4, <1>5, <1>7, <1>8, <1>9
<1> QED BY <1>1, <1>4, <1>5, <1>6, <1>7, <1>10, <1>11, <1>12 DEF Aligned

\* Each other one, if the second is not a blank.
LEMMA AlignedNext ==
    ASSUME NEW line, Lettered(line), NEW i \in 1 .. Len(line) - 1, line[2] # Blank,
           NEW s, NEW w, Aligned(s, w, i, line),
           NEW r, r = Scan(line, s, i), NEW v, v = WithLetter(w, line, i + 1)
    PROVE  Aligned(r, v, i + 1, line)
<1>1. PICK L, st, en, args : L = Len(line) /\ st = s.start /\ en = s.end /\ args = s.args
  OBVIOUS
<1>2. /\ WordList(args) /\ WordList(w) /\ Len(w) >= 1
      /\ st \in Nat /\ en \in Nat /\ st <= i /\ en < i
      /\ line[i] # Blank => en = i - 1 /\ st < i /\ w = Append(args, SubSeq(line, st + 1, i))
      /\ line[i] = Blank => st = i /\ w = args
  BY <1>1 DEF Aligned
<1>3. L \in Nat /\ i \in 1 .. L - 1
  BY <1>1 DEF Lettered
<1>4. /\ i \in Nat /\ i + 1 > 1 /\ (i + 1) - 1 = i /\ i + 1 \in 1 .. L /\ i \in 1 .. L /\ i < i + 1
      /\ i + 1 \in Nat /\ i <= L /\ i + 1 <= L
  BY <1>3, SMT
<1>5. IsScanned(r, s, line, i)
  <2>1. \E a, b, c : s = [args |-> a, start |-> b, end |-> c]
    BY DEF Aligned
  <2> QED BY <2>1, ScannedIs
<1>6. \E a, b, c : r = [args |-> a, start |-> b, end |-> c]
  BY <1>5 DEF IsScanned
<1>7. CASE line[i + 1] # Blank
  <2>1. r.args = args /\ r.start = st /\ r.end = i
    BY <1>1, <1>5, <1>7 DEF IsScanned
  <2>2. CASE line[i] # Blank
    <3>1. PICK a, x : a = st + 1 /\ x = SubSeq(line, a, i)
      OBVIOUS
    <3>2. a \in Nat /\ 1 <= a /\ a <= i + 1 /\ i + 1 <= Len(line) /\ i <= Len(line)
            /\ a <= (i + 1) + 1
      <4>1. st \in Nat /\ st < i
        BY <1>2, <2>2
      <4>2. a \in Nat /\ 1 <= a /\ a <= i + 1 /\ a <= (i + 1) + 1
        BY <1>3, <3>1, <4>1, SMT
      <4> QED BY <1>1, <1>4, <4>2
    <3>3. IsWord(x)
      BY <1>4, <3>1, <3>2, PartIsWord
    <3>4. w = Append(args, x)
      BY <1>2, <2>2, <3>1
    <3>5. Front(w) = args /\ Last(w) = x
      <4>1. Lengthened(w, Seq(STRING), args, x)
        BY <1>2, <3>3, <3>4, WordsLengthen
      <4> QED BY <4>1 DEF Lengthened
    <3>6. PICK y : y = SubSeq(line, a, i + 1)
      OBVIOUS
    <3>7. Append(x, line[i + 1]) = y
      BY <1>4, <3>1, <3>2, <3>6, LetterMore
    <3>8. v = Append(args, y)
      BY <1>4, <1>7, <2>2, <3>5, <3>7 DEF WithLetter
    <3>9. IsWord(y)
      BY <1>4, <3>2, <3>6, PartIsWord
    <3>10. WordList(v) /\ Len(v) >= 1
      <4>1. WordList(v) /\ Lengthened(v, Seq(STRING), args, y)
        BY <1>2, <3>8, <3>9, WordsLengthen
      <4> QED BY <4>1 DEF Lengthened
    <3>11. r.start \in Nat /\ r.end \in Nat /\ r.start <= i + 1 /\ r.end < i + 1 /\ r.start < i + 1
      BY <1>2, <1>4, <2>1, SMT
    <3>12. v = Append(r.args, SubSeq(line, r.start + 1, i + 1))
      BY <2>1, <3>1, <3>6, <3>8
    <3> QED BY <1>2, <1>4, <1>6, <1>7, <2>1, <3>10, <3>11, <3>12 DEF Aligned
  <2>3. CASE line[i] = Blank
    <3>1. PICK x : x = <<line[i + 1]>>
      OBVIOUS
    <3>2. IsWord(x) /\ SubSeq(line, i + 1, i + 1) = x
      BY <1>1, <1>4, <3>1, OneLetter
    <3>3. v = Append(args, x)
      BY <1>2, <1>4, <1>7, <2>3, <3>1 DEF WithLetter
    <3>4. WordList(v) /\ Len(v) >= 1
      <4>1. WordList(v) /\ Lengthened(v, Seq(STRING), args, x)
        BY <1>2, <3>2, <3>3, WordsLengthen
      <4> QED BY <4>1 DEF Lengthened
    <3>5. st = i
      BY <1>2, <2>3
    <3>6. r.start \in Nat /\ r.end \in Nat /\ r.start <= i + 1 /\ r.end < i + 1 /\ r.start < i + 1
      BY <1>4, <2>1, <3>5, SMT
    <3>7. v = Append(r.args, SubSeq(line, r.start + 1, i + 1))
      BY <2>1, <3>2, <3>3, <3>5
    <3> QED BY <1>2, <1>4, <1>6, <1>7, <2>1, <3>4, <3>6, <3>7 DEF Aligned
  <2> QED BY <2>2, <2>3
<1>8. CASE line[i + 1] = Blank
  <2>0. v = w
    BY <1>8 DEF WithLetter
  <2>1. CASE line[i] # Blank
    <3>1. i # 1
      <4>1. ASSUME i = 1 PROVE FALSE
        <5>1. i + 1 = 2
          BY <4>1, SMT
        <5> QED BY <1>8, <5>1
      <4> QED BY <4>1
    <3>2. ~(st > en \/ en = 0) /\ st + 1 \in Nat /\ en + 1 = i
      BY <1>2, <1>4, <2>1, <3>1, SMT
    <3>3. /\ r.args = Append(args, SubSeq(line, st + 1, en + 1))
          /\ r.start = i + 1 /\ r.end = en
      BY <1>1, <1>5, <1>8, <3>2 DEF IsScanned
    <3>4. r.args = w
      BY <1>2, <2>1, <3>2, <3>3
    <3>5. r.start \in Nat /\ r.end \in Nat /\ r.start <= i + 1 /\ r.end < i + 1
      BY <1>2, <1>4, <3>3, SMT
    <3> QED BY <1>2, <1>6, <1>8, <2>0, <3>3, <3>4, <3>5 DEF Aligned
  <2>2. CASE line[i] = Blank
    <3>1. st > en /\ st = i /\ w = args
      BY <1>2, <1>4, <2>2, SMT
    <3>2. r.args = args /\ r.start = i + 1 /\ r.end = en
      BY <1>1, <1>5, <1>8, <3>1 DEF IsScanned
    <3>3. r.start \in Nat /\ r.end \in Nat /\ r.start <= i + 1 /\ r.end < i + 1
      BY <1>2, <1>4, <3>2, SMT
    <3> QED BY <1>2, <1>6, <1>8, <2>0, <3>1, <3>2, <3>3 DEF Aligned
  <2> QED BY <2>1, <2>2
<1> QED BY <1>7, <1>8

\* The sign for the background is no blank.
LEMMA BackgroundIsNoBlank == Background[1] # Blank
<1>1. Background[1] = "&"
  BY DEF Background
<1>2. "&" # Blank
  BY Zenon DEF Blank
<1> QED BY <1>1, <1>2

\* The first argument begins with a blank.
FirstIsBlank(a) ==
    a \in Seq(Seq(STRING)) /\ Len(a) >= 1 /\ Len(a[1]) >= 1 /\ a[1][1] = Blank

\* After i characters of a line with a blank behind its first: it has only blanks
\* since, or the word that it is in begins with a blank, or the first argument.
Blanked(s, i, line) ==
    /\ \E a, b, c : s = [args |-> a, start |-> b, end |-> c]
    /\ s.start \in Nat /\ s.end \in Nat /\ s.start <= i /\ s.end < i
    /\ \/ /\ s.args = <<>> /\ s.start = i - 1 /\ s.end = 0
          /\ \A k \in 2 .. i : line[k] = Blank
       \/ s.args = <<>> /\ s.start <= s.end /\ s.end # 0 /\ line[s.start + 1] = Blank
       \/ FirstIsBlank(s.args)

\* Such a word is appended.
LEMMA BlankAppended ==
    ASSUME NEW line, Lettered(line), NEW st \in Nat, NEW en \in Nat, st <= en, en + 1 <= Len(line),
           NEW args, (args = <<>> /\ line[st + 1] = Blank) \/ FirstIsBlank(args),
           NEW u, u = Append(args, SubSeq(line, st + 1, en + 1))
    PROVE  FirstIsBlank(u)
<1>1. PICK a, b, x : a = st + 1 /\ b = en + 1 /\ x = SubSeq(line, a, b)
  OBVIOUS
<1>2. /\ a \in Nat /\ b \in Nat /\ 1 <= a /\ a <= b + 1 /\ b <= Len(line) /\ b - a + 1 \in Nat
      /\ 1 \in 1 .. b - a + 1 /\ b - a + 1 >= 1 /\ a + 1 - 1 = a
  <2>1. PICK L : L = Len(line)
    OBVIOUS
  <2>2. L \in Nat /\ en + 1 <= L
    BY <2>1 DEF Lettered
  <2>3. /\ a \in Nat /\ b \in Nat /\ 1 <= a /\ a <= b + 1 /\ b <= L /\ b - a + 1 \in Nat
        /\ 1 \in 1 .. b - a + 1 /\ b - a + 1 >= 1 /\ a + 1 - 1 = a
    BY <1>1, <2>2, SMT
  <2> QED BY <2>1, <2>3
<1>3. IsWord(x) /\ Part(x, STRING, line, a, b - a + 1)
  BY <1>1, <1>2, PartIsWord
<1>4. x \in Seq(STRING) /\ Len(x) >= 1 /\ x[1] = line[a]
  BY <1>2, <1>3 DEF Part
<1>5. args \in Seq(Seq(STRING))
  <2>1. CASE args = <<>>
    <3>1. PICK T : T = Seq(STRING)
      OBVIOUS
    <3>2. <<>> \in Seq(T)
      BY EmptySeq
    <3> QED BY <2>1, <3>1, <3>2
  <2>2. CASE FirstIsBlank(args)
    BY <2>2 DEF FirstIsBlank
  <2> QED BY <2>1, <2>2
<1>6. u = Append(args, x)
  BY <1>1
<1>7. Lengthened(u, Seq(STRING), args, x)
  BY <1>4, <1>5, <1>6, LengthenedIs
<1>8. u \in Seq(Seq(STRING)) /\ Len(u) >= 1
  BY <1>7 DEF Lengthened
<1>9. CASE args = <<>> /\ line[st + 1] = Blank
  <2>1. Len(args) = 0 /\ 0 + 1 = 1
    BY <1>9
  <2>2. u[1] = x
    BY <1>7, <2>1 DEF Lengthened
  <2> QED BY <1>1, <1>4, <1>8, <1>9, <2>2 DEF FirstIsBlank
<1>10. CASE FirstIsBlank(args)
  <2>1. 1 \in 1 .. Len(args)
    BY <1>10 DEF FirstIsBlank
  <2>2. u[1] = args[1]
    BY <1>7, <2>1 DEF Lengthened
  <2> QED BY <1>8, <1>10, <2>2 DEF FirstIsBlank
<1> QED BY <1>9, <1>10

\* The first character.
LEMMA BlankedFirst ==
    ASSUME NEW line, line[1] # Blank,
           NEW s, s = Scan(line, [args |-> <<>>, start |-> 0, end |-> 0], 0)
    PROVE  Blanked(s, 1, line)
<1>1. PICK z, o : z = [args |-> <<>>, start |-> 0, end |-> 0] /\ o = 0
  OBVIOUS
<1>2. z.args = <<>> /\ z.start = 0 /\ z.end = 0
  BY <1>1
<1>3. IsScanned(s, z, line, o)
  <2>1. \E a, b, c : z = [args |-> a, start |-> b, end |-> c]
    BY <1>1
  <2>2. s = Scan(line, z, o)
    BY <1>1
  <2> QED BY <2>1, <2>2, ScannedIs
<1>4. o + 1 = 1 /\ 0 = 1 - 1 /\ 0 \in Nat /\ 0 <= 1 /\ 0 < 1 /\ 2 .. 1 = {}
  BY <1>1, SMT
<1>5. s.args = <<>> /\ s.start = 0 /\ s.end = 0
  BY <1>1, <1>2, <1>3, <1>4 DEF IsScanned
<1>6. \E a, b, c : s = [args |-> a, start |-> b, end |-> c]
  BY <1>3 DEF IsScanned
<1> QED BY <1>4, <1>5, <1>6 DEF Blanked

\* Each other one.
LEMMA BlankedNext ==
    ASSUME NEW line, Lettered(line), NEW i \in 1 .. Len(line) - 1, line[2] = Blank,
           NEW s, Blanked(s, i, line), NEW r, r = Scan(line, s, i)
    PROVE  Blanked(r, i + 1, line)
<1>1. PICK L, st, en, args : L = Len(line) /\ st = s.start /\ en = s.end /\ args = s.args
  OBVIOUS
<1>2. st \in Nat /\ en \in Nat /\ st <= i /\ en < i
  BY <1>1 DEF Blanked
<1>3. L \in Nat /\ i \in 1 .. L - 1
  BY <1>1 DEF Lettered
<1>4. /\ i \in Nat /\ (i + 1) - 1 = i /\ i + 1 \in 1 .. L /\ i < i + 1 /\ i # 0
      /\ i + 1 <= L /\ i + 1 <= i + 1 /\ st + 1 \in Nat /\ st + 1 <= i + 1
      /\ st <= i + 1 /\ en < i + 1 /\ st <= i /\ en + 1 <= L /\ i + 1 \in Nat
  BY <1>2, <1>3, SMT
<1>5. IsScanned(r, s, line, i)
  <2>1. \E a, b, c : s = [args |-> a, start |-> b, end |-> c]
    BY DEF Blanked
  <2> QED BY <2>1, ScannedIs
<1>6. \E a, b, c : r = [args |-> a, start |-> b, end |-> c]
  BY <1>5 DEF IsScanned
<1>7. CASE line[i + 1] # Blank
  <2>1. r.args = args /\ r.start = st /\ r.end = i
    BY <1>1, <1>5, <1>7 DEF IsScanned
  <2>2. r.start \in Nat /\ r.end \in Nat /\ r.start <= i + 1 /\ r.end < i + 1
    BY <1>2, <1>4, <2>1
  <2>3. CASE /\ args = <<>> /\ st = i - 1 /\ en = 0
             /\ \A k \in 2 .. i : line[k] = Blank
    <3>1. i # 1
      <4>1. ASSUME i = 1 PROVE FALSE
        <5>1. i + 1 = 2
          BY <4>1, SMT
        <5> QED BY <1>7, <5>1
      <4> QED BY <4>1
    <3>2. st <= i /\ st + 1 = i /\ i \in 2 .. i
      BY <1>2, <1>4, <2>3, <3>1, SMT
    <3>3. line[st + 1] = Blank
      BY <2>3, <3>2
    <3> QED BY <1>4, <1>6, <2>1, <2>2, <2>3, <3>3 DEF Blanked
  <2>4. CASE args = <<>> /\ st <= en /\ en # 0 /\ line[st + 1] = Blank
    BY <1>4, <1>6, <2>1, <2>2, <2>4 DEF Blanked
  <2>5. CASE FirstIsBlank(args)
    BY <1>6, <2>1, <2>2, <2>5 DEF Blanked
  <2> QED BY <1>1, <2>3, <2>4, <2>5 DEF Blanked
<1>8. CASE line[i + 1] = Blank /\ (st > en \/ en = 0)
  <2>1. r.args = args /\ r.start = st + 1 /\ r.end = en
    BY <1>1, <1>5, <1>8 DEF IsScanned
  <2>2. r.start \in Nat /\ r.end \in Nat /\ r.start <= i + 1 /\ r.end < i + 1
    BY <1>2, <1>4, <2>1
  <2>3. CASE /\ args = <<>> /\ st = i - 1 /\ en = 0
             /\ \A k \in 2 .. i : line[k] = Blank
    <3>1. st + 1 = (i + 1) - 1 /\ \A k \in 2 .. i + 1 : k \in 2 .. i \/ k = i + 1
      BY <1>2, <1>4, <2>3, SMT
    <3>2. \A k \in 2 .. i + 1 : line[k] = Blank
      BY <1>8, <2>3, <3>1
    <3> QED BY <1>6, <2>1, <2>2, <2>3, <3>1, <3>2 DEF Blanked
  <2>4. CASE args = <<>> /\ st <= en /\ en # 0 /\ line[st + 1] = Blank
    <3>1. FALSE
      <4>1. (st > en \/ en = 0) /\ st <= en /\ en # 0
        BY <1>8, <2>4
      <4> QED BY <1>2, <4>1, SMT
    <3> QED BY <3>1
  <2>5. CASE FirstIsBlank(args)
    BY <1>6, <2>1, <2>2, <2>5 DEF Blanked
  <2> QED BY <1>1, <2>3, <2>4, <2>5 DEF Blanked
<1>9. CASE line[i + 1] = Blank /\ ~(st > en \/ en = 0)
  <2>1. /\ r.args = Append(args, SubSeq(line, st + 1, en + 1))
        /\ r.start = i + 1 /\ r.end = en
    BY <1>1, <1>5, <1>9 DEF IsScanned
  <2>2. r.start \in Nat /\ r.end \in Nat /\ r.start <= i + 1 /\ r.end < i + 1
    BY <1>2, <1>4, <2>1
  <2>3. st <= en /\ en # 0
    <3>1. ~(st > en \/ en = 0)
      BY <1>9
    <3> QED BY <1>2, <3>1, SMT
  <2>4. (args = <<>> /\ line[st + 1] = Blank) \/ FirstIsBlank(args)
    BY <1>1, <2>3 DEF Blanked
  <2>5. FirstIsBlank(r.args)
    <3>1. PICK u : u = r.args
      OBVIOUS
    <3>2. en + 1 <= Len(line)
      BY <1>1, <1>4
    <3>3. FirstIsBlank(u)
      BY <1>2, <2>1, <2>3, <2>4, <3>1, <3>2, BlankAppended
    <3> QED BY <3>1, <3>3
  <2> QED BY <1>6, <2>2, <2>5 DEF Blanked
<1> QED BY <1>7, <1>8, <1>9

\* A list of words without the sign for the background is one.
LEMMA ForegroundIsList ==
    ASSUME NEW w, WordList(w), Len(w) >= 1
    PROVE  WordList(Foreground(w))
<1>1. CASE Last(w) = Background
  <2>1. PICK n, m, v : n = Len(w) /\ m = n - 1 /\ v = SubSeq(w, 1, m)
    OBVIOUS
  <2>2. n \in Nat /\ n >= 1 /\ w \in Seq(Seq(STRING))
    BY <2>1 DEF WordList
  <2>3. m \in 0 .. n /\ \A l \in 1 .. m : l \in 1 .. n
    BY <2>1, <2>2, SMT
  <2>4. Begins(v, Seq(STRING), w, m)
    BY <2>1, <2>2, <2>3, BeginningIs
  <2>5. WordList(v)
    BY <2>1, <2>3, <2>4 DEF Begins, WordList
  <2> QED BY <1>1, <2>1, <2>5 DEF Foreground, Front
<1>2. CASE Last(w) # Background
  BY <1>2 DEF Foreground
<1> QED BY <1>1, <1>2

\* No file has a name that begins with a blank, the first argument is kept.
LEMMA BlankIsNoFile ==
    ASSUME NEW a, FirstIsBlank(a)
    PROVE  Foreground(a) \in Seq(Seq(STRING)) /\ Foreground(a)[1] \notin DOMAIN File
<1>1. PICK n, x : n = Len(a) /\ x = a[1]
  OBVIOUS
<1>2. n \in Nat /\ n >= 1 /\ a \in Seq(Seq(STRING)) /\ x \in Seq(STRING) /\ Len(x) >= 1
        /\ x[1] = Blank
  <2>1. n \in Nat /\ n >= 1 /\ a \in Seq(Seq(STRING))
    BY <1>1 DEF FirstIsBlank
  <2>2. 1 \in 1 .. n
    BY <2>1, SMT
  <2> QED BY <1>1, <2>1, <2>2 DEF FirstIsBlank
<1>3. x \notin DOMAIN File
  <2>1. ASSUME x \in DOMAIN File PROVE FALSE
    <3>1. PICK m : m = Len(x)
      OBVIOUS
    <3>2. m \in Nat /\ m >= 1 /\ DOMAIN x = 1 .. m
      BY <1>2, <3>1
    <3>3. 1 \in DOMAIN x
      BY <3>2, SMT
    <3>4. x[1] # Blank
      BY <2>1, <3>3, ExecAssumption, Zenon
    <3> QED BY <1>2, <3>4
  <2> QED BY <2>1
<1>4. Foreground(a)[1] = x /\ Foreground(a) \in Seq(Seq(STRING))
  <2>1. CASE Last(a) # Background
    BY <1>1, <1>2, <2>1 DEF Foreground
  <2>2. CASE Last(a) = Background
    <3>1. n # 1
      <4>1. ASSUME n = 1 PROVE FALSE
        <5>1. x = Background
          BY <1>1, <2>2, <4>1 DEF Last
        <5> QED BY <1>2, <5>1, BackgroundIsNoBlank
      <4> QED BY <4>1
    <3>2. PICK m, v : m = n - 1 /\ v = SubSeq(a, 1, m)
      OBVIOUS
    <3>3. m \in 0 .. n /\ 1 \in 1 .. m
      <4>1. n \in Nat /\ n >= 1 /\ n # 1
        BY <1>2, <3>1
      <4> QED BY <3>2, <4>1, SMT
    <3>4. Begins(v, Seq(STRING), a, m)
      BY <1>1, <1>2, <3>2, <3>3, BeginningIs
    <3>5. v[1] = x /\ v \in Seq(Seq(STRING))
      BY <1>1, <3>3, <3>4 DEF Begins
    <3> QED BY <1>1, <2>2, <3>2, <3>5 DEF Foreground, Front
  <2> QED BY <2>1, <2>2
<1> QED BY <1>3, <1>4

\* What IsCommand() says of a line.
LEMMA CommandIs ==
    ASSUME NEW line, IsCommand(line)
    PROVE  /\ Lettered(line) /\ 1 \in 1 .. Len(line) /\ line[1] # Blank
           /\ Len(line) = 1 \/ \E k \in 2 .. Len(line) : line[k] # Blank
<1>1. PICK n : n = Len(line)
  OBVIOUS
<1>2. line \in Seq(STRING) /\ line # <<>> /\ n \in Nat /\ DOMAIN line = 1 .. n
  BY <1>1 DEF IsCommand
<1>3. n # 0
  <2>1. ASSUME n = 0 PROVE FALSE
    <3>1. line = <<>>
      BY <1>1, <1>2, <2>1, EmptySeq
    <3> QED BY <1>2, <3>1
  <2> QED BY <2>1
<1>4. 1 \in 1 .. n
  BY <1>2, <1>3, SMT
<1>5. /\ line[1] # Blank
      /\ \A k \in DOMAIN line : line[k] # Nul
      /\ Len(line) = 1 \/ \E k \in 2 .. Len(line) : line[k] # Blank
  BY Zenon DEF IsCommand
<1>6. Lettered(line)
  BY <1>1, <1>2, <1>5 DEF Lettered
<1> QED BY <1>1, <1>4, <1>5, <1>6

\* If the file of the command is there, the arguments are the words.
LEMMA ArgumentsAreWords ==
    ASSUME NEW line, IsCommand(line), parse_command(line)[1] \in DOMAIN File
    PROVE  /\ parse_command(line) = Words(line) /\ WordList(Words(line))
           /\ Len(Words(line)) < ArgumentBuffer
<1>1. PICK L : L = Len(line)
  OBVIOUS
<1>2. Lettered(line) /\ line[1] # Blank /\ 1 \in 1 .. L
  BY <1>1, CommandIs
<1>3. L = 1 \/ \E k \in 2 .. L : line[k] # Blank
  BY <1>1, CommandIs
<1>4. L \in Nat
  BY <1>1, <1>2 DEF Lettered
<1>5. PICK f : AreScans(f, L, line) /\ Scanned(line) = f[L]
  BY <1>1, <1>4, ScansAre
<1>6. PICK g : AreWords(g, L, line) /\ AllWords(line) = g[L]
  BY <1>1, <1>4, WordsAre
<1>7. ASSUME NEW k \in 0 .. L - 1
      PROVE  k + 1 \in 0 .. L /\ k + 1 # 0 /\ (k + 1) - 1 = k
  BY <1>4, SMT
<1>8. f[0] = [args |-> <<>>, start |-> 0, end |-> 0] /\ g[0] = <<>>
  <2>1. 0 \in 0 .. L
    BY <1>4, SMT
  <2> QED BY <1>5, <1>6, <2>1 DEF AreScans, AreWords
<1>9. \A k \in 0 .. L - 1 : f[k + 1] = Scan(line, f[k], k)
  BY <1>5, <1>7 DEF AreScans
<1>10. \A k \in 0 .. L - 1 : g[k + 1] = WithLetter(g[k], line, k + 1)
  BY <1>6, <1>7 DEF AreWords
<1>11. 0 \in 0 .. L - 1 /\ 0 + 1 = 1 /\ \A k \in 0 .. L - 1 : k = 0 \/ k \in 1 .. L - 1
  BY <1>2, <1>4, SMT
<1>12. /\ f[1] = Scan(line, [args |-> <<>>, start |-> 0, end |-> 0], 0)
       /\ g[1] = WithLetter(<<>>, line, 1)
  BY <1>8, <1>9, <1>10, <1>11
<1>13. PICK s, args : s = f[L] /\ args = ScannedArgs(s, line)
  OBVIOUS
<1>14. parse_command(line) = Fitting(Foreground(args)) /\ Words(line) = Foreground(g[L])
  BY <1>5, <1>6, <1>13, LastIsLeftOut
<1>15. L # 0 /\ L \in 0 .. L
  BY <1>2, <1>4, SMT
<1>16. CASE L = 1 \/ line[2] # Blank
  <2> DEFINE T == {k \in 0 .. L : k # 0 => Aligned(f[k], g[k], k, line)}
  <2>1. 0 \in T
    BY <1>4, SMT
  <2>2. ASSUME NEW k \in 0 .. L - 1, k \in T PROVE k + 1 \in T
    <3>1. CASE k = 0
      <4>1. Aligned(f[1], g[1], 1, line)
        BY <1>1, <1>2, <1>12, AlignedFirst
      <4> QED BY <1>7, <1>11, <3>1, <4>1
    <3>2. CASE k # 0
      <4>1. k \in 1 .. L - 1
        BY <1>11, <3>2
      <4>2. line[2] # Blank
        <5>1. L # 1
          <6>1. k \in 1 .. L - 1 => L # 1
            BY <1>4, SMT
          <6> QED BY <4>1, <6>1
        <5> QED BY <1>16, <5>1
      <4>3. Aligned(f[k], g[k], k, line)
        BY <2>2, <3>2
      <4>4. Aligned(f[k + 1], g[k + 1], k + 1, line)
        BY <1>1, <1>2, <1>9, <1>10, <4>1, <4>2, <4>3, AlignedNext
      <4> QED BY <1>7, <4>4
    <3> QED BY <3>1, <3>2
  <2> HIDE DEF T
  <2>3. \A k \in 0 .. L : k \in T
    BY <1>4, <2>1, <2>2, Induction
  <2>4. PICK w : w = g[L]
    OBVIOUS
  <2>5. Aligned(s, w, L, line)
    BY <1>13, <1>15, <2>3, <2>4 DEF T
  <2>6. args = w
    <3>1. PICK st, en : st = s.start /\ en = s.end
      OBVIOUS
    <3>2. st \in Nat /\ en \in Nat /\ en < L
      BY <2>5, <3>1 DEF Aligned
    <3>3. CASE line[L] # Blank
      <4>1. en = L - 1 /\ st < L /\ w = Append(s.args, SubSeq(line, st + 1, L))
        BY <2>5, <3>1, <3>3 DEF Aligned
      <4>2. ~(st > en) /\ en + 1 = L
        <5>1. en = L - 1 /\ st < L
          BY <4>1
        <5> QED BY <1>4, <3>2, <5>1, SMT
      <4> QED BY <1>13, <3>1, <4>1, <4>2 DEF ScannedArgs
    <3>4. CASE line[L] = Blank
      <4>1. st = L /\ w = s.args
        BY <2>5, <3>1, <3>4 DEF Aligned
      <4>2. st > en
        BY <1>4, <3>2, <4>1, SMT
      <4> QED BY <1>13, <3>1, <4>1, <4>2 DEF ScannedArgs
    <3> QED BY <3>3, <3>4
  <2>7. WordList(Foreground(w))
    BY <2>5, ForegroundIsList DEF Aligned
  <2>8. PICK words : words = Foreground(w)
    OBVIOUS
  <2>9. words \in Seq(Seq(STRING)) /\ Fitting(words)[1] \in DOMAIN File
    BY <1>14, <2>4, <2>6, <2>7, <2>8 DEF WordList
  <2>10. Fitting(words) = words /\ Len(words) < ArgumentBuffer
    BY <2>9, FileFits
  <2> QED BY <1>14, <2>4, <2>6, <2>7, <2>8, <2>10
<1>17. CASE L # 1 /\ line[2] = Blank
  <2> DEFINE T == {k \in 0 .. L : k # 0 => Blanked(f[k], k, line)}
  <2>1. 0 \in T
    BY <1>4, SMT
  <2>2. ASSUME NEW k \in 0 .. L - 1, k \in T PROVE k + 1 \in T
    <3>1. CASE k = 0
      <4>1. Blanked(f[1], 1, line)
        BY <1>2, <1>12, BlankedFirst
      <4> QED BY <1>7, <1>11, <3>1, <4>1
    <3>2. CASE k # 0
      <4>1. k \in 1 .. L - 1
        BY <1>11, <3>2
      <4>2. Blanked(f[k], k, line)
        BY <2>2, <3>2
      <4>3. Blanked(f[k + 1], k + 1, line)
        BY <1>1, <1>2, <1>9, <1>17, <4>1, <4>2, BlankedNext
      <4> QED BY <1>7, <4>3
    <3> QED BY <3>1, <3>2
  <2> HIDE DEF T
  <2>3. \A k \in 0 .. L : k \in T
    BY <1>4, <2>1, <2>2, Induction
  <2>4. Blanked(s, L, line)
    BY <1>13, <1>15, <2>3 DEF T
  <2>5. PICK st, en : st = s.start /\ en = s.end
    OBVIOUS
  <2>6. st \in Nat /\ en \in Nat /\ en < L
    BY <2>4, <2>5 DEF Blanked
  <2>7. (s.args = <<>> /\ st <= en /\ line[st + 1] = Blank) \/ FirstIsBlank(s.args)
    <3>1. PICK k \in 2 .. L : line[k] # Blank
      BY <1>3, <1>17
    <3> QED BY <2>4, <2>5, <3>1 DEF Blanked
  <2>8. FirstIsBlank(args)
    <3>1. CASE st > en
      <4>1. ~(st <= en)
        BY <2>6, <3>1, SMT
      <4> QED BY <1>13, <2>5, <2>7, <3>1, <4>1 DEF ScannedArgs
    <3>2. CASE ~(st > en)
      <4>1. st <= en /\ en + 1 <= L
        BY <1>4, <2>6, <3>2, SMT
      <4>2. args = Append(s.args, SubSeq(line, st + 1, en + 1))
        BY <1>13, <2>5, <3>2 DEF ScannedArgs
      <4>3. PICK before : before = s.args
        OBVIOUS
      <4>4. (before = <<>> /\ line[st + 1] = Blank) \/ FirstIsBlank(before)
        BY <2>7, <4>3
      <4> QED BY <1>1, <1>2, <2>6, <4>1, <4>2, <4>3, <4>4, BlankAppended
    <3> QED BY <3>1, <3>2
  <2>9. PICK words : words = Foreground(args)
    OBVIOUS
  <2>10. words \in Seq(Seq(STRING)) /\ words[1] \notin DOMAIN File
    BY <2>8, <2>9, BlankIsNoFile
  <2>11. Fitting(words)[1] \in DOMAIN File
    BY <1>14, <2>9
  <2>12. Fitting(words) = words
    BY <2>10, <2>11, FileFits
  <2> QED BY <2>10, <2>11, <2>12
<1> QED BY <1>16, <1>17

\* The invariant for the arguments.
ArgumentInv ==
    /\ live \subseteq Proc
    /\ argv = [p \in Proc |-> argv[p]] /\ given = [p \in Proc |-> given[p]]
    /\ \A p \in live : Arrived(argv[p], given[p]) /\ Len(given[p]) < ArgumentBuffer

\* The shell and a program that ended have none.
LEMMA NoneArrive == Arrived(<<>>, <<>>) /\ Len(<<>>) < ArgumentBuffer
<1>1. PICK none : none = <<>>
  OBVIOUS
<1>2. Len(none) = 0 /\ DOMAIN none = {}
  BY <1>1
<1>3. Arrived(none, none)
  BY <1>2 DEF Arrived
<1>4. Len(none) < ArgumentBuffer
  <2>1. ArgumentBuffer \in Nat \ {0}
    BY ExecAssumption
  <2> QED BY <1>2, <2>1
<1> QED BY <1>1, <1>3, <1>4

\* Of one process the arguments change: they have arrived.
LEMMA ArgumentsSet ==
    ASSUME ArgumentInv, NEW q \in Proc, live' \subseteq live \cup {q}, NEW x, NEW y, Arrived(x, y),
           Len(y) < ArgumentBuffer,
           argv' = [argv EXCEPT ![q] = x], given' = [given EXCEPT ![q] = y]
    PROVE  ArgumentInv'
<1>1. live' \subseteq Proc
  BY DEF ArgumentInv
<1>2. argv' = [p \in Proc |-> argv'[p]] /\ given' = [p \in Proc |-> given'[p]]
  BY DEF ArgumentInv
<1>3. argv'[q] = x /\ given'[q] = y /\ \A p \in Proc : p # q => argv'[p] = argv[p]
        /\ given'[p] = given[p]
  BY DEF ArgumentInv
<1>4. ASSUME NEW p \in live'
      PROVE  Arrived(argv'[p], given'[p]) /\ Len(given'[p]) < ArgumentBuffer
  <2>1. CASE p = q
    BY <1>3, <2>1
  <2>2. CASE p # q
    <3>1. p \in live /\ p \in Proc
      BY <1>1, <2>2
    <3>2. Arrived(argv[p], given[p]) /\ Len(given[p]) < ArgumentBuffer
      BY <3>1 DEF ArgumentInv
    <3>3. argv'[p] = argv[p] /\ given'[p] = given[p]
      BY <1>3, <2>2, <3>1
    <3> QED BY <3>2, <3>3
  <2> QED BY <2>1, <2>2
<1> QED BY <1>1, <1>2, <1>4 DEF ArgumentInv

\* Every command that starts a program, with any letters, blanks and sign for the
\* background, reaches it: parse_command() finds its words (sbush.c:186), which are
\* fewer than it has room for (sbush.c:172), and what exec() pushes (task.c:1021) is found at the
\* pointers, each argument or, without room on the page, its beginning, and all of
\* them whole if together they fit.
THEOREM ArgumentsDoArrive == ExecSpec => []ArgumentsArrive
<1>1. ExecInit => ArgumentInv
  <2> SUFFICES ASSUME ExecInit PROVE ArgumentInv
    OBVIOUS
  <2>1. live = {Shell} /\ Shell \in Proc
    BY ExecAssumption DEF ExecInit
  <2>2. argv = [p \in Proc |-> argv[p]] /\ given = [p \in Proc |-> given[p]]
    BY DEF ExecInit
  <2>3. argv[Shell] = <<>> /\ given[Shell] = <<>>
    BY <2>1 DEF ExecInit
  <2> QED BY <2>1, <2>2, <2>3, NoneArrive DEF ArgumentInv
<1>2. ArgumentInv /\ [ExecNext]_execVars => ArgumentInv'
  <2> SUFFICES ASSUME ArgumentInv, [ExecNext]_execVars PROVE ArgumentInv'
    OBVIOUS
  <2>1. ASSUME NEW p \in Proc, NEW n \in Name, NEW v \in Value, setenv(p, n, v)
        PROVE  ArgumentInv'
    BY <2>1 DEF setenv, arguments, ArgumentInv
  <2>2. ASSUME NEW p \in Proc, NEW q \in Proc, fork(p, q)
        PROVE  ArgumentInv'
    <3>1. /\ p \in live /\ live' = live \cup {q}
          /\ argv' = [argv EXCEPT ![q] = argv[p]] /\ given' = [given EXCEPT ![q] = given[p]]
      BY <2>2 DEF fork
    <3>2. PICK x, y : x = argv[p] /\ y = given[p]
      OBVIOUS
    <3>3. Arrived(x, y) /\ Len(y) < ArgumentBuffer
      BY <3>1, <3>2 DEF ArgumentInv
    <3> QED BY <3>1, <3>2, <3>3, ArgumentsSet
  <2>3. ASSUME NEW q \in Proc, NEW line \in Lines, exec(q, line)
        PROVE  ArgumentInv'
    <3>1. PICK args, x, y : args = parse_command(line) /\ x = ArgumentsFound(args)
            /\ y = Words(line)
      OBVIOUS
    <3>2. /\ args[1] \in DOMAIN File /\ live' = live
          /\ argv' = [argv EXCEPT ![q] = x] /\ given' = [given EXCEPT ![q] = y]
      BY <2>3, <3>1 DEF exec
    <3>3. IsCommand(line)
      BY ExecAssumption
    <3>4. args = y /\ WordList(y) /\ Len(y) < ArgumentBuffer
      BY <3>1, <3>2, <3>3, ArgumentsAreWords
    <3>5. Arrived(x, y)
      <4>1. y \in Seq(Seq(STRING)) /\ \A a \in 1 .. Len(y) : IsWord(y[a])
        BY <3>4 DEF WordList
      <4>2. Arrived(ArgumentsFound(y), y)
        BY <4>1, AllArrive
      <4> QED BY <3>1, <3>4, <4>2
    <3> QED BY <3>2, <3>4, <3>5, ArgumentsSet
  <2>4. ASSUME NEW q \in Proc, exit(q)
        PROVE  ArgumentInv'
    <3>1. PICK x : x = <<>>
      OBVIOUS
    <3>2. /\ live' = live \ {q}
          /\ argv' = [argv EXCEPT ![q] = x] /\ given' = [given EXCEPT ![q] = x]
      BY <2>4, <3>1 DEF exit
    <3>3. live' \subseteq live \cup {q} /\ Arrived(x, x) /\ Len(x) < ArgumentBuffer
      BY <3>1, <3>2, NoneArrive
    <3> QED BY <3>2, <3>3, ArgumentsSet
  <2>5. CASE UNCHANGED execVars
    BY <2>5 DEF execVars, arguments, ArgumentInv
  <2> QED BY <2>1, <2>2, <2>3, <2>4, <2>5 DEF ExecNext
<1>3. ArgumentInv => ArgumentsArrive
  BY DEF ArgumentInv, Arrived, ArgumentsArrive
<1> QED BY <1>1, <1>2, <1>3, PTL DEF ExecSpec
===============================================================================
