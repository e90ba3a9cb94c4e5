-------------------------- MODULE AddressSpaceProofs --------------------------
(***************************************************************************)
(* Copy-on-write for any number of processes, frames and pages, as long as *)
(* only the shell forks and its children call exec: a page that is         *)
(* writable without a fault is private, no mapped frame is free, and the   *)
(* programs see memories of their own (PrivateMemory), whatever malloc()   *)
(* and free() make of their lists of areas.  Of the lists it matters only  *)
(* that no area but the stack's reaches the page of the stack.             *)
(***************************************************************************)
EXTENDS AddressSpace, TLAPS, WellFoundedInduction, SequenceTheorems

\* A task that is not in the run queue maps nothing.
DeadMapNothing == \A t \in Task \ live : pte[t] = EmptyTable

\* A frame is mapped at one page number only: the count of sharers, which
\* compares the tables at the page that faults, misses none.
SamePageNumber ==
    \A t, u \in live : \A p, q \in Page :
        Present(t, p) /\ pte[u][q].frame = pte[t][p].frame => p = q

\* Only the shell and the children it forked share frames: a program that may
\* end is not among them.
ProgramsAreAlone ==
    \A t \in live \ (forked \cup {sbush}) : \A u \in live \ {t}, p, q \in Page :
        Present(t, p) => pte[u][q].frame # pte[t][p].frame

\* The shell is never forked and never ends.
ShellStays == sbush \in live \ forked /\ forked \subseteq live

\* Frames in use and free frames are frames.
TablesAreTyped ==
    /\ live \subseteq Task
    /\ free \subseteq Frame
    /\ pte \in [Task -> [Page -> [frame : Frame \cup {NoFrame}, rw : BOOLEAN]]]

\* An entry that is not present is not writable: a child that shares nothing
\* at a page of its parent does not make the parent's entry a shared one.
WritableIsPresent == \A t \in live, p \in Page : pte[t][p].rw => Present(t, p)

\* Inductive as long as only the shell forks.
MapInv ==
    /\ TablesAreTyped
    /\ WritableIsPresent
    /\ ShellStays
    /\ DeadMapNothing
    /\ NoFreeFrameMapped
    /\ WritableIsExclusive
    /\ SamePageNumber
    /\ ProgramsAreAlone

-------------------------------------------------------------------------------
\* kmalloc() returns different pages that the allocator had.
LEMMA Allocated ==
    ASSUME NEW S, Enough(S)
    PROVE  /\ kmalloc(S) \in [S -> free]
           /\ \A x, y \in S : kmalloc(S)[x] = kmalloc(S)[y] => x = y
<1>1. kmalloc(S) \in Distinct(S, free)
  BY DEF Enough, kmalloc
<1> QED BY <1>1 DEF Distinct, Injective

\* kmalloc() of one page.
LEMMA AllocatedPage ==
    ASSUME NEW p, Enough({p})
    PROVE  kmalloc({p})[p] \in free
  BY Allocated

-------------------------------------------------------------------------------
\* The invariant holds when initUserProcess() has loaded the shell.
LEMMA InitMaps == Init => MapInv
<1> SUFFICES ASSUME Init
             PROVE  MapInv
  OBVIOUS
<1> DEFINE g == CHOOSE h \in Distinct(ImagePages, Frame) : TRUE
<1>1. /\ g \in [ImagePages -> Frame]
      /\ \A x, y \in ImagePages : g[x] = g[y] => x = y
  BY ShellFits DEF Distinct, Injective
<1>2. /\ live = {sbush}
      /\ forked = {}
      /\ pte = [t \in Task |-> IF t = sbush THEN ImageTable(g) ELSE EmptyTable]
      /\ free = Frame \ {g[p] : p \in ImagePages}
  BY DEF Init
<1> HIDE DEF g
<1>3. /\ sbush \in Task
      /\ NoFrame \notin Frame
      /\ ImagePages \subseteq Page
  BY AddressAssumption DEF ImagePages
<1>4. pte \in [Task -> [Page -> [frame : Frame \cup {NoFrame}, rw : BOOLEAN]]]
  BY <1>1, <1>2, <1>3 DEF ImageTable, EmptyTable, Absent
<1>5. /\ \A p \in ImagePages : pte[sbush][p].frame = g[p]
      /\ \A p \in Page \ ImagePages : pte[sbush][p].frame = NoFrame /\ ~pte[sbush][p].rw
  BY <1>1, <1>2, <1>3 DEF ImageTable, Absent
<1>6. \A p \in ImagePages : g[p] \in Frame /\ g[p] # NoFrame /\ g[p] \notin free
  BY <1>1, <1>2, <1>3
<1>7. NoFrame \notin free
  BY <1>2, <1>3
<1>8. TablesAreTyped /\ ShellStays /\ DeadMapNothing /\ ProgramsAreAlone
  BY <1>2, <1>3, <1>4 DEF TablesAreTyped, ShellStays, DeadMapNothing, ProgramsAreAlone
<1>9. WritableIsPresent /\ NoFreeFrameMapped
  BY <1>2, <1>3, <1>5, <1>6, <1>7 DEF WritableIsPresent, NoFreeFrameMapped, Present
<1>10. WritableIsExclusive
  BY <1>1, <1>2, <1>3, <1>5, <1>6 DEF WritableIsExclusive
<1>11. SamePageNumber
  BY <1>1, <1>2, <1>3, <1>5, <1>6 DEF SamePageNumber, Present
<1> QED BY <1>8, <1>9, <1>10, <1>11 DEF MapInv

-------------------------------------------------------------------------------
\* A step that leaves the tasks and the tables alone and takes no page back.
LEMMA TablesStay ==
    ASSUME MapInv, UNCHANGED <<live, forked, pte, free>>
    PROVE  MapInv'
BY DEF MapInv, TablesAreTyped, WritableIsPresent, ShellStays, DeadMapNothing,
       NoFreeFrameMapped, WritableIsExclusive, SamePageNumber, ProgramsAreAlone, Present

\* A page from the allocator becomes one entry of one table.
LEMMA FreshEntry ==
    ASSUME MapInv, NEW t \in live, NEW p \in Page, NEW f \in free,
           pte' = [pte EXCEPT ![t][p] = [frame |-> f, rw |-> TRUE]],
           free' = free \ {f},
           UNCHANGED <<live, forked>>
    PROVE  MapInv'
<1>1. /\ live \subseteq Task
      /\ free \subseteq Frame
      /\ pte \in [Task -> [Page -> [frame : Frame \cup {NoFrame}, rw : BOOLEAN]]]
      /\ NoFrame \notin Frame
  BY AddressAssumption DEF MapInv, TablesAreTyped
<1>2. pte' \in [Task -> [Page -> [frame : Frame \cup {NoFrame}, rw : BOOLEAN]]]
  BY <1>1
<1>3. \A u \in Task, q \in Page : (u # t \/ q # p) => pte'[u][q] = pte[u][q]
  BY <1>1
<1>4. pte'[t][p].frame = f /\ pte'[t][p].rw = TRUE
  BY <1>1
<1>5. \A u \in live, q \in Page : pte[u][q].frame # f
  BY DEF MapInv, NoFreeFrameMapped
<1>6. f # NoFrame
  BY <1>1
<1>7. TablesAreTyped' /\ ShellStays'
  BY <1>1, <1>2 DEF MapInv, TablesAreTyped, ShellStays
<1>8. DeadMapNothing'
  BY <1>1 DEF MapInv, DeadMapNothing
<1>9. WritableIsPresent' /\ NoFreeFrameMapped'
  BY <1>1, <1>3, <1>4, <1>5, <1>6 DEF MapInv, WritableIsPresent, NoFreeFrameMapped, Present
<1>10. WritableIsExclusive'
  BY <1>1, <1>3, <1>4, <1>5 DEF MapInv, WritableIsExclusive
<1>11. SamePageNumber'
  BY <1>1, <1>3, <1>4, <1>5 DEF MapInv, SamePageNumber, Present
<1>12. ProgramsAreAlone'
  BY <1>1, <1>3, <1>4, <1>5 DEF MapInv, ProgramsAreAlone, Present
<1> QED BY <1>7, <1>8, <1>9, <1>10, <1>11, <1>12 DEF MapInv

\* The page of the last of its sharers becomes writable again: its number is
\* the only one the frame has, so that the tables were searched at the right place.
LEMMA LastSharer ==
    ASSUME MapInv, NEW t \in live, NEW p \in Page, Present(t, p), Sharers(t, p) = {},
           pte' = [pte EXCEPT ![t][p].rw = TRUE],
           UNCHANGED <<live, forked, free>>
    PROVE  MapInv'
<1>1. /\ live \subseteq Task
      /\ pte \in [Task -> [Page -> [frame : Frame \cup {NoFrame}, rw : BOOLEAN]]]
  BY DEF MapInv, TablesAreTyped
<1> DEFINE e == [pte[t][p] EXCEPT !.rw = TRUE]
<1>a. pte[t][p] \in [frame : Frame \cup {NoFrame}, rw : BOOLEAN]
  BY <1>1
<1>b. /\ e.frame = pte[t][p].frame
      /\ e \in [frame : Frame \cup {NoFrame}, rw : BOOLEAN]
  BY <1>a
<1>c. pte' = [pte EXCEPT ![t] = [pte[t] EXCEPT ![p] = e]]
  OBVIOUS
<1> HIDE DEF e
<1>d. [pte[t] EXCEPT ![p] = e] \in [Page -> [frame : Frame \cup {NoFrame}, rw : BOOLEAN]]
  BY <1>1, <1>b
<1>2. pte' \in [Task -> [Page -> [frame : Frame \cup {NoFrame}, rw : BOOLEAN]]]
  BY <1>1, <1>c, <1>d
<1>3. \A u \in Task, q \in Page : pte'[u][q].frame = pte[u][q].frame
  BY <1>1, <1>b, <1>c
<1>4. \A u \in Task, q \in Page : (u # t \/ q # p) => pte'[u][q].rw = pte[u][q].rw
  BY <1>1
<1>5. \A u \in live, q \in Page : pte[u][q].frame = pte[t][p].frame => q = p /\ u = t
  <2> SUFFICES ASSUME NEW u \in live, NEW q \in Page, pte[u][q].frame = pte[t][p].frame
               PROVE  q = p /\ u = t
    OBVIOUS
  <2>1. q = p
    BY DEF MapInv, SamePageNumber
  <2> QED BY <2>1 DEF Sharers
<1>6. TablesAreTyped' /\ ShellStays'
  BY <1>1, <1>2 DEF MapInv, TablesAreTyped, ShellStays
<1>7. DeadMapNothing'
  BY <1>1 DEF MapInv, DeadMapNothing
<1>8. WritableIsPresent'
  BY <1>1, <1>3, <1>4 DEF MapInv, WritableIsPresent, Present
<1>9. NoFreeFrameMapped'
  BY <1>1, <1>3 DEF MapInv, NoFreeFrameMapped
<1>10. WritableIsExclusive'
  BY <1>1, <1>3, <1>4, <1>5 DEF MapInv, WritableIsExclusive
<1>11. SamePageNumber'
  BY <1>1, <1>3 DEF MapInv, SamePageNumber, Present
<1>12. ProgramsAreAlone'
  BY <1>1, <1>3 DEF MapInv, ProgramsAreAlone, Present
<1> QED BY <1>6, <1>7, <1>8, <1>9, <1>10, <1>11, <1>12 DEF MapInv

\* A task leaves, and the frames that return to the allocator are such that
\* no other task maps them.
LEMMA TaskLeaves ==
    ASSUME MapInv, NEW t \in live \ {sbush},
           live' = live \ {t}, forked' = forked \ {t},
           pte' = [pte EXCEPT ![t] = EmptyTable],
           free' \subseteq Frame,
           \A u \in live \ {t}, p \in Page : pte[u][p].frame \in free' => pte[u][p].frame \in free
    PROVE  MapInv'
<1>1. /\ live \subseteq Task
      /\ pte \in [Task -> [Page -> [frame : Frame \cup {NoFrame}, rw : BOOLEAN]]]
  BY DEF MapInv, TablesAreTyped
<1>2. pte' \in [Task -> [Page -> [frame : Frame \cup {NoFrame}, rw : BOOLEAN]]]
  BY <1>1 DEF EmptyTable, Absent
<1>3. \A u \in live' : u \in live /\ pte'[u] = pte[u]
  BY <1>1
<1>4. TablesAreTyped' /\ ShellStays'
  BY <1>1, <1>2 DEF MapInv, TablesAreTyped, ShellStays
<1>5. DeadMapNothing'
  BY <1>1 DEF MapInv, DeadMapNothing
<1>6. WritableIsPresent' /\ NoFreeFrameMapped'
  BY <1>3 DEF MapInv, WritableIsPresent, NoFreeFrameMapped, Present
<1>7. WritableIsExclusive'
  BY <1>3 DEF MapInv, WritableIsExclusive
<1>8. SamePageNumber'
  BY <1>3 DEF MapInv, SamePageNumber, Present
<1>9. ProgramsAreAlone'
  BY <1>3 DEF MapInv, ProgramsAreAlone, Present
<1> QED BY <1>4, <1>5, <1>6, <1>7, <1>8, <1>9 DEF MapInv

\* exec() puts a task with pages of its own in the place of the caller.
LEMMA ExecMaps ==
    ASSUME MapInv, NEW t \in Task, exec(t)
    PROVE  MapInv'
<1> DEFINE g == kmalloc(ImagePages)
<1>1. /\ g \in [ImagePages -> free]
      /\ \A x, y \in ImagePages : g[x] = g[y] => x = y
  BY Allocated DEF exec
<1>2. PICK task \in Task \ live :
        /\ live' = (live \ {t}) \cup {task}
        /\ forked' = forked \ {t}
        /\ pte' = [pte EXCEPT ![t] = EmptyTable, ![task] = ImageTable(g)]
        /\ free' = free \ {g[p] : p \in ImagePages}
  BY DEF exec
<1> HIDE DEF g
<1>3. /\ live \subseteq Task
      /\ free \subseteq Frame
      /\ pte \in [Task -> [Page -> [frame : Frame \cup {NoFrame}, rw : BOOLEAN]]]
      /\ t \in live \ {sbush}
      /\ NoFrame \notin Frame
      /\ ImagePages \subseteq Page
  BY AddressAssumption DEF MapInv, TablesAreTyped, exec, ImagePages
<1>4. ImageTable(g) \in [Page -> [frame : Frame \cup {NoFrame}, rw : BOOLEAN]]
  BY <1>1, <1>3 DEF ImageTable, Absent
<1>5. pte' \in [Task -> [Page -> [frame : Frame \cup {NoFrame}, rw : BOOLEAN]]]
  BY <1>2, <1>3, <1>4 DEF EmptyTable, Absent
<1>6. pte'[task] = ImageTable(g)
  BY <1>2, <1>3
<1>7. /\ \A p \in ImagePages : pte'[task][p].frame = g[p]
      /\ \A p \in Page \ ImagePages : pte'[task][p].frame = NoFrame /\ ~pte'[task][p].rw
  BY <1>1, <1>3, <1>6 DEF ImageTable, Absent
<1>8. \A p \in ImagePages : g[p] \in free /\ g[p] # NoFrame /\ g[p] \notin free'
  BY <1>1, <1>2, <1>3
<1>9. \A u \in live' : u # task => u \in live /\ pte'[u] = pte[u]
  BY <1>2, <1>3
<1>10. \A u \in live', p \in Page : u # task => pte'[u][p].frame \notin free
  BY <1>9 DEF MapInv, NoFreeFrameMapped
<1>11. \A p \in Page : pte'[task][p].frame # NoFrame \/ pte'[task][p].rw =>
          p \in ImagePages /\ pte'[task][p].frame = g[p]
  BY <1>7
<1>12. \A p \in Page : pte'[task][p].frame \in free \cup {NoFrame}
  BY <1>7, <1>8
<1>13. \A u \in live', p, q \in Page : u # task =>
          /\ pte'[u][q].frame = pte'[task][p].frame => pte'[u][q].frame = NoFrame
          /\ pte'[u][q].frame \notin free
  BY <1>9, <1>10, <1>12
<1>14. TablesAreTyped' /\ ShellStays'
  BY <1>2, <1>3, <1>5 DEF MapInv, TablesAreTyped, ShellStays
<1>15. DeadMapNothing'
  BY <1>2, <1>3 DEF MapInv, DeadMapNothing
<1>16. WritableIsPresent'
  <2> SUFFICES ASSUME NEW u \in live', NEW p \in Page, pte'[u][p].rw
               PROVE  pte'[u][p].frame # NoFrame
    BY DEF WritableIsPresent, Present
  <2>1. CASE u = task
    BY <1>8, <1>11, <2>1
  <2>2. CASE u # task
    BY <1>9, <2>2 DEF MapInv, WritableIsPresent, Present
  <2> QED BY <2>1, <2>2
<1>17. NoFreeFrameMapped'
  BY <1>2, <1>3, <1>7, <1>8, <1>10 DEF NoFreeFrameMapped
<1>18. WritableIsExclusive'
  <2> SUFFICES ASSUME NEW a \in live', NEW p \in Page, pte'[a][p].rw,
                      NEW u \in live', NEW q \in Page,
                      pte'[u][q].frame = pte'[a][p].frame
               PROVE  u = a /\ q = p
    BY DEF WritableIsExclusive
  <2>1. pte'[a][p].frame # NoFrame
    BY <1>16 DEF WritableIsPresent, Present
  <2>2. CASE a = task /\ u = task
    BY <1>1, <1>11, <2>1, <2>2
  <2>3. CASE a # task /\ u # task
    BY <1>9, <2>3 DEF MapInv, WritableIsExclusive
  <2> QED BY <1>13, <2>1, <2>2, <2>3
<1>19. SamePageNumber'
  <2> SUFFICES ASSUME NEW a \in live', NEW u \in live', NEW p \in Page, NEW q \in Page,
                      pte'[a][p].frame # NoFrame,
                      pte'[u][q].frame = pte'[a][p].frame
               PROVE  p = q
    BY DEF SamePageNumber, Present
  <2>1. CASE a = task /\ u = task
    BY <1>1, <1>11, <2>1
  <2>2. CASE a # task /\ u # task
    BY <1>9, <2>2 DEF MapInv, SamePageNumber, Present
  <2> QED BY <1>13, <2>1, <2>2
<1>20. ProgramsAreAlone'
  <2> SUFFICES ASSUME NEW a \in live' \ (forked' \cup {sbush}), NEW u \in live' \ {a},
                      NEW p \in Page, NEW q \in Page,
                      pte'[a][p].frame # NoFrame
               PROVE  pte'[u][q].frame # pte'[a][p].frame
    BY DEF ProgramsAreAlone, Present
  <2>1. CASE a # task /\ u # task
    <3>1. a \in live \ (forked \cup {sbush}) /\ u \in live \ {a}
      BY <1>2, <1>9, <2>1
    <3>2. pte'[a] = pte[a] /\ pte'[u] = pte[u]
      BY <1>9, <2>1
    <3> QED BY <3>1, <3>2 DEF MapInv, ProgramsAreAlone, Present
  <2> QED BY <1>13, <2>1
<1> QED BY <1>14, <1>15, <1>16, <1>17, <1>18, <1>19, <1>20 DEF MapInv

\* The shell forks.  The child's stack is fresh, and its other entries are
\* read-only entries of the shell, at the same page numbers.
LEMMA ForkMaps ==
    ASSUME MapInv, fork(sbush)
    PROVE  MapInv'
<1> DEFINE stack == Copied(sbush)
           g == kmalloc(stack)
<1>1. /\ g \in [stack -> free]
      /\ \A x, y \in stack : g[x] = g[y] => x = y
  BY Allocated DEF fork
<1>2. PICK child \in Task \ live :
        /\ live' = live \cup {child}
        /\ forked' = forked \cup {child}
        /\ pte' = [pte EXCEPT ![child] = ChildTable(sbush, g),
                              ![sbush] = makeParentCr3asReadOnly(sbush)]
        /\ free' = free \ {g[p] : p \in stack}
  BY DEF fork
<1>3. stack \subseteq Page
  BY DEF Copied, Visited
<1> HIDE DEF g, stack
<1>4. /\ live \subseteq Task
      /\ free \subseteq Frame
      /\ pte \in [Task -> [Page -> [frame : Frame \cup {NoFrame}, rw : BOOLEAN]]]
      /\ sbush \in live \ forked
      /\ sbush \in Task
      /\ forked \subseteq live
      /\ NoFrame \notin Frame
  BY AddressAssumption DEF MapInv, TablesAreTyped, ShellStays
<1>5. \A p \in Page : pte[sbush][p] \in [frame : Frame \cup {NoFrame}, rw : BOOLEAN]
  BY <1>4
<1>6. \A p \in Page : /\ [pte[sbush][p] EXCEPT !.rw = FALSE].frame = pte[sbush][p].frame
                      /\ [pte[sbush][p] EXCEPT !.rw = FALSE].rw = FALSE
                      /\ [pte[sbush][p] EXCEPT !.rw = FALSE] \in
                            [frame : Frame \cup {NoFrame}, rw : BOOLEAN]
  BY <1>5
<1>7. /\ ChildTable(sbush, g) \in [Page -> [frame : Frame \cup {NoFrame}, rw : BOOLEAN]]
      /\ makeParentCr3asReadOnly(sbush) \in [Page -> [frame : Frame \cup {NoFrame}, rw : BOOLEAN]]
  BY <1>1, <1>3, <1>4, <1>5, <1>6 DEF ChildTable, makeParentCr3asReadOnly, Absent
<1>8. pte' \in [Task -> [Page -> [frame : Frame \cup {NoFrame}, rw : BOOLEAN]]]
  BY <1>2, <1>4, <1>7
<1>9. /\ pte'[child] = ChildTable(sbush, g)
      /\ pte'[sbush] = makeParentCr3asReadOnly(sbush)
      /\ \A u \in Task \ {child, sbush} : pte'[u] = pte[u]
  BY <1>2, <1>4
<1>10. \A p \in stack : /\ pte'[child][p].frame = g[p]
                        /\ g[p] \in free
                        /\ g[p] \notin free'
                        /\ g[p] # NoFrame
  BY <1>1, <1>2, <1>3, <1>4, <1>9 DEF ChildTable
<1>11. \A p \in Page \ stack :
          /\ ~pte'[child][p].rw
          /\ pte'[child][p].frame # NoFrame =>
                p \in Inherited(sbush) /\ pte'[child][p].frame = pte[sbush][p].frame
  BY <1>1, <1>3, <1>6, <1>9 DEF ChildTable, Absent
<1>12. \A p \in Page : /\ pte'[sbush][p].frame = pte[sbush][p].frame
                       /\ pte'[sbush][p].rw => pte[sbush][p].rw /\ p \notin Inherited(sbush)
  BY <1>6, <1>9 DEF makeParentCr3asReadOnly
<1>13. \A u \in live, p \in Page :
          /\ pte'[u][p].frame = pte[u][p].frame
          /\ pte'[u][p].rw => pte[u][p].rw
          /\ pte'[u][p].frame \notin free
  BY <1>2, <1>4, <1>9, <1>12 DEF MapInv, NoFreeFrameMapped
<1>14. \A u \in live' : u = child \/ (u # child /\ u \in live)
  BY <1>2
<1>s. \A p \in Page : pte[sbush][p].frame \notin free
  BY <1>4 DEF MapInv, NoFreeFrameMapped
<1>15. \A p, q \in Page :
          pte'[child][p].frame # NoFrame /\ pte'[child][q].frame = pte'[child][p].frame => p = q
  <2> SUFFICES ASSUME NEW p \in Page, NEW q \in Page, pte'[child][p].frame # NoFrame,
                      pte'[child][q].frame = pte'[child][p].frame
               PROVE  p = q
    OBVIOUS
  <2>1. CASE p \in stack /\ q \in stack
    BY <1>1, <1>10, <2>1
  <2>2. CASE p \notin stack /\ q \notin stack
    BY <1>4, <1>11, <2>2 DEF MapInv, SamePageNumber, Present
  <2>3. \A x \in stack, y \in Page \ stack :
           pte'[child][y].frame = pte'[child][x].frame => pte'[child][y].frame = NoFrame
    BY <1>3, <1>s, <1>10, <1>11
  <2> QED BY <1>10, <2>1, <2>2, <2>3
\* An entry of the child that another task also has.
<1>16. \A u \in live, p, q \in Page :
          pte'[child][p].frame # NoFrame /\ pte'[child][p].frame = pte'[u][q].frame =>
            /\ p \notin stack
            /\ p \in Inherited(sbush)
            /\ pte[sbush][p].frame = pte[u][q].frame
  <2> SUFFICES ASSUME NEW u \in live, NEW p \in Page, NEW q \in Page,
                      pte'[child][p].frame # NoFrame,
                      pte'[child][p].frame = pte'[u][q].frame
               PROVE  /\ p \notin stack
                      /\ p \in Inherited(sbush)
                      /\ pte[sbush][p].frame = pte[u][q].frame
    OBVIOUS
  <2>1. pte'[u][q].frame = pte[u][q].frame /\ pte[u][q].frame \notin free
    BY <1>13
  <2>2. p \notin stack
    BY <1>10, <2>1
  <2> QED BY <1>11, <2>1, <2>2
<1>17. TablesAreTyped' /\ ShellStays'
  BY <1>2, <1>4, <1>8 DEF TablesAreTyped, ShellStays
<1>18. DeadMapNothing'
  BY <1>2, <1>4, <1>9 DEF MapInv, DeadMapNothing
<1>19. WritableIsPresent'
  <2> SUFFICES ASSUME NEW u \in live', NEW p \in Page, pte'[u][p].rw
               PROVE  pte'[u][p].frame # NoFrame
    BY DEF WritableIsPresent, Present
  <2>1. CASE u = child
    BY <1>10, <1>11, <2>1
  <2>2. CASE u \in live
    BY <1>13, <2>2 DEF MapInv, WritableIsPresent, Present
  <2> QED BY <1>14, <2>1, <2>2
<1>20. NoFreeFrameMapped'
  <2> SUFFICES ASSUME NEW u \in live', NEW p \in Page
               PROVE  pte'[u][p].frame \notin free'
    BY DEF NoFreeFrameMapped
  <2>1. free' \subseteq free /\ NoFrame \notin free
    BY <1>2, <1>4
  <2>2. CASE u = child
    <3>1. CASE p \in stack
      BY <1>10, <2>2, <3>1
    <3>2. CASE p \notin stack
      BY <1>s, <1>11, <2>1, <2>2, <3>2
    <3> QED BY <3>1, <3>2
  <2>3. CASE u \in live
    BY <1>13, <2>1, <2>3
  <2> QED BY <1>14, <2>2, <2>3
<1>21. WritableIsExclusive'
  <2> SUFFICES ASSUME NEW a \in live', NEW p \in Page, pte'[a][p].rw,
                      NEW u \in live', NEW q \in Page,
                      pte'[u][q].frame = pte'[a][p].frame
               PROVE  u = a /\ q = p
    BY DEF WritableIsExclusive
  <2>1. pte'[a][p].frame # NoFrame
    BY <1>19 DEF WritableIsPresent, Present
  <2>2. CASE a = child /\ u = child
    BY <1>15, <2>1, <2>2
  <2>3. CASE a = child /\ u # child
    BY <1>11, <1>14, <1>16, <2>1, <2>3
  <2>4. CASE a # child /\ u = child
    <3>1. a \in live /\ pte[a][p].rw
      BY <1>13, <1>14, <2>4
    <3>2. q \in Inherited(sbush) /\ pte[sbush][q].frame = pte[a][p].frame
      BY <1>16, <2>1, <2>4, <3>1
    <3>3. a = sbush /\ p = q
      BY <1>4, <3>1, <3>2 DEF MapInv, WritableIsExclusive
    <3> QED BY <1>12, <3>2, <3>3
  <2>5. CASE a # child /\ u # child
    BY <1>13, <1>14, <2>5 DEF MapInv, WritableIsExclusive
  <2> QED BY <2>2, <2>3, <2>4, <2>5
<1>22. SamePageNumber'
  <2> SUFFICES ASSUME NEW a \in live', NEW u \in live', NEW p \in Page, NEW q \in Page,
                      pte'[a][p].frame # NoFrame,
                      pte'[u][q].frame = pte'[a][p].frame
               PROVE  p = q
    BY DEF SamePageNumber, Present
  <2>1. CASE a = child /\ u = child
    BY <1>15, <2>1
  <2>2. CASE a = child /\ u # child
    <3>1. u \in live /\ pte[sbush][p].frame = pte[u][q].frame
      BY <1>14, <1>16, <2>2
    <3>2. pte[sbush][p].frame # NoFrame
      BY <1>13, <3>1
    <3> QED BY <1>4, <3>1, <3>2 DEF MapInv, SamePageNumber, Present
  <2>3. CASE a # child /\ u = child
    <3>1. a \in live /\ pte[sbush][q].frame = pte[a][p].frame
      BY <1>14, <1>16, <2>3
    <3>2. pte[sbush][q].frame # NoFrame
      BY <1>13, <3>1
    <3> QED BY <1>4, <3>1, <3>2 DEF MapInv, SamePageNumber, Present
  <2>4. CASE a # child /\ u # child
    BY <1>13, <1>14, <2>4 DEF MapInv, SamePageNumber, Present
  <2> QED BY <2>1, <2>2, <2>3, <2>4
<1>23. ProgramsAreAlone'
  <2> SUFFICES ASSUME NEW a \in live' \ (forked' \cup {sbush}), NEW u \in live' \ {a},
                      NEW p \in Page, NEW q \in Page,
                      pte'[a][p].frame # NoFrame,
                      pte'[u][q].frame = pte'[a][p].frame
               PROVE  FALSE
    BY DEF ProgramsAreAlone, Present
  <2>1. a \in live \ (forked \cup {sbush}) /\ pte[a][p].frame # NoFrame
    BY <1>2, <1>13
  <2>2. PICK v \in live \ {a} : pte[v][q].frame = pte[a][p].frame
    <3>1. CASE u = child
      BY <1>4, <1>16, <2>1, <3>1
    <3>2. CASE u \in live
      BY <1>13, <2>1, <3>2
    <3> QED BY <1>14, <3>1, <3>2
  <2> QED BY <2>1, <2>2 DEF MapInv, ProgramsAreAlone, Present
<1> QED BY <1>17, <1>18, <1>19, <1>20, <1>21, <1>22, <1>23 DEF MapInv

\* A program that ends gives back frames that only it mapped.
LEMMA TerminateMaps ==
    ASSUME MapInv, OnlyShellForks, NEW t \in Task, Terminate(t)
    PROVE  MapInv'
<1>1. t \in live \ (forked \cup {sbush})
  BY DEF Terminate, CanEnd
<1>2. \A f \in Freed(t) : f \in Frame /\ \E p \in Page : Present(t, p) /\ f = pte[t][p].frame
  <2>1. VisitedPages(t) \subseteq Page
    BY DEF VisitedPages, Listed, Visited
  <2>2. \A p \in Page : pte[t][p].frame \in Frame \cup {NoFrame}
    BY DEF MapInv, TablesAreTyped
  <2> QED BY <2>1, <2>2 DEF Freed, Present
<1>3. \A u \in live \ {t}, p \in Page : pte[u][p].frame \notin Freed(t)
  BY <1>1, <1>2 DEF MapInv, ProgramsAreAlone
<1>4. free' \subseteq Frame
  BY <1>2 DEF Terminate, MapInv, TablesAreTyped
<1> QED BY <1>1, <1>3, <1>4, TaskLeaves DEF Terminate

-------------------------------------------------------------------------------
\* Every operation and fault preserves it.
LEMMA StepMaps ==
    ASSUME MapInv, OnlyShellForks, [Next]_vars
    PROVE  MapInv'
<1>1. ASSUME NEW t \in Task, fork(t)
      PROVE  MapInv'
  <2>1. t = sbush
    BY <1>1 DEF fork
  <2> QED BY <1>1, <2>1, ForkMaps
<1>2. ASSUME NEW t \in Task, exec(t)
      PROVE  MapInv'
  BY <1>2, ExecMaps
<1>3. ASSUME NEW t \in Task, execNotFound(t)
      PROVE  MapInv'
  <2>1. free' \subseteq free
    BY <1>3 DEF execNotFound
  <2>2. free' \subseteq Frame
    BY <2>1 DEF MapInv, TablesAreTyped
  <2> QED BY <1>3, <2>1, <2>2, TaskLeaves DEF execNotFound
<1>4. ASSUME NEW t \in Task, Terminate(t)
      PROVE  MapInv'
  BY <1>4, TerminateMaps
<1>5. ASSUME NEW t \in Task, NEW p \in Page, FaultFirstUse(t, p)
      PROVE  MapInv'
  BY <1>5, AllocatedPage, FreshEntry DEF FaultFirstUse
<1>6. ASSUME NEW t \in Task, NEW p \in Page, FaultReadOnly(t, p)
      PROVE  MapInv'
  <2>1. CASE Sharers(t, p) = {}
    BY <1>6, <2>1, LastSharer DEF FaultReadOnly
  <2>2. CASE Sharers(t, p) # {}
    BY <1>6, <2>2, AllocatedPage, FreshEntry DEF FaultReadOnly, FaultCopy
  <2> QED BY <2>1, <2>2
<1>7. ASSUME NEW t \in Task, NEW size \in MallocSizes, malloc(t, size)
      PROVE  MapInv'
  BY <1>7, TablesStay DEF malloc
<1>f. ASSUME NEW t \in Task, Free(t)
      PROVE  MapInv'
  BY <1>f, TablesStay DEF Free
<1>8. ASSUME NEW t \in Task, NEW p \in Page, NEW v \in Value,
             Write(t, p, v) \/ KernelWrite(t, p, v)
      PROVE  MapInv'
  BY <1>8, TablesStay DEF Write, KernelWrite
<1>9. CASE UNCHANGED vars
  BY <1>9, TablesStay DEF vars
<1> QED
  BY <1>1, <1>2, <1>3, <1>4, <1>5, <1>6, <1>7, <1>f, <1>8, <1>9, AddressAssumption DEF Next

\* It holds always.
LEMMA MapsAreSound ==
    ASSUME OnlyShellForks
    PROVE  Spec => []MapInv
BY InitMaps, StepMaps, PTL DEF Spec

\* A page the owner of which writes without a fault is nobody else's, through
\* fork(), the copies of the fault handler and the ends of programs.
THEOREM CopyOnWriteIsPrivate ==
    ASSUME OnlyShellForks
    PROVE  Spec => []WritableIsExclusive
<1>1. MapInv => WritableIsExclusive
  BY DEF MapInv
<1> QED BY <1>1, MapsAreSound, PTL

\* No page that a live process maps can be allocated again: what a program
\* that ends releases is mapped by nobody else.
THEOREM MappedIsNotFree ==
    ASSUME OnlyShellForks
    PROVE  Spec => []NoFreeFrameMapped
<1>1. MapInv => NoFreeFrameMapped
  BY DEF MapInv
<1> QED BY <1>1, MapsAreSound, PTL

-------------------------------------------------------------------------------
(* The lists of areas, as malloc(), free() and copyVMA() leave them. *)

VMA == List!VMA

\* An area is in front of the stack or the stack's.
Placed(a) ==
    /\ a.start < a.end
    /\ a.end <= StackStart \/ (a.start = StackStart /\ a.end = StackTop)
Good(list) == list \in Seq(VMA) /\ \A k \in 1 .. Len(list) : Placed(list[k])

\* The stack is one page.
LEMMA StackBounds ==
    /\ PageSize \in Nat \ {0} /\ StackPage \in Nat /\ StackPage \in Page
    /\ StackStart \in Nat /\ StackTop \in Nat
    /\ StackTop = StackStart + PageSize
<1>1. PageSize \in Nat \ {0} /\ StackPage \in Nat /\ StackPage \in Page
  BY AddressAssumption
<1>2. StackPage * PageSize \in Nat /\ (StackPage + 1) * PageSize \in Nat
  BY <1>1, SMT
<1>3. (StackPage + 1) * PageSize = StackPage * PageSize + PageSize
  BY <1>1, SMT
<1> QED BY <1>1, <1>2, <1>3 DEF StackStart, StackTop

\* The lists that programs start with.
LEMMA StartsAreGood ==
    /\ Good(FirstAreas) /\ Len(FirstAreas) >= 1
    /\ Good(ExecAreas) /\ Len(ExecAreas) >= 1
<1> SUFFICES ASSUME NEW list, NEW stack, Starts(list, stack)
             PROVE  Good(list) /\ Len(list) >= 1
  BY AddressAssumption
<1>1. list \in Seq(VMA) /\ Len(list) >= 3
  BY DEF Starts, VMA
<1>2. \A k \in 1 .. Len(list) : Placed(list[k])
  <2> TAKE k \in 1 .. Len(list)
  <2>1. k \in DOMAIN list
    BY <1>1
  <2>2. list[k].start < list[k].end /\ (k # stack => list[k].end <= StackStart)
    BY <2>1 DEF Starts
  <2>3. list[stack].start = StackStart /\ list[stack].end = StackTop
    BY DEF Starts
  <2> QED BY <2>2, <2>3 DEF Placed
<1> QED BY <1>1, <1>2 DEF Good

\* A set of natural numbers has a least one.
LEMMA LeastNatural ==
    ASSUME NEW T \in SUBSET Nat, T # {}
    PROVE  List!Min(T) \in T
<1>1. PICK x \in T : \A y \in T : ~(<<y, x>> \in OpToRel(<, Nat))
  BY NatLessThanWellFounded, WFMin
<1>2. \A y \in T : <<y, x>> \in Nat \X Nat
  OBVIOUS
<1>3. \A y \in T : ~(y < x)
  BY <1>1, <1>2 DEF OpToRel
<1>4. \E z \in T : \A y \in T : z <= y
  BY <1>3, SMT
<1> QED BY <1>4 DEF List!Min

\* One that is bounded has a greatest.
LEMMA GreatestNatural ==
    ASSUME NEW T \in SUBSET Nat, 0 \in T, NEW b \in Nat, \A y \in T : y <= b
    PROVE  List!Max(T) \in Nat
<1> DEFINE U == {n \in Nat : \A y \in T : y <= n}
<1>1. PICK m \in U : \A y \in U : ~(<<y, m>> \in OpToRel(<, Nat))
  BY NatLessThanWellFounded, WFMin
<1>2. \A n \in U : <<n, m>> \in Nat \X Nat
  OBVIOUS
<1>3. \A n \in U : ~(n < m)
  BY <1>1, <1>2 DEF OpToRel
<1>4. m \in Nat /\ \A y \in T : y <= m
  OBVIOUS
<1>5. m \in T
  <2> SUFFICES ASSUME m \notin T PROVE FALSE
    OBVIOUS
  <2>1. m - 1 \in Nat /\ \A y \in T : y <= m - 1
    BY <1>4, SMT
  <2> QED BY <1>3, <1>4, <2>1, SMT
<1>6. \E x \in T : \A y \in T : x >= y
  BY <1>4, <1>5, SMT
<1> QED BY <1>6 DEF List!Max

\* The areas of a list but for those that are new, and for the marks.
SameBounds(a, b) == a.start = b.start /\ a.end = b.end
FromList(list, new, n) ==
    \A k \in 1 .. n : \E j \in 1 .. Len(list) : SameBounds(new[k], list[j])

\* An area stays where it is if only its mark changes.
LEMMA Marked ==
    ASSUME NEW v \in VMA, NEW f \in BOOLEAN
    PROVE  /\ [v EXCEPT !.isNextFreed = f] \in VMA
           /\ SameBounds([v EXCEPT !.isNextFreed = f], v)
  BY DEF VMA, List!VMA, SameBounds

\* What came from a good list is good.
LEMMA FromGood ==
    ASSUME NEW list, Good(list), NEW a, NEW j \in 1 .. Len(list), SameBounds(a, list[j])
    PROVE  Placed(a)
  BY DEF Good, Placed, SameBounds

\* A list that changed only in the mark of area k.
LEMMA MarkForm ==
    ASSUME NEW list \in Seq(VMA), NEW k \in 1 .. Len(list), NEW f \in BOOLEAN
    PROVE  /\ [list EXCEPT ![k].isNextFreed = f] \in Seq(VMA)
           /\ Len([list EXCEPT ![k].isNextFreed = f]) = Len(list)
           /\ \A j \in 1 .. Len(list) :
                  SameBounds([list EXCEPT ![k].isNextFreed = f][j], list[j])
<1>1. PICK v : v = [list[k] EXCEPT !.isNextFreed = f]
  OBVIOUS
<1>2. v \in VMA /\ SameBounds(v, list[k])
  BY <1>1, Marked
<1>3. PICK new : new = [list EXCEPT ![k] = v]
  OBVIOUS
<1>4. [list EXCEPT ![k].isNextFreed = f] = new
  BY <1>1, <1>3
<1>5. new \in Seq(VMA) /\ Len(new) = Len(list)
  BY <1>2, <1>3
<1>6. \A j \in 1 .. Len(list) : SameBounds(new[j], list[j])
  BY <1>2, <1>3 DEF SameBounds
<1> QED BY <1>4, <1>5, <1>6

\* malloc(): the areas but the last are of the list, and the last is not empty.
LEMMA MallocForm ==
    ASSUME NEW list, Good(list), Len(list) >= 1, NEW size \in Nat \ {0},
           NEW new, new = List!malloc(list, size)
    PROVE  /\ new \in Seq(VMA) /\ Len(new) >= 1
           /\ FromList(list, new, Len(new) - 1)
           /\ new[Len(new)].start < new[Len(new)].end
<1>0. list \in Seq(VMA) /\ Len(list) \in Nat
  BY DEF Good
<1>1. PICK fit : fit = List!Reusable(list, size)
  OBVIOUS
<1>2. PICK k : k = IF fit = {} THEN Len(list) ELSE List!Min(fit)
  OBVIOUS
<1>3. fit \subseteq 1 .. Len(list) - 1
  BY <1>1 DEF List!Reusable
<1>4. k \in 1 .. Len(list) /\ (fit # {} => k \in 1 .. Len(list) - 1)
  <2>1. CASE fit = {}
    BY <1>0, <1>2, <2>1
  <2>2. CASE fit # {}
    <3>1. fit \in SUBSET Nat
      BY <1>0, <1>3
    <3>2. k \in fit
      BY <1>2, <2>2, <3>1, LeastNatural
    <3> QED BY <1>0, <1>3, <3>2
  <2> QED BY <2>1, <2>2
<1>5. PICK last : last = IF fit = {} THEN k ELSE k + 1
  OBVIOUS
<1>6. last \in 1 .. Len(list)
  BY <1>0, <1>4, <1>5
<1>7. PICK ends : ends = List!Ends(list, last)
  OBVIOUS
<1>8. ends \subseteq Nat /\ 0 \in ends /\ \A e \in ends : e <= StackTop
  <2>1. \A j \in 1 .. Len(list) : list[j] \in VMA
    BY <1>0
  <2>2. \A j \in 1 .. Len(list) : list[j].end \in Nat /\ list[j].end <= StackTop
    <3> TAKE j \in 1 .. Len(list)
    <3>1. list[j].end \in Nat
      BY <2>1 DEF VMA, List!VMA
    <3>2. Placed(list[j])
      BY DEF Good
    <3> QED BY <3>1, <3>2, StackBounds DEF Placed
  <2>3. \A j \in 2 .. last : j \in 1 .. Len(list)
    BY <1>0, <1>6
  <2>4. \A e \in ends : e = 0 \/ \E j \in 2 .. last : e = list[j].end
    BY <1>7 DEF List!Ends
  <2>5. 0 \in ends
    BY <1>7 DEF List!Ends
  <2>6. ASSUME NEW e \in ends PROVE e \in Nat /\ e <= StackTop
    <3>1. CASE e = 0
      BY <3>1, StackBounds
    <3>2. CASE \E j \in 2 .. last : e = list[j].end
      BY <2>2, <2>3, <3>2
    <3> QED BY <2>4, <3>1, <3>2
  <2> QED BY <2>5, <2>6
<1>9. PICK s : s = List!Max(ends)
  OBVIOUS
<1>10. s \in Nat
  BY <1>8, <1>9, StackBounds, GreatestNatural
<1>11. PICK f \in BOOLEAN : f = (fit # {} /\ ~List!GapIs(list, k, size))
  OBVIOUS
<1>12. PICK area : area = [start |-> s, end |-> s + size, grows_down |-> FALSE, isNextFreed |-> f]
  OBVIOUS
<1>13. area \in VMA /\ area.start < area.end
  BY <1>10, <1>11, <1>12 DEF VMA, List!VMA
<1>14. PICK cut : cut = SubSeq(list, 1, k)
  OBVIOUS
<1>15. cut \in Seq(VMA) /\ Len(cut) = k /\ \A j \in 1 .. k : cut[j] = list[j]
  BY <1>0, <1>4, <1>14
<1>16. PICK g \in BOOLEAN : g = (fit = {} /\ cut[k].isNextFreed)
  <2>1. (fit = {} /\ cut[k].isNextFreed) \in BOOLEAN
    OBVIOUS
  <2> QED BY <2>1
<1>17. PICK front : front = [cut EXCEPT ![k].isNextFreed = g]
  OBVIOUS
<1>18. /\ front \in Seq(VMA) /\ Len(front) = k
       /\ \A j \in 1 .. k : SameBounds(front[j], cut[j])
  BY <1>4, <1>15, <1>17, MarkForm
<1>19. new = Append(front, area)
  <2>1. [cut EXCEPT ![k].isNextFreed = (fit = {} /\ @)] = front
    BY <1>16, <1>17
  <2>2. List!Area(s, size, fit # {} /\ ~List!GapIs(list, k, size)) = area
    BY <1>11, <1>12 DEF List!Area
  <2> QED BY <1>1, <1>2, <1>5, <1>7, <1>9, <1>14, <2>1, <2>2 DEF List!malloc
<1>20. /\ new \in Seq(VMA) /\ Len(new) = k + 1 /\ new[k + 1] = area
       /\ \A j \in 1 .. k : new[j] = front[j]
  BY <1>13, <1>18, <1>19
<1>21. FromList(list, new, k)
  <2> SUFFICES ASSUME NEW j \in 1 .. k
               PROVE  SameBounds(new[j], list[j]) /\ j \in 1 .. Len(list)
    BY DEF FromList
  <2>1. j \in 1 .. Len(list)
    BY <1>0, <1>4
  <2> QED BY <1>15, <1>18, <1>20, <2>1
<1> QED BY <1>0, <1>4, <1>13, <1>20, <1>21

\* A sequence without its element p.
LEMMA Without ==
    ASSUME NEW S, NEW s \in Seq(S), NEW p \in 1 .. Len(s)
    PROVE  /\ List!RemoveAt(s, p) \in Seq(S) /\ Len(List!RemoveAt(s, p)) = Len(s) - 1
           /\ \A j \in 1 .. p - 1 : List!RemoveAt(s, p)[j] = s[j]
           /\ \A j \in p .. Len(s) - 1 : List!RemoveAt(s, p)[j] = s[j + 1]
<1>1. PICK u : u = SubSeq(s, 1, p - 1)
  OBVIOUS
<1>2. PICK v : v = SubSeq(s, p + 1, Len(s))
  OBVIOUS
<1>3. u \in Seq(S) /\ Len(u) = p - 1 /\ \A j \in 1 .. p - 1 : u[j] = s[j]
  BY <1>1
<1>4. v \in Seq(S) /\ Len(v) = Len(s) - p /\ \A j \in 1 .. Len(s) - p : v[j] = s[p + j]
  BY <1>2
<1>5. List!RemoveAt(s, p) = u \o v
  BY <1>1, <1>2 DEF List!RemoveAt
<1>6. u \o v \in Seq(S) /\ Len(u \o v) = Len(s) - 1
  BY <1>3, <1>4
<1>7. ASSUME NEW j \in 1 .. p - 1 PROVE (u \o v)[j] = s[j]
  BY <1>3, <1>4
<1>8. ASSUME NEW j \in p .. Len(s) - 1 PROVE (u \o v)[j] = s[j + 1]
  <2>1. (u \o v)[j] = v[j - (p - 1)]
    BY <1>3, <1>4
  <2>2. j - (p - 1) \in 1 .. Len(s) - p /\ p + (j - (p - 1)) = j + 1
    OBVIOUS
  <2> QED BY <1>4, <2>1, <2>2
<1> QED BY <1>5, <1>6, <1>7, <1>8

\* free(): the areas that stay are of the list, and its head stays.
LEMMA FreeForm ==
    ASSUME NEW list \in Seq(VMA), Len(list) >= 1, NEW ptr, NEW new, new = List!free(list, ptr)
    PROVE  /\ new \in Seq(VMA) /\ Len(new) >= 1
           /\ FromList(list, new, Len(new))
<1>1. PICK found : found = {k \in 1 .. Len(list) - 1 : list[k + 1].start = ptr}
  OBVIOUS
<1>2. PICK k : k = List!Min(found)
  OBVIOUS
<1>3. CASE found = {}
  <2>1. new = list
    BY <1>1, <1>3 DEF List!free
  <2> QED BY <2>1 DEF FromList, SameBounds
<1>4. CASE found # {}
  <2>1. found \in SUBSET Nat /\ found \subseteq 1 .. Len(list) - 1
    BY <1>1
  <2>2. k \in 1 .. Len(list) - 1
    BY <1>2, <1>4, <2>1, LeastNatural
  <2>3. PICK marked : marked = [list EXCEPT ![k].isNextFreed = TRUE]
    OBVIOUS
  <2>4. /\ marked \in Seq(VMA) /\ Len(marked) = Len(list)
        /\ \A j \in 1 .. Len(list) : SameBounds(marked[j], list[j])
    <3>1. k \in 1 .. Len(list) /\ TRUE \in BOOLEAN
      BY <2>2
    <3> QED BY <2>3, <3>1, MarkForm
  <2>5. new = List!RemoveAt(marked, k + 1)
    BY <1>1, <1>2, <1>4, <2>3 DEF List!free
  <2>6. /\ new \in Seq(VMA) /\ Len(new) = Len(list) - 1
        /\ \A j \in 1 .. k : new[j] = marked[j]
        /\ \A j \in k + 1 .. Len(list) - 1 : new[j] = marked[j + 1]
    <3>1. PICK p \in 1 .. Len(marked) : p = k + 1
      BY <2>2, <2>4
    <3>2. p - 1 = k
      BY <2>2, <3>1
    <3>3. /\ List!RemoveAt(marked, p) \in Seq(VMA)
          /\ Len(List!RemoveAt(marked, p)) = Len(marked) - 1
          /\ \A j \in 1 .. p - 1 : List!RemoveAt(marked, p)[j] = marked[j]
          /\ \A j \in p .. Len(marked) - 1 : List!RemoveAt(marked, p)[j] = marked[j + 1]
      BY <2>4, Without
    <3>4. new = List!RemoveAt(marked, p)
      BY <2>5, <3>1
    <3> QED BY <2>4, <3>1, <3>2, <3>3, <3>4
  <2>7. FromList(list, new, Len(new))
    <3> SUFFICES ASSUME NEW j \in 1 .. Len(new)
                 PROVE  \E i \in 1 .. Len(list) : SameBounds(new[j], list[i])
      BY DEF FromList
    <3>1. CASE j \in 1 .. k
      <4>1. j \in 1 .. Len(list)
        BY <2>2, <3>1
      <4> QED BY <2>4, <2>6, <3>1, <4>1
    <3>2. CASE j \in k + 1 .. Len(list) - 1
      <4>1. j + 1 \in 1 .. Len(list)
        BY <2>2, <3>2
      <4> QED BY <2>4, <2>6, <3>2, <4>1
    <3> QED BY <2>2, <2>6, <3>1, <3>2
  <2> QED BY <2>2, <2>6, <2>7
<1> QED BY <1>3, <1>4

\* copyVMA(): the child's areas are its parent's.
LEMMA CopyForm ==
    ASSUME NEW list \in Seq(VMA), NEW new, new = List!copyVMA(list)
    PROVE  /\ new \in Seq(VMA) /\ Len(new) = Len(list)
           /\ \A k \in 1 .. Len(list) : SameBounds(new[k], list[k])
<1>1. \A k \in 1 .. Len(list) : list[k] \in VMA
  OBVIOUS
<1>2. DOMAIN list = 1 .. Len(list) /\ Len(list) \in Nat
  OBVIOUS
<1>3. \A k \in 1 .. Len(list) : /\ [list[k] EXCEPT !.isNextFreed = FALSE] \in VMA
                                /\ SameBounds([list[k] EXCEPT !.isNextFreed = FALSE], list[k])
  BY <1>1, Marked
<1>4. new = [k \in 1 .. Len(list) |-> [list[k] EXCEPT !.isNextFreed = FALSE]]
  BY <1>2 DEF List!copyVMA
<1>5. \A k \in 1 .. Len(list) : new[k] = [list[k] EXCEPT !.isNextFreed = FALSE]
  BY <1>4
<1>6. new \in [1 .. Len(list) -> VMA]
  BY <1>3, <1>4
<1>7. new \in Seq(VMA) /\ Len(new) = Len(list)
  BY <1>2, <1>6
<1> QED BY <1>3, <1>5, <1>7

-------------------------------------------------------------------------------
(* The pages of the areas. *)

HasStack(list) == \E k \in 1 .. Len(list) : list[k].end = StackTop

\* malloc() gives no area where the stack is.
LEMMA MallocIsGood ==
    ASSUME NEW list, Good(list), Len(list) >= 1, NEW size \in MallocSizes,
           NEW new, new = List!malloc(list, size), new[Len(new)].end <= HeapLimit
    PROVE  Good(new) /\ Len(new) >= 1 /\ (HasStack(new) => HasStack(list))
<1>1. /\ new \in Seq(VMA) /\ Len(new) >= 1
      /\ FromList(list, new, Len(new) - 1)
      /\ new[Len(new)].start < new[Len(new)].end
  <2>1. size \in Nat \ {0}
    BY AddressAssumption
  <2> QED BY <2>1, MallocForm
<1>2. new[Len(new)].end <= StackStart /\ new[Len(new)].end # StackTop
  <2>1. HeapLimit \in Nat /\ HeapLimit <= StackStart
    BY StackBounds, AddressAssumption
  <2>2. new[Len(new)] \in VMA
    BY <1>1
  <2>3. new[Len(new)].end \in Nat
    BY <2>2 DEF VMA, List!VMA
  <2> QED BY <2>1, <2>3, StackBounds
<1>3. \A k \in 1 .. Len(new) : k = Len(new) \/ k \in 1 .. Len(new) - 1
  BY <1>1
<1>4. \A k \in 1 .. Len(new) - 1 :
          Placed(new[k]) /\ \E j \in 1 .. Len(list) : SameBounds(new[k], list[j])
  BY <1>1, FromGood DEF FromList
<1>5. Good(new)
  BY <1>1, <1>2, <1>3, <1>4 DEF Good, Placed
<1>6. HasStack(new) => HasStack(list)
  BY <1>2, <1>3, <1>4 DEF HasStack, SameBounds
<1> QED BY <1>1, <1>5, <1>6

\* free() makes no area.
LEMMA FreeIsGood ==
    ASSUME NEW list, Good(list), Len(list) >= 1, NEW ptr, NEW new, new = List!free(list, ptr)
    PROVE  Good(new) /\ Len(new) >= 1 /\ (HasStack(new) => HasStack(list))
<1>1. new \in Seq(VMA) /\ Len(new) >= 1 /\ FromList(list, new, Len(new))
  BY FreeForm DEF Good
<1>2. \A k \in 1 .. Len(new) :
          Placed(new[k]) /\ \E j \in 1 .. Len(list) : SameBounds(new[k], list[j])
  BY <1>1, FromGood DEF FromList
<1> QED BY <1>1, <1>2 DEF Good, HasStack, SameBounds

\* The child's areas have the pages of its parent's.
LEMMA CopyIsGood ==
    ASSUME NEW list, Good(list), NEW new, new = List!copyVMA(list)
    PROVE  /\ Good(new) /\ Len(new) = Len(list)
           /\ HasStack(new) <=> HasStack(list)
           /\ Listed(new) = Listed(list)
<1>1. /\ new \in Seq(VMA) /\ Len(new) = Len(list)
      /\ \A k \in 1 .. Len(list) : SameBounds(new[k], list[k])
  BY CopyForm DEF Good
<1>2. Good(new)
  BY <1>1, FromGood DEF Good
<1>3. \A k \in 1 .. Len(list) : Visited(new[k]) = Visited(list[k])
  BY <1>1 DEF SameBounds, Visited
<1>4. DOMAIN new = 1 .. Len(list) /\ DOMAIN list = 1 .. Len(list)
  BY <1>1 DEF Good
<1>5. Listed(new) = Listed(list)
  BY <1>3, <1>4 DEF Listed
<1> QED BY <1>1, <1>2, <1>5 DEF HasStack, SameBounds

\* A page of every area is visited, its first one.
LEMMA FirstIsVisited ==
    ASSUME NEW a \in VMA, a.start < a.end, a.start \div PageSize \in Page
    PROVE  a.start \div PageSize \in Visited(a)
<1>1. PageSize \in Nat \ {0} /\ a.start \in Nat /\ a.end \in Nat
  BY StackBounds DEF VMA, List!VMA
<1>2. PICK p : p = a.start \div PageSize
  OBVIOUS
<1>3. p \in Nat /\ p \in Page
  BY <1>2, AddressAssumption
<1>4. p - p = 0 /\ a.start + 0 * PageSize = a.start
  BY <1>1, <1>3
<1>5. p - p >= 0 /\ a.start + (p - p) * PageSize < a.end
  BY <1>1, <1>4
<1> QED BY <1>2, <1>3, <1>5 DEF Visited

\* The stack has one page.
LEMMA StackIsVisited ==
    ASSUME NEW a, a.start = StackStart, a.end = StackTop
    PROVE  Visited(a) = {StackPage}
<1>1. PageSize \in Nat \ {0} /\ StackPage \in Nat /\ StackPage \in Page
  BY StackBounds
<1>2. StackStart = StackPage * PageSize /\ StackTop = StackPage * PageSize + PageSize
  BY StackBounds DEF StackStart
<1>3. (StackPage * PageSize) \div PageSize = StackPage
  BY <1>1, SMT
<1>4. \A p \in Page : p \in Visited(a) <=>
          /\ p - StackPage >= 0
          /\ StackPage * PageSize + (p - StackPage) * PageSize < StackPage * PageSize + PageSize
  BY <1>2, <1>3 DEF Visited
<1>5. ASSUME NEW p \in Page
      PROVE  p \in Visited(a) <=> p = StackPage
  <2>1. PICK k \in Int : k = p - StackPage
    BY <1>1, AddressAssumption
  <2>2. p \in Nat /\ StackPage * PageSize \in Nat /\ k * PageSize \in Int
    BY <1>1, AddressAssumption, SMT
  <2>3. p \in Visited(a) <=> k >= 0 /\ k * PageSize < PageSize
    BY <1>1, <1>4, <2>1, <2>2
  <2>4. k >= 0 /\ k * PageSize < PageSize <=> k = 0
    BY <1>1, SMT
  <2> QED BY <1>1, <2>1, <2>2, <2>3, <2>4
<1> QED BY <1>1, <1>5 DEF Visited

\* An area in front of the stack has no page of it.
LEMMA StackIsNotVisited ==
    ASSUME NEW a \in VMA, a.end <= StackStart
    PROVE  StackPage \notin Visited(a)
<1> SUFFICES ASSUME StackPage \in Visited(a)
             PROVE  FALSE
  OBVIOUS
<1>1. /\ PageSize \in Nat /\ PageSize > 0 /\ StackPage \in Nat
      /\ a.start \in Nat /\ a.end \in Nat
  BY StackBounds DEF VMA, List!VMA
<1>2. PICK d : d = a.start \div PageSize
  OBVIOUS
<1>3. d \in Nat /\ d * PageSize <= a.start
  BY <1>1, <1>2, SMT
<1>4. PICK k \in Int : k = StackPage - d
  BY <1>1, <1>3
<1>5. a.start + k * PageSize < a.end
  BY <1>2, <1>4 DEF Visited
<1>6. k * PageSize = StackPage * PageSize - d * PageSize
  BY <1>1, <1>3, <1>4, SMT
<1>7. d * PageSize \in Nat /\ StackPage * PageSize \in Nat
  BY <1>1, <1>3, SMT
<1>8. a.end <= StackPage * PageSize
  BY DEF StackStart
<1> QED BY <1>1, <1>3, <1>5, <1>6, <1>7, <1>8, SMT

\* fork() copies the page of a stack that is listed, and shares the pages of all
\* the other areas.
LEMMA ListedParts ==
    ASSUME NEW t \in Task, Good(areas[t])
    PROVE  /\ Copied(t) \subseteq {StackPage}
           /\ StackPage \in Copied(t) <=> HasStack(areas[t])
           /\ StackPage \notin Inherited(t)
           /\ VisitedPages(t) = Inherited(t) \cup Copied(t)
<1>1. PICK list : list = areas[t]
  OBVIOUS
<1>2. DOMAIN list = 1 .. Len(list) /\ \A k \in 1 .. Len(list) : list[k] \in VMA
  BY <1>1 DEF Good
<1>3. \A k \in 1 .. Len(list) : list[k].end = StackTop => Visited(list[k]) = {StackPage}
  <2> SUFFICES ASSUME NEW k \in 1 .. Len(list), list[k].end = StackTop
               PROVE  Visited(list[k]) = {StackPage}
    OBVIOUS
  <2>1. ~(list[k].end <= StackStart)
    BY StackBounds
  <2>2. list[k].start = StackStart
    BY <1>1, <2>1 DEF Good, Placed
  <2> QED BY <2>2, StackIsVisited
<1>4. \A k \in 1 .. Len(list) : list[k].end # StackTop => StackPage \notin Visited(list[k])
  BY <1>1, <1>2, StackIsNotVisited DEF Good, Placed
<1>5. /\ \A p : p \in Copied(t) <=>
                    \E k \in 1 .. Len(list) : list[k].end = StackTop /\ p \in Visited(list[k])
      /\ \A p : p \in Inherited(t) <=>
                    \E k \in 1 .. Len(list) : list[k].end # StackTop /\ p \in Visited(list[k])
      /\ \A p : p \in VisitedPages(t) <=> \E k \in 1 .. Len(list) : p \in Visited(list[k])
  BY <1>1, <1>2 DEF Copied, Inherited, VisitedPages, Listed
<1>6. Copied(t) \subseteq {StackPage}
  BY <1>3, <1>5
<1>7. StackPage \in Copied(t) <=> HasStack(areas[t])
  BY <1>1, <1>3, <1>5 DEF HasStack
<1>8. StackPage \notin Inherited(t)
  BY <1>4, <1>5
<1>9. VisitedPages(t) = Inherited(t) \cup Copied(t)
  BY <1>5
<1> QED BY <1>6, <1>7, <1>8, <1>9

-------------------------------------------------------------------------------
(* What the programs see. *)

\* The content of a page for its program.
Cell(t, p) == IF t \in live /\ Present(t, p) THEN content[pte[t][p].frame] ELSE -1

Memory == [t \in Task |-> [p \in Page |-> Cell(t, p)]]
NoMemory == [p \in Page |-> -1]
ImageMemory ==
    [p \in Page |-> IF p \in LoadedPages THEN ImageValue
                    ELSE IF p = StackPage THEN Zero ELSE -1]

\* The pages that fork() hands over.
Lists == [t \in Task |-> VisitedPages(t)]

\* The areas of all tasks are in front of the stack or the stack's; a live
\* task has one at least.
AreasAreThere ==
    /\ areas \in [Task -> Seq(VMA)]
    /\ \A t \in Task : Good(areas[t])
    /\ \A t \in live : Len(areas[t]) >= 1

\* A stack that fork() copies is present, and one that is present is never
\* shared: a store of the kernel there changes no other's memory.
StacksAreAlone ==
    \A t \in live :
        /\ HasStack(areas[t]) => Present(t, StackPage)
        /\ \A u \in live \ {t}, q \in Page :
               Present(t, StackPage) => pte[u][q].frame # pte[t][StackPage].frame

MemoryInv ==
    /\ MapInv /\ AreasAreThere /\ StacksAreAlone
    /\ content \in [Frame -> Value]

\* What the invariants of the tables say of an entry.
LEMMA EntryFacts ==
    ASSUME MemoryInv
    PROVE  /\ live \subseteq Task /\ free \subseteq Frame /\ NoFrame \notin Frame
           /\ StackPage \in Page /\ content \in [Frame -> Value] /\ sbush \in live
           /\ \A u \in Task : \A q \in Page :
                /\ pte[u][q].frame \in Frame \cup {NoFrame}
                /\ u \in live => pte[u][q].frame \notin free
                /\ u \in live /\ Present(u, q) => pte[u][q].frame \in Frame
BY AddressAssumption DEF MemoryInv, MapInv, TablesAreTyped, ShellStays, NoFreeFrameMapped, Present

\* Only a page that is there has a content that is one.
LEMMA CellFacts ==
    ASSUME MemoryInv, NEW t \in Task, NEW p \in Page
    PROVE  Cell(t, p) = -1 <=> ~(t \in live /\ Present(t, p))
<1>1. CASE t \in live /\ Present(t, p)
  <2>1. content[pte[t][p].frame] \in Nat
    BY <1>1, EntryFacts, AddressAssumption
  <2> QED BY <1>1, <2>1 DEF Cell
<1>2. CASE ~(t \in live /\ Present(t, p))
  BY <1>2 DEF Cell
<1> QED BY <1>1, <1>2

\* The memory after a change of one page.
LEMMA OneCell ==
    ASSUME NEW t \in Task, NEW p \in Page, NEW v,
           \A u \in Task : \A q \in Page : Cell(u, q)' = IF u = t /\ q = p THEN v ELSE Cell(u, q)
    PROVE  Memory' = [Memory EXCEPT ![t][p] = v]
BY DEF Memory

\* The memory after a change of all pages of a task.
LEMMA OneTask ==
    ASSUME NEW t \in Task, NEW m, m = [p \in Page |-> m[p]],
           \A u \in Task : \A q \in Page : Cell(u, q)' = IF u = t THEN m[q] ELSE Cell(u, q)
    PROVE  Memory' = [Memory EXCEPT ![t] = m]
<1>1. \A u \in Task : u # t => [p \in Page |-> Cell(u, p)]' = [p \in Page |-> Cell(u, p)]
  OBVIOUS
<1>2. [p \in Page |-> Cell(t, p)]' = m
  OBVIOUS
<1> QED BY <1>1, <1>2 DEF Memory

\* The memory after one task gave way to a new program.
LEMMA TwoTasks ==
    ASSUME NEW t \in Task, NEW s \in Task, t # s,
           \A u \in Task : \A q \in Page :
               Cell(u, q)' = IF u = s THEN ImageMemory[q]
                             ELSE IF u = t THEN NoMemory[q] ELSE Cell(u, q)
    PROVE  Memory' = [Memory EXCEPT ![t] = NoMemory, ![s] = ImageMemory]
<1>1. \A u \in Task : u # t /\ u # s => [p \in Page |-> Cell(u, p)]' = [p \in Page |-> Cell(u, p)]
  OBVIOUS
<1>2. [p \in Page |-> Cell(t, p)]' = NoMemory
  BY DEF NoMemory
<1>3. [p \in Page |-> Cell(s, p)]' = ImageMemory
  BY DEF ImageMemory
<1> QED BY <1>1, <1>2, <1>3 DEF Memory

\* Nobody's memory has changed.
LEMMA SameMemory ==
    ASSUME \A u \in Task : \A q \in Page : Cell(u, q)' = Cell(u, q)
    PROVE  Memory' = Memory
BY DEF Memory

\* The lists after a change of one.
LEMMA OneList ==
    ASSUME AreasAreThere, NEW t \in Task, NEW list, areas' = [areas EXCEPT ![t] = list]
    PROVE  Lists' = [Lists EXCEPT ![t] = Listed(list)]
<1>1. areas'[t] = list /\ \A u \in Task : u # t => areas'[u] = areas[u]
  BY DEF AreasAreThere
<1>2. VisitedPages(t)' = Listed(list)
  BY <1>1 DEF VisitedPages
<1>3. \A u \in Task : u # t => VisitedPages(u)' = VisitedPages(u)
  BY <1>1 DEF VisitedPages
<1> QED BY <1>2, <1>3 DEF Lists

\* No area of a task that is gone has a page.
LEMMA NoPages == Listed(<<>>) = {}
BY DEF Listed

\* The lists after one task gave way to a new program.
LEMMA TwoLists ==
    ASSUME AreasAreThere, NEW t \in Task, NEW task \in Task, t # task,
           areas' = [areas EXCEPT ![t] = <<>>, ![task] = ExecAreas]
    PROVE  Lists' = [Lists EXCEPT ![t] = {}, ![task] = Listed(ExecAreas)]
<1>1. /\ areas'[t] = <<>> /\ areas'[task] = ExecAreas
      /\ \A u \in Task : u # t /\ u # task => areas'[u] = areas[u]
  BY DEF AreasAreThere
<1>2. VisitedPages(t)' = {} /\ VisitedPages(task)' = Listed(ExecAreas)
  BY <1>1, NoPages DEF VisitedPages
<1>3. \A u \in Task : u # t /\ u # task => VisitedPages(u)' = VisitedPages(u)
  BY <1>1 DEF VisitedPages
<1> QED BY <1>2, <1>3 DEF Lists

\* Nobody's list has changed.
LEMMA SameLists ==
    ASSUME areas' = areas
    PROVE  Lists' = Lists
BY DEF Lists, VisitedPages

\* A page the content of which is a new one.
LEMMA StoreSeen ==
    ASSUME MemoryInv, MapInv', NEW t \in live, NEW p \in Page, Present(t, p), NEW v \in Value,
           \A u \in live : \A q \in Page : pte[u][q].frame = pte[t][p].frame => u = t /\ q = p,
           content' = [content EXCEPT ![pte[t][p].frame] = v],
           UNCHANGED <<live, forked, areas, pte, free>>
    PROVE  MemoryInv' /\ Abstract!Store
<1>1. live \subseteq Task /\ content \in [Frame -> Value] /\ pte[t][p].frame \in Frame /\ t \in Task
  BY EntryFacts
<1>2. \A u \in Task : \A q \in Page : Cell(u, q)' = IF u = t /\ q = p THEN v ELSE Cell(u, q)
  <2> TAKE u \in Task
  <2> TAKE q \in Page
  <2>1. CASE u = t /\ q = p
    BY <1>1, <2>1 DEF Cell, Present
  <2>2. CASE u \in live /\ Present(u, q) /\ ~(u = t /\ q = p)
    <3>1. pte[u][q].frame # pte[t][p].frame /\ pte[u][q].frame \in Frame
      BY <1>1, <2>2, EntryFacts
    <3> QED BY <1>1, <2>2, <3>1 DEF Cell, Present
  <2>3. CASE ~(u \in live /\ Present(u, q))
    BY <2>3 DEF Cell, Present
  <2> QED BY <2>1, <2>2, <2>3
<1>3. Memory' = [Memory EXCEPT ![t][p] = v]
  BY <1>1, <1>2, OneCell
<1>4. Memory[t][p] # -1
  BY <1>1, CellFacts DEF Memory
<1>5. Abstract!Store
  <2>1. Lists' = Lists
    BY SameLists
  <2>2. \E u \in live, q \in Page, w \in Value :
            Memory[u][q] # -1 /\ Memory' = [Memory EXCEPT ![u][q] = w]
    BY <1>3, <1>4
  <2>3. live' = live
    OBVIOUS
  <2> QED BY <2>1, <2>2, <2>3 DEF Abstract!Store, Memory, Cell, Lists
<1>6. content' \in [Frame -> Value]
  BY <1>1
<1> QED
  BY <1>5, <1>6 DEF MemoryInv, AreasAreThere, StacksAreAlone, Present

\* The program stores to a page that it may write.
LEMMA WriteSeen ==
    ASSUME MemoryInv, MapInv', NEW t \in Task, NEW p \in Page, NEW v \in Value, Write(t, p, v)
    PROVE  MemoryInv' /\ Abstract!Store
<1>1. t \in live /\ pte[t][p].rw
  BY DEF Write
<1>2. \A u \in live : \A q \in Page : pte[u][q].frame = pte[t][p].frame => u = t /\ q = p
  BY <1>1 DEF MemoryInv, MapInv, WritableIsExclusive
<1> QED BY <1>1, <1>2, StoreSeen DEF Write

\* The kernel stores to a buffer on the program's stack.
LEMMA KernelWriteSeen ==
    ASSUME MemoryInv, MapInv', NEW t \in Task, NEW v \in Value, KernelWrite(t, StackPage, v)
    PROVE  MemoryInv' /\ Abstract!Store
<1>1. t \in live /\ StackPage \in Page /\ Present(t, StackPage)
  BY EntryFacts DEF KernelWrite
<1>2. ASSUME NEW u \in live, NEW q \in Page, pte[u][q].frame = pte[t][StackPage].frame
      PROVE  u = t /\ q = StackPage
  <2>1. u = t
    BY <1>1, <1>2 DEF MemoryInv, StacksAreAlone
  <2>2. q = StackPage
    BY <1>1, <1>2 DEF MemoryInv, MapInv, SamePageNumber
  <2> QED BY <2>1, <2>2
<1> QED BY <1>1, <1>2, StoreSeen DEF KernelWrite

\* Frame f, filled with v, becomes page p of t.
Maps(t, p, f, v) ==
    /\ pte' = [pte EXCEPT ![t][p] = [frame |-> f, rw |-> TRUE]]
    /\ content' = [content EXCEPT ![f] = v]
    /\ UNCHANGED <<live, forked, areas>>

\* A frame from the allocator becomes a page.
LEMMA FreshPage ==
    ASSUME MemoryInv, MapInv', NEW t \in live, NEW p \in Page, NEW f \in free, NEW v \in Value,
           Maps(t, p, f, v)
    PROVE  MemoryInv' /\ Memory' = [Memory EXCEPT ![t][p] = v]
<1>0. /\ pte' = [pte EXCEPT ![t][p] = [frame |-> f, rw |-> TRUE]]
      /\ content' = [content EXCEPT ![f] = v]
      /\ UNCHANGED <<live, forked, areas>>
  BY DEF Maps
<1>1. /\ live \subseteq Task /\ content \in [Frame -> Value] /\ f \in Frame /\ t \in Task
      /\ f # NoFrame /\ StackPage \in Page
      /\ pte \in [Task -> [Page -> [frame : Frame \cup {NoFrame}, rw : BOOLEAN]]]
  BY EntryFacts DEF MemoryInv, MapInv, TablesAreTyped
<1>2. pte'[t][p].frame = f
  BY <1>0, <1>1
<1>3. \A u \in Task : \A q \in Page : ~(u = t /\ q = p) => pte'[u][q] = pte[u][q]
  BY <1>0, <1>1
<1>4. \A u \in live : \A q \in Page : pte[u][q].frame # f
  BY <1>1, EntryFacts
<1>5. \A g \in Frame : content'[g] = IF g = f THEN v ELSE content[g]
  BY <1>0, <1>1
<1>6. \A u \in Task : \A q \in Page : Cell(u, q)' = IF u = t /\ q = p THEN v ELSE Cell(u, q)
  <2> TAKE u \in Task
  <2> TAKE q \in Page
  <2>1. CASE u = t /\ q = p
    BY <1>0, <1>1, <1>2, <1>5, <2>1 DEF Cell, Present
  <2>2. CASE u \in live /\ Present(u, q) /\ ~(u = t /\ q = p)
    <3>1. pte[u][q].frame # f /\ pte[u][q].frame \in Frame
      BY <1>1, <1>4, <2>2, EntryFacts
    <3> QED BY <1>0, <1>3, <1>5, <2>2, <3>1 DEF Cell, Present
  <2>3. CASE ~(u \in live /\ Present(u, q)) /\ ~(u = t /\ q = p)
    BY <1>0, <1>3, <2>3 DEF Cell, Present
  <2> QED BY <2>1, <2>2, <2>3
<1>7. Memory' = [Memory EXCEPT ![t][p] = v]
  BY <1>1, <1>6, OneCell
<1>8. content' \in [Frame -> Value] /\ AreasAreThere'
  BY <1>0, <1>1 DEF MemoryInv, AreasAreThere
<1>9. StacksAreAlone'
  <2> SUFFICES ASSUME NEW u \in live
               PROVE  /\ HasStack(areas[u]) => pte'[u][StackPage].frame # NoFrame
                      /\ \A w \in live \ {u}, q \in Page :
                             pte'[u][StackPage].frame # NoFrame =>
                                 pte'[w][q].frame # pte'[u][StackPage].frame
    BY <1>0 DEF StacksAreAlone, Present, HasStack
  <2>1. /\ HasStack(areas[u]) => pte[u][StackPage].frame # NoFrame
        /\ pte[u][StackPage].frame # NoFrame =>
             \A w \in live \ {u}, q \in Page : pte[w][q].frame # pte[u][StackPage].frame
    BY DEF MemoryInv, StacksAreAlone, Present
  <2>2. HasStack(areas[u]) => pte'[u][StackPage].frame # NoFrame
    BY <1>1, <1>2, <1>3, <2>1
  <2>3. ASSUME NEW w \in live \ {u}, NEW q \in Page, pte'[u][StackPage].frame # NoFrame
        PROVE  pte'[w][q].frame # pte'[u][StackPage].frame
    <3>1. CASE u = t /\ StackPage = p
      BY <1>1, <1>2, <1>3, <1>4, <3>1
    <3>2. CASE ~(u = t /\ StackPage = p) /\ w = t /\ q = p
      BY <1>1, <1>2, <1>3, <1>4, <3>2
    <3>3. CASE ~(u = t /\ StackPage = p) /\ ~(w = t /\ q = p)
      BY <1>1, <1>3, <2>1, <2>3, <3>3
    <3> QED BY <3>1, <3>2, <3>3
  <2> QED BY <2>2, <2>3
<1> QED BY <1>7, <1>8, <1>9 DEF MemoryInv

\* The first store to a page finds it cleared.
LEMMA FirstUseSeen ==
    ASSUME MemoryInv, MapInv', NEW t \in Task, NEW p \in Page, FaultFirstUse(t, p)
    PROVE  MemoryInv' /\ Abstract!FirstUse
<1>1. PICK f : f = kmalloc({p})[p]
  OBVIOUS
<1>2. /\ t \in live /\ ~Present(t, p) /\ isPartofCurrentVma(t, p) /\ Enough({p})
      /\ pte' = [pte EXCEPT ![t][p] = [frame |-> f, rw |-> TRUE]]
      /\ content' = [content EXCEPT ![f] = Zero]
      /\ UNCHANGED <<live, forked, areas>>
  BY <1>1 DEF FaultFirstUse
<1>3. f \in free /\ Zero \in Value
  BY <1>1, <1>2, AllocatedPage, AddressAssumption
<1>4. p \in VisitedPages(t)
  <2>1. PICK k \in DOMAIN areas[t] : areas[t][k].start \div PageSize = p
    BY <1>2 DEF isPartofCurrentVma
  <2>2. t \in Task /\ Good(areas[t])
    BY DEF MemoryInv, AreasAreThere
  <2>3. areas[t][k] \in VMA /\ areas[t][k].start < areas[t][k].end
    BY <2>1, <2>2 DEF Good, Placed
  <2>4. p \in Visited(areas[t][k])
    BY <2>1, <2>3, FirstIsVisited
  <2> QED BY <2>1, <2>4 DEF VisitedPages, Listed
<1>5. MemoryInv' /\ Memory' = [Memory EXCEPT ![t][p] = Zero]
  <2>1. Maps(t, p, f, Zero)
    BY <1>2 DEF Maps
  <2> QED BY <1>2, <1>3, <2>1, FreshPage
<1>6. Memory[t][p] = -1
  BY <1>2, CellFacts DEF Memory
<1>7. Abstract!FirstUse
  <2>1. Lists' = Lists /\ Lists[t] = VisitedPages(t)
    BY <1>2, SameLists DEF Lists
  <2> QED BY <1>2, <1>4, <1>5, <1>6, <2>1 DEF Abstract!FirstUse, Memory, Cell, Lists
<1> QED BY <1>5, <1>7

\* The last sharer's entry becomes writable, or a copy takes its place: neither
\* is seen.
LEMMA ReadOnlySeen ==
    ASSUME MemoryInv, MapInv', NEW t \in Task, NEW p \in Page, FaultReadOnly(t, p)
    PROVE  MemoryInv' /\ Memory' = Memory /\ live' = live /\ Lists' = Lists
<1>1. t \in live /\ Present(t, p) /\ UNCHANGED <<live, forked, areas>>
  BY DEF FaultReadOnly
<1>2. CASE Sharers(t, p) = {}
  <2>1. pte' = [pte EXCEPT ![t][p].rw = TRUE] /\ content' = content
    BY <1>2 DEF FaultReadOnly
  <2>2. pte \in [Task -> [Page -> [frame : Frame \cup {NoFrame}, rw : BOOLEAN]]]
    BY DEF MemoryInv, MapInv, TablesAreTyped
  <2>3. pte[t][p] \in [frame : Frame \cup {NoFrame}, rw : BOOLEAN]
    BY <2>2
  <2>4. [pte[t][p] EXCEPT !.rw = TRUE].frame = pte[t][p].frame
    BY <2>3
  <2>5. PICK e : e = [pte[t][p] EXCEPT !.rw = TRUE]
    OBVIOUS
  <2>6. pte' = [pte EXCEPT ![t][p] = e] /\ e.frame = pte[t][p].frame
    BY <2>1, <2>4, <2>5
  <2>7. \A u \in Task : \A q \in Page : pte'[u][q].frame = pte[u][q].frame
    BY <2>2, <2>6
  <2>8. live \subseteq Task
    BY EntryFacts
  <2>9. \A u \in Task : \A q \in Page : Cell(u, q)' = Cell(u, q)
    BY <1>1, <2>1, <2>7 DEF Cell, Present
  <2>10. AreasAreThere'
    BY <1>1 DEF MemoryInv, AreasAreThere
  <2>11. StacksAreAlone'
    BY <1>1, <2>7, <2>8, EntryFacts DEF MemoryInv, StacksAreAlone, Present, HasStack
  <2> QED BY <1>1, <2>1, <2>9, <2>10, <2>11, SameMemory, SameLists DEF MemoryInv
<1>3. CASE Sharers(t, p) # {}
  <2>1. PICK f : f = kmalloc({p})[p]
    OBVIOUS
  <2>2. PICK v : v = content[pte[t][p].frame]
    OBVIOUS
  <2>3. /\ Enough({p})
        /\ pte' = [pte EXCEPT ![t][p] = [frame |-> f, rw |-> TRUE]]
        /\ content' = [content EXCEPT ![f] = v]
    BY <1>3, <2>1, <2>2 DEF FaultReadOnly, FaultCopy
  <2>4. f \in free /\ v \in Value
    BY <1>1, <2>1, <2>2, <2>3, AllocatedPage, EntryFacts
  <2>6. MemoryInv' /\ Memory' = [Memory EXCEPT ![t][p] = v]
    <3>1. Maps(t, p, f, v)
      BY <1>1, <2>3 DEF Maps
    <3> QED BY <1>1, <2>4, <3>1, FreshPage
  <2>7. Memory[t][p] = v
    BY <1>1, <2>2 DEF Memory, Cell
  <2>8. [Memory EXCEPT ![t][p] = v] = Memory
    BY <2>7 DEF Memory
  <2> QED BY <1>1, <2>6, <2>8, SameLists
<1> QED BY <1>2, <1>3

\* A task has another list, and no other pages.
LEMMA RegroupSeen ==
    ASSUME MemoryInv, MapInv', NEW t \in live, NEW list, Good(list), Len(list) >= 1,
           HasStack(list) => HasStack(areas[t]),
           areas' = [areas EXCEPT ![t] = list],
           UNCHANGED <<live, forked, pte, free, content>>
    PROVE  MemoryInv' /\ Abstract!Regroup
<1>1. live \subseteq Task /\ t \in Task
  BY EntryFacts
<1>2. areas'[t] = list /\ \A u \in Task : u # t => areas'[u] = areas[u]
  BY <1>1 DEF MemoryInv, AreasAreThere
<1>3. AreasAreThere'
  <2>1. list \in Seq(VMA)
    BY DEF Good
  <2>2. areas' \in [Task -> Seq(VMA)]
    BY <2>1 DEF MemoryInv, AreasAreThere
  <2>3. \A u \in Task : Good(areas'[u])
    BY <1>2 DEF MemoryInv, AreasAreThere
  <2>4. \A u \in live : Len(areas'[u]) >= 1
    BY <1>1, <1>2 DEF MemoryInv, AreasAreThere
  <2> QED BY <2>2, <2>3, <2>4 DEF AreasAreThere, Good
<1>4. StacksAreAlone'
  <2>1. \A u \in live : HasStack(areas'[u]) => HasStack(areas[u])
    BY <1>1, <1>2
  <2> QED BY <2>1 DEF MemoryInv, StacksAreAlone, Present, HasStack
<1>5. Memory' = Memory
  <2>1. \A u \in Task : \A q \in Page : Cell(u, q)' = Cell(u, q)
    BY DEF Cell, Present
  <2> QED BY <2>1, SameMemory
<1>6. Abstract!Regroup
  <2>1. Lists' = [Lists EXCEPT ![t] = Listed(list)]
    BY <1>1, OneList DEF MemoryInv
  <2>2. Listed(list) \in SUBSET Page
    BY DEF Listed, Visited
  <2> QED BY <1>1, <1>5, <2>1, <2>2 DEF Abstract!Regroup, Memory, Cell, Lists
<1> QED BY <1>3, <1>4, <1>6 DEF MemoryInv

\* malloc() makes an area, and no page.
LEMMA MallocSeen ==
    ASSUME MemoryInv, MapInv', NEW t \in Task, NEW size \in MallocSizes, malloc(t, size)
    PROVE  MemoryInv' /\ Abstract!Regroup
<1>1. PICK list : list = List!malloc(areas[t], size)
  OBVIOUS
<1>2. /\ t \in live /\ list[Len(list)].end <= HeapLimit
      /\ areas' = [areas EXCEPT ![t] = list]
      /\ UNCHANGED <<live, forked, pte, free, content>>
  BY <1>1 DEF malloc
<1>3. Good(areas[t]) /\ Len(areas[t]) >= 1
  BY <1>2 DEF MemoryInv, AreasAreThere
<1>4. Good(list) /\ Len(list) >= 1 /\ (HasStack(list) => HasStack(areas[t]))
  BY <1>1, <1>2, <1>3, MallocIsGood
<1> QED BY <1>2, <1>4, RegroupSeen

\* free() takes an area, and no page.
LEMMA FreeSeen ==
    ASSUME MemoryInv, MapInv', NEW t \in Task, Free(t)
    PROVE  MemoryInv' /\ Abstract!Regroup
<1>1. PICK k : areas' = [areas EXCEPT ![t] = List!free(areas[t], areas[t][k].start)]
  BY DEF Free
<1>2. PICK list : list = List!free(areas[t], areas[t][k].start)
  OBVIOUS
<1>3. t \in live /\ UNCHANGED <<live, forked, pte, free, content>>
  BY DEF Free
<1>4. Good(areas[t]) /\ Len(areas[t]) >= 1
  BY <1>3 DEF MemoryInv, AreasAreThere
<1>5. Good(list) /\ Len(list) >= 1 /\ (HasStack(list) => HasStack(areas[t]))
  BY <1>2, <1>4, FreeIsGood
<1> QED BY <1>1, <1>2, <1>3, <1>5, RegroupSeen

\* A task that leaves takes its memory with it: the pages that are cleared are
\* no other's.
LEMMA LeavingSeen ==
    ASSUME MemoryInv, MapInv', NEW t \in live,
           live' = live \ {t},
           areas' = [areas EXCEPT ![t] = <<>>],
           pte' = [pte EXCEPT ![t] = EmptyTable],
           content' \in [Frame -> Value],
           \A u \in live \ {t} : \A q \in Page :
               Present(u, q) => content'[pte[u][q].frame] = content[pte[u][q].frame]
    PROVE  MemoryInv' /\ Abstract!End
<1>1. /\ live \subseteq Task /\ t \in Task
      /\ pte \in [Task -> [Page -> [frame : Frame \cup {NoFrame}, rw : BOOLEAN]]]
  BY EntryFacts DEF MemoryInv, MapInv, TablesAreTyped
<1>2. \A u \in Task : u # t => pte'[u] = pte[u] /\ areas'[u] = areas[u]
  BY <1>1 DEF MemoryInv, AreasAreThere
<1>3. AreasAreThere'
  <2>1. Good(<<>>)
    BY DEF Good
  <2>2. areas' \in [Task -> Seq(VMA)] /\ areas'[t] = <<>>
    BY <1>1, <2>1 DEF MemoryInv, AreasAreThere, Good
  <2>3. \A u \in Task : Good(areas'[u])
    BY <1>1, <1>2, <2>1, <2>2 DEF MemoryInv, AreasAreThere
  <2>4. \A u \in live' : Len(areas'[u]) >= 1
    BY <1>1, <1>2 DEF MemoryInv, AreasAreThere
  <2> QED BY <2>2, <2>3, <2>4 DEF AreasAreThere, Good
<1>5. StacksAreAlone'
  BY <1>1, <1>2 DEF MemoryInv, StacksAreAlone, Present, HasStack
<1>6. \A u \in Task : \A q \in Page : Cell(u, q)' = IF u = t THEN NoMemory[q] ELSE Cell(u, q)
  BY <1>1, <1>2 DEF Cell, Present, NoMemory
<1>7. Memory' = [Memory EXCEPT ![t] = NoMemory]
  <2>1. NoMemory = [q \in Page |-> NoMemory[q]]
    BY DEF NoMemory
  <2> QED BY <1>1, <1>6, <2>1, OneTask
<1>8. Abstract!End
  <2>1. Lists' = [Lists EXCEPT ![t] = {}]
    BY <1>1, OneList, NoPages DEF MemoryInv
  <2> QED BY <1>7, <2>1 DEF Abstract!End, Abstract!Nothing, NoMemory, Memory, Cell, Lists
<1> QED BY <1>3, <1>5, <1>8 DEF MemoryInv

\* A program that exec() does not find.
LEMMA NotFoundSeen ==
    ASSUME MemoryInv, MapInv', NEW t \in Task, execNotFound(t)
    PROVE  MemoryInv' /\ Abstract!End
<1>1. PICK f : f = kmalloc({StackPage})[StackPage]
  OBVIOUS
<1>2. /\ t \in live /\ Enough({StackPage}) /\ live' = live \ {t}
      /\ areas' = [areas EXCEPT ![t] = <<>>] /\ pte' = [pte EXCEPT ![t] = EmptyTable]
      /\ content' = [content EXCEPT ![f] = Zero]
  BY <1>1 DEF execNotFound
<1>3. f \in free /\ Zero \in Value
  BY <1>1, <1>2, AllocatedPage, AddressAssumption
<1>4. content' \in [Frame -> Value]
  BY <1>2, <1>3, EntryFacts
<1>5. ASSUME NEW u \in live \ {t}, NEW q \in Page, Present(u, q)
      PROVE  content'[pte[u][q].frame] = content[pte[u][q].frame]
  <2>1. pte[u][q].frame \in Frame /\ pte[u][q].frame # f
    BY <1>3, <1>5, EntryFacts
  <2> QED BY <1>2, <2>1, EntryFacts
<1> QED BY <1>2, <1>4, <1>5, LeavingSeen

\* The frames that FreePageEntries() clears are no other task's.
LEMMA TerminateSeen ==
    ASSUME MemoryInv, MapInv', OnlyShellForks, NEW t \in Task, Terminate(t)
    PROVE  MemoryInv' /\ Abstract!End
<1>1. /\ t \in live /\ t \notin forked \cup {sbush} /\ live' = live \ {t}
      /\ areas' = [areas EXCEPT ![t] = <<>>] /\ pte' = [pte EXCEPT ![t] = EmptyTable]
      /\ content' = [f \in Frame |-> IF f \in Freed(t) THEN Zero ELSE content[f]]
  BY DEF Terminate, CanEnd
<1>2. content' \in [Frame -> Value]
  <2>1. Zero \in Value
    BY AddressAssumption
  <2> QED BY <1>1, <2>1, EntryFacts
<1>3. ASSUME NEW u \in live \ {t}, NEW q \in Page, Present(u, q)
      PROVE  content'[pte[u][q].frame] = content[pte[u][q].frame]
  <2>1. pte[u][q].frame \in Frame
    BY <1>3, EntryFacts
  <2>2. pte[u][q].frame \notin Freed(t)
    <3> SUFFICES ASSUME pte[u][q].frame \in Freed(t) PROVE FALSE
      OBVIOUS
    <3>1. PICK p \in VisitedPages(t) : pte[u][q].frame = pte[t][p].frame
      BY DEF Freed
    <3>2. p \in Page
      BY DEF VisitedPages, Listed, Visited
    <3>3. Present(t, p)
      BY <1>3, <3>1 DEF Present
    <3> QED BY <1>1, <1>3, <3>1, <3>2, <3>3 DEF MemoryInv, MapInv, ProgramsAreAlone
  <2> QED BY <1>1, <2>1, <2>2
<1> QED BY <1>1, <1>2, <1>3, LeavingSeen

\* A new program has the contents of its image, on pages nobody else has.
LEMMA ExecSeen ==
    ASSUME MemoryInv, MapInv', NEW t \in Task, exec(t)
    PROVE  MemoryInv' /\ Abstract!Exec
<1>1. PICK g : g = kmalloc(ImagePages)
  OBVIOUS
<1>2. PICK task \in Task \ live :
        /\ live' = (live \ {t}) \cup {task}
        /\ areas' = [areas EXCEPT ![t] = <<>>, ![task] = ExecAreas]
        /\ pte' = [pte EXCEPT ![t] = EmptyTable, ![task] = ImageTable(g)]
        /\ content' = ImageContent(g)
  BY <1>1 DEF exec
<1>3. /\ g \in [ImagePages -> free]
      /\ \A x, y \in ImagePages : g[x] = g[y] => x = y
  BY <1>1, Allocated DEF exec
<1>4. /\ live \subseteq Task /\ free \subseteq Frame /\ NoFrame \notin Frame
      /\ t \in live /\ t # task /\ StackPage \in Page \ LoadedPages
      /\ pte \in [Task -> [Page -> [frame : Frame \cup {NoFrame}, rw : BOOLEAN]]]
      /\ ImagePages \subseteq Page /\ StackPage \in ImagePages /\ LoadedPages \subseteq ImagePages
      /\ \A p \in ImagePages : p = StackPage \/ p \in LoadedPages
  BY <1>2, EntryFacts, AddressAssumption DEF MemoryInv, MapInv, TablesAreTyped, exec, ImagePages
<1>5. /\ pte'[task] = ImageTable(g)
      /\ areas'[task] = ExecAreas
      /\ pte'[t] = EmptyTable
      /\ areas'[t] = <<>>
      /\ \A u \in Task \ {t, task} : pte'[u] = pte[u] /\ areas'[u] = areas[u]
  BY <1>2, <1>4 DEF MemoryInv, AreasAreThere
<1>6. /\ \A p \in ImagePages : pte'[task][p].frame = g[p] /\ g[p] \in Frame /\ g[p] # NoFrame
      /\ \A p \in Page \ ImagePages : pte'[task][p].frame = NoFrame
  BY <1>3, <1>4, <1>5 DEF ImageTable, Absent
<1>7. /\ \A p \in LoadedPages : content'[g[p]] = ImageValue
      /\ content'[g[StackPage]] = Zero
      /\ \A f \in Frame : f \notin free => content'[f] = content[f]
  <2>1. \A p \in LoadedPages : content'[g[p]] = ImageValue
    BY <1>2, <1>4, <1>6 DEF ImageContent
  <2>2. content'[g[StackPage]] = Zero
    BY <1>2, <1>3, <1>4, <1>6 DEF ImageContent
  <2>3. \A f \in Frame : f \notin free => content'[f] = content[f]
    BY <1>2, <1>3, <1>4 DEF ImageContent
  <2> QED BY <2>1, <2>2, <2>3
<1>8. content' \in [Frame -> Value]
  BY <1>2, EntryFacts, AddressAssumption DEF ImageContent
<1>9. \A u \in live \ {t} : \A q \in Page :
          /\ pte[u][q].frame \notin free
          /\ Present(u, q) => content'[pte[u][q].frame] = content[pte[u][q].frame]
  BY <1>7, EntryFacts
<1>10. \A u \in live' : u = task \/ (u \in live \ {t} /\ pte'[u] = pte[u] /\ areas'[u] = areas[u])
  BY <1>2, <1>4, <1>5
<1>11. AreasAreThere'
  <2>1. Good(ExecAreas) /\ Len(ExecAreas) >= 1 /\ Good(<<>>)
    BY StartsAreGood DEF Good
  <2>2. ExecAreas \in Seq(VMA) /\ <<>> \in Seq(VMA)
    BY <2>1 DEF Good
  <2>3. areas' \in [Task -> Seq(VMA)]
    BY <1>2, <2>2 DEF MemoryInv, AreasAreThere
  <2>4. \A u \in Task : u = t \/ u = task \/ areas'[u] = areas[u]
    BY <1>5
  <2>5. \A u \in Task : Good(areas'[u])
    BY <1>5, <2>1, <2>4 DEF MemoryInv, AreasAreThere
  <2>6. \A u \in live' : Len(areas'[u]) >= 1
    BY <1>5, <1>10, <2>1 DEF MemoryInv, AreasAreThere
  <2> QED BY <2>3, <2>5, <2>6 DEF AreasAreThere, Good
<1>13. StacksAreAlone'
  <2> SUFFICES ASSUME NEW u \in live'
               PROVE  /\ HasStack(areas'[u]) => pte'[u][StackPage].frame # NoFrame
                      /\ pte'[u][StackPage].frame # NoFrame =>
                           \A w \in live' \ {u}, q \in Page :
                               pte'[w][q].frame # pte'[u][StackPage].frame
    BY DEF StacksAreAlone, Present, HasStack
  <2>1. \A q \in Page : pte'[task][q].frame = NoFrame \/ pte'[task][q].frame \in free
    BY <1>3, <1>4, <1>6
  <2>2. CASE u = task
    BY <1>3, <1>4, <1>6, <1>9, <1>10, <2>2
  <2>3. CASE u \in live \ {t} /\ pte'[u] = pte[u] /\ areas'[u] = areas[u]
    <3>1. /\ HasStack(areas[u]) => pte[u][StackPage].frame # NoFrame
          /\ pte[u][StackPage].frame # NoFrame =>
               \A w \in live \ {u}, q \in Page : pte[w][q].frame # pte[u][StackPage].frame
      BY <2>3 DEF MemoryInv, StacksAreAlone, Present
    <3>2. pte[u][StackPage].frame \notin free
      BY <1>4, <1>9, <2>3
    <3> QED BY <1>10, <2>1, <2>3, <3>1, <3>2
  <2> QED BY <1>10, <2>2, <2>3
<1>14. \A u \in Task : \A q \in Page :
           Cell(u, q)' = IF u = task THEN ImageMemory[q]
                         ELSE IF u = t THEN NoMemory[q] ELSE Cell(u, q)
  <2> TAKE u \in Task
  <2> TAKE q \in Page
  <2>1. CASE u = task
    <3>1. task \in live'
      BY <1>2
    <3>2. CASE q \in LoadedPages
      BY <1>4, <1>6, <1>7, <2>1, <3>1, <3>2 DEF Cell, Present, ImageMemory
    <3>3. CASE q = StackPage
      BY <1>4, <1>6, <1>7, <2>1, <3>1, <3>3 DEF Cell, Present, ImageMemory
    <3>4. CASE q \notin LoadedPages /\ q # StackPage
      BY <1>4, <1>6, <2>1, <3>4 DEF Cell, Present, ImageMemory
    <3> QED BY <3>2, <3>3, <3>4
  <2>2. CASE u = t
    BY <1>2, <1>4, <2>2 DEF Cell, NoMemory
  <2>3. CASE u # task /\ u # t /\ u \in live
    <3>1. u \in live' /\ pte'[u] = pte[u]
      BY <1>2, <1>5, <2>3
    <3>2. CASE Present(u, q)
      BY <1>9, <2>3, <3>1, <3>2 DEF Cell, Present
    <3>3. CASE ~Present(u, q)
      BY <2>3, <3>1, <3>3 DEF Cell, Present
    <3> QED BY <3>2, <3>3
  <2>4. CASE u # task /\ u # t /\ u \notin live
    BY <1>2, <2>4 DEF Cell
  <2> QED BY <1>4, <2>1, <2>2, <2>3, <2>4
<1>15. Memory' = [Memory EXCEPT ![t] = NoMemory, ![task] = ImageMemory]
  BY <1>4, <1>14, TwoTasks
<1>16. Abstract!Exec
  <2>1. Lists' = [Lists EXCEPT ![t] = {}, ![task] = Listed(ExecAreas)]
    BY <1>2, <1>4, TwoLists DEF MemoryInv
  <2> QED BY <1>2, <1>4, <1>15, <2>1
             DEF Abstract!Exec, Abstract!Nothing, NoMemory, ImageMemory, Memory, Cell, Lists
<1> QED BY <1>8, <1>11, <1>13, <1>16 DEF MemoryInv

\* The child of a fork has what its parent has on the pages of its areas: a copy
\* of the stack, and the frames of the others.
LEMMA ForkSeen ==
    ASSUME MemoryInv, MapInv', fork(sbush)
    PROVE  MemoryInv' /\ Abstract!Fork
<1> DEFINE stack == Copied(sbush)
           g == kmalloc(stack)
           list == List!copyVMA(areas[sbush])
<1>0. stack = Copied(sbush) /\ list = List!copyVMA(areas[sbush])
  OBVIOUS
<1>1. g \in [stack -> free]
  BY Allocated DEF fork
<1>2. PICK child \in Task \ live :
        /\ live' = live \cup {child}
        /\ areas' = [areas EXCEPT ![child] = list]
        /\ pte' = [pte EXCEPT ![child] = ChildTable(sbush, g),
                              ![sbush] = makeParentCr3asReadOnly(sbush)]
        /\ content' = [f \in Frame |->
                          IF \E p \in stack : g[p] = f
                            THEN content[pte[sbush][CHOOSE p \in stack : g[p] = f].frame]
                            ELSE content[f]]
  BY DEF fork
<1> HIDE DEF stack, g, list
<1>5. /\ live \subseteq Task /\ free \subseteq Frame /\ NoFrame \notin Frame
      /\ sbush \in live /\ sbush \in Task /\ child # sbush /\ StackPage \in Page
      /\ pte \in [Task -> [Page -> [frame : Frame \cup {NoFrame}, rw : BOOLEAN]]]
      /\ content \in [Frame -> Value]
      /\ areas \in [Task -> Seq(VMA)]
      /\ Good(areas[sbush]) /\ Len(areas[sbush]) >= 1
  BY <1>2, EntryFacts, AddressAssumption DEF MemoryInv, MapInv, TablesAreTyped, AreasAreThere
<1>3. /\ stack \subseteq {StackPage}
      /\ StackPage \in stack <=> HasStack(areas[sbush])
      /\ StackPage \notin Inherited(sbush)
      /\ VisitedPages(sbush) = Inherited(sbush) \cup stack
  BY <1>0, <1>5, ListedParts
<1>4. /\ Good(list) /\ Len(list) >= 1 /\ list \in Seq(VMA)
      /\ HasStack(list) <=> HasStack(areas[sbush])
      /\ Listed(list) = VisitedPages(sbush)
  <2>1. /\ Good(list) /\ Len(list) = Len(areas[sbush])
        /\ HasStack(list) <=> HasStack(areas[sbush])
        /\ Listed(list) = Listed(areas[sbush])
    BY <1>0, <1>5, CopyIsGood
  <2>2. list \in Seq(VMA)
    BY <2>1 DEF Good
  <2> QED BY <1>5, <2>1, <2>2 DEF VisitedPages
<1>6. /\ pte'[child] = ChildTable(sbush, g)
      /\ pte'[sbush] = makeParentCr3asReadOnly(sbush)
      /\ \A u \in Task \ {child, sbush} : pte'[u] = pte[u]
      /\ areas'[child] = list
      /\ \A u \in Task \ {child} : areas'[u] = areas[u]
  BY <1>2, <1>5
<1>7. \A p \in Page : [pte[sbush][p] EXCEPT !.rw = FALSE].frame = pte[sbush][p].frame
  <2> TAKE p \in Page
  <2>1. pte[sbush][p] \in [frame : Frame \cup {NoFrame}, rw : BOOLEAN]
    BY <1>5
  <2> QED BY <2>1
<1>8. \A u \in live : \A p \in Page : pte'[u][p].frame = pte[u][p].frame
  <2>1. \A p \in Page : pte'[sbush][p].frame = pte[sbush][p].frame
    BY <1>6, <1>7 DEF makeParentCr3asReadOnly
  <2> QED BY <1>2, <1>5, <1>6, <2>1
<1>9. \A p \in stack : g[p] \in free /\ Present(sbush, p) /\ p = StackPage
  BY <1>1, <1>3, <1>5 DEF MemoryInv, StacksAreAlone
<1>10. /\ \A p \in stack : pte'[child][p].frame = g[p]
       /\ \A p \in Page \ stack :
            pte'[child][p].frame = IF p \in VisitedPages(sbush) THEN pte[sbush][p].frame ELSE NoFrame
  <2>1. DOMAIN g = stack
    BY <1>1
  <2>2. ASSUME NEW p \in stack
        PROVE  pte'[child][p].frame = g[p]
    BY <1>3, <1>5, <1>6, <2>1 DEF ChildTable
  <2>3. ASSUME NEW p \in Page \ stack
        PROVE  pte'[child][p].frame = IF p \in Inherited(sbush) THEN pte[sbush][p].frame ELSE NoFrame
    BY <1>6, <1>7, <2>1 DEF ChildTable, Absent
  <2> QED BY <1>3, <2>2, <2>3
<1>11. /\ \A p \in stack : content'[g[p]] = content[pte[sbush][p].frame]
       /\ \A f \in Frame : f \notin free => content'[f] = content[f]
  <2>1. ASSUME NEW p \in stack
        PROVE  content'[g[p]] = content[pte[sbush][p].frame]
    <3>1. (CHOOSE q \in stack : g[q] = g[p]) = p
      BY <1>3
    <3>2. g[p] \in Frame /\ \E q \in stack : g[q] = g[p]
      BY <1>5, <1>9
    <3> QED BY <1>2, <3>1, <3>2
  <2>2. ASSUME NEW f \in Frame, f \notin free
        PROVE  content'[f] = content[f]
    BY <1>2, <1>9, <2>2
  <2> QED BY <2>1, <2>2
<1>12. content' \in [Frame -> Value]
  <2>1. ASSUME NEW f \in Frame
        PROVE  content'[f] \in Value
    <3>1. CASE \E p \in stack : g[p] = f
      <4>1. PICK p \in stack : g[p] = f
        BY <3>1
      <4>2. pte[sbush][p].frame \in Frame
        BY <1>5, <1>9, EntryFacts
      <4> QED BY <1>5, <1>11, <4>1, <4>2
    <3>2. CASE ~\E p \in stack : g[p] = f
      BY <1>2, <1>5, <3>2
    <3> QED BY <3>1, <3>2
  <2>2. content' = [f \in Frame |-> content'[f]]
    BY <1>2
  <2> QED BY <2>1, <2>2
<1>13. AreasAreThere'
  <2>1. areas' \in [Task -> Seq(VMA)]
    BY <1>2, <1>4, <1>5
  <2>2. \A u \in Task : Good(areas'[u])
    BY <1>4, <1>6 DEF MemoryInv, AreasAreThere
  <2>3. \A u \in live' : Len(areas'[u]) >= 1
    BY <1>2, <1>4, <1>5, <1>6 DEF MemoryInv, AreasAreThere
  <2> QED BY <2>1, <2>2, <2>3 DEF AreasAreThere, Good
<1>14. /\ HasStack(areas'[child]) => pte'[child][StackPage].frame # NoFrame
       /\ pte'[child][StackPage].frame # NoFrame =>
              StackPage \in stack /\ pte'[child][StackPage].frame \in free
  <2>1. CASE StackPage \in stack
    BY <1>5, <1>9, <1>10, <2>1
  <2>2. CASE StackPage \notin stack
    <3>1. pte'[child][StackPage].frame = NoFrame
      BY <1>3, <1>5, <1>10, <2>2
    <3> QED BY <1>3, <1>4, <1>6, <2>2, <3>1
  <2> QED BY <2>1, <2>2
<1>15. StacksAreAlone'
  <2> SUFFICES ASSUME NEW u \in live'
               PROVE  /\ HasStack(areas'[u]) => pte'[u][StackPage].frame # NoFrame
                      /\ \A w \in live' \ {u}, q \in Page :
                             pte'[u][StackPage].frame # NoFrame =>
                                 pte'[w][q].frame # pte'[u][StackPage].frame
    BY DEF StacksAreAlone, Present, HasStack
  <2>1. CASE u = child
    <3>1. \A w \in live : \A q \in Page : pte'[w][q].frame \notin free
      BY <1>5, <1>8, EntryFacts
    <3> QED BY <1>2, <1>14, <2>1, <3>1
  <2>2. CASE u \in live
    <3>1. /\ HasStack(areas[u]) => pte[u][StackPage].frame # NoFrame
          /\ pte[u][StackPage].frame # NoFrame =>
               \A w \in live \ {u}, q \in Page : pte[w][q].frame # pte[u][StackPage].frame
      BY <2>2 DEF MemoryInv, StacksAreAlone, Present
    <3>2. /\ pte'[u][StackPage].frame = pte[u][StackPage].frame
          /\ pte[u][StackPage].frame \notin free
          /\ areas'[u] = areas[u]
      BY <1>2, <1>5, <1>6, <1>8, <2>2, EntryFacts
    <3>3. ASSUME NEW q \in Page, pte[u][StackPage].frame # NoFrame
          PROVE  pte'[child][q].frame # pte[u][StackPage].frame
      <4>1. CASE q \in stack
        BY <1>9, <1>10, <3>2, <4>1
      <4>2. CASE q \notin stack /\ q \notin VisitedPages(sbush)
        BY <1>10, <3>3, <4>2
      <4>3. CASE q \notin stack /\ q \in VisitedPages(sbush) /\ u # sbush
        BY <1>5, <1>10, <3>1, <3>3, <4>3
      <4>4. CASE q \notin stack /\ q \in VisitedPages(sbush) /\ u = sbush
        <5>1. q # StackPage
          BY <1>3, <4>4
        <5>2. pte[sbush][q].frame # pte[sbush][StackPage].frame
          BY <1>5, <3>3, <4>4, <5>1 DEF MemoryInv, MapInv, SamePageNumber, Present
        <5> QED BY <1>10, <4>4, <5>2
      <4> QED BY <4>1, <4>2, <4>3, <4>4
    <3>4. ASSUME NEW w \in live \ {u}, NEW q \in Page, pte[u][StackPage].frame # NoFrame
          PROVE  pte'[w][q].frame # pte'[u][StackPage].frame
      BY <1>8, <3>1, <3>2, <3>4
    <3> QED BY <1>2, <3>1, <3>2, <3>3, <3>4
  <2> QED BY <1>2, <2>1, <2>2
<1>16. PICK m : m = [p \in Page |-> IF p \in VisitedPages(sbush) THEN Cell(sbush, p) ELSE -1]
  OBVIOUS
<1>17. \A u \in Task : \A q \in Page : Cell(u, q)' = IF u = child THEN m[q] ELSE Cell(u, q)
  <2> TAKE u \in Task
  <2> TAKE q \in Page
  <2>1. CASE u = child /\ q \in stack
    <3>1. child \in live' /\ g[q] # NoFrame
      BY <1>2, <1>5, <1>9, <2>1
    <3>2. Cell(u, q)' = content[pte[sbush][q].frame]
      BY <1>10, <1>11, <2>1, <3>1 DEF Cell, Present
    <3>3. Present(sbush, q) /\ q \in VisitedPages(sbush)
      BY <1>3, <1>9, <2>1
    <3> QED BY <1>5, <1>16, <2>1, <3>2, <3>3 DEF Cell
  <2>2. CASE u = child /\ q \notin stack /\ q \in VisitedPages(sbush)
    <3>1. child \in live' /\ pte'[child][q].frame = pte[sbush][q].frame
      BY <1>2, <1>10, <2>2
    <3>2. CASE Present(sbush, q)
      <4>1. content'[pte[sbush][q].frame] = content[pte[sbush][q].frame]
        BY <1>5, <1>11, <3>2, EntryFacts
      <4> QED BY <1>5, <1>16, <2>2, <3>1, <3>2, <4>1 DEF Cell, Present
    <3>3. CASE ~Present(sbush, q)
      BY <1>5, <1>16, <2>2, <3>1, <3>3 DEF Cell, Present
    <3> QED BY <3>2, <3>3
  <2>3. CASE u = child /\ q \notin stack /\ q \notin VisitedPages(sbush)
    <3>1. pte'[child][q].frame = NoFrame
      BY <1>10, <2>3
    <3> QED BY <1>16, <2>3, <3>1 DEF Cell, Present
  <2>4. CASE u # child /\ u \in live
    <3>1. u \in live' /\ pte'[u][q].frame = pte[u][q].frame
      BY <1>2, <1>8, <2>4
    <3>2. CASE Present(u, q)
      <4>1. content'[pte[u][q].frame] = content[pte[u][q].frame]
        BY <1>11, <2>4, <3>2, EntryFacts
      <4> QED BY <2>4, <3>1, <3>2, <4>1 DEF Cell, Present
    <3>3. CASE ~Present(u, q)
      BY <2>4, <3>1, <3>3 DEF Cell, Present
    <3> QED BY <3>2, <3>3
  <2>5. CASE u # child /\ u \notin live
    BY <1>2, <2>5 DEF Cell
  <2> QED BY <2>1, <2>2, <2>3, <2>4, <2>5
<1>18. Memory' = [Memory EXCEPT ![child] = m]
  <2>1. m = [p \in Page |-> m[p]]
    BY <1>16
  <2> QED BY <1>17, <2>1, OneTask
<1>19. Lists' = [Lists EXCEPT ![child] = Lists[sbush]]
  <2>1. Lists[sbush] = Listed(list)
    BY <1>4, <1>5 DEF Lists
  <2> QED BY <1>2, <2>1, OneList DEF MemoryInv
<1>20. Abstract!Fork
  <2>1. m = [p \in Page |-> IF p \in Lists[sbush] THEN Memory[sbush][p] ELSE -1]
    BY <1>5, <1>16 DEF Lists, Memory
  <2>2. m = Abstract!Inherited(sbush)
    BY <2>1 DEF Abstract!Inherited, Memory, Cell, Lists
  <2>3. Memory' = [Memory EXCEPT ![child] = Abstract!Inherited(sbush)]
    BY <1>18, <2>2
  <2> QED BY <1>2, <1>5, <1>19, <2>3 DEF Abstract!Fork, Memory, Cell, Lists
<1> QED BY <1>12, <1>13, <1>15, <1>20 DEF MemoryInv

-------------------------------------------------------------------------------
\* initUserProcess() makes a memory that is the image of the shell.
LEMMA InitSeen == Init => MemoryInv /\ Abstract!Init
<1> SUFFICES ASSUME Init
             PROVE  MemoryInv /\ Abstract!Init
  OBVIOUS
<1>1. PICK g : g = CHOOSE h \in Distinct(ImagePages, Frame) : TRUE
  OBVIOUS
<1>2. /\ g \in [ImagePages -> Frame]
      /\ \A x, y \in ImagePages : g[x] = g[y] => x = y
  BY <1>1, ShellFits DEF Distinct, Injective
<1>3. /\ live = {sbush}
      /\ areas = [t \in Task |-> IF t = sbush THEN FirstAreas ELSE <<>>]
      /\ pte = [t \in Task |-> IF t = sbush THEN ImageTable(g) ELSE EmptyTable]
      /\ content = [f \in Frame |-> IF \E p \in LoadedPages : g[p] = f THEN ImageValue ELSE Zero]
  BY <1>1 DEF Init
<1>4. /\ sbush \in Task /\ NoFrame \notin Frame /\ ImagePages \subseteq Page
      /\ StackPage \in ImagePages /\ LoadedPages \subseteq ImagePages
      /\ StackPage \in Page \ LoadedPages
      /\ \A p \in ImagePages : p = StackPage \/ p \in LoadedPages
      /\ ImageValue \in Value /\ Zero \in Value
  BY AddressAssumption DEF ImagePages
<1>5. /\ \A p \in ImagePages : pte[sbush][p].frame = g[p] /\ g[p] \in Frame /\ g[p] # NoFrame
      /\ \A p \in Page \ ImagePages : pte[sbush][p].frame = NoFrame
  BY <1>2, <1>3, <1>4 DEF ImageTable, Absent
<1>6. content \in [Frame -> Value]
  BY <1>3, <1>4
<1>7. AreasAreThere
  <2>1. Good(FirstAreas) /\ Len(FirstAreas) >= 1 /\ Good(<<>>)
    BY StartsAreGood DEF Good
  <2>2. FirstAreas \in Seq(VMA) /\ <<>> \in Seq(VMA)
    BY <2>1 DEF Good
  <2>3. areas \in [Task -> Seq(VMA)]
    BY <1>3, <2>2
  <2>4. \A t \in Task : areas[t] = IF t = sbush THEN FirstAreas ELSE <<>>
    BY <1>3
  <2>5. \A t \in Task : Good(areas[t])
    BY <2>1, <2>4
  <2>6. \A t \in live : Len(areas[t]) >= 1
    BY <1>3, <1>4, <2>1, <2>4
  <2> QED BY <2>3, <2>5, <2>6 DEF AreasAreThere
<1>9. StacksAreAlone
  BY <1>3, <1>4, <1>5 DEF StacksAreAlone, Present
<1>10. \A t \in Task : \A p \in Page :
           Cell(t, p) = IF t = sbush THEN ImageMemory[p] ELSE NoMemory[p]
  <2> TAKE t \in Task
  <2> TAKE p \in Page
  <2>1. CASE t # sbush
    BY <1>3, <2>1 DEF Cell, NoMemory
  <2>2. CASE t = sbush /\ p \in LoadedPages
    BY <1>3, <1>4, <1>5, <2>2 DEF Cell, Present, ImageMemory
  <2>3. CASE t = sbush /\ p = StackPage
    BY <1>2, <1>3, <1>4, <1>5, <2>3 DEF Cell, Present, ImageMemory
  <2>4. CASE t = sbush /\ p \notin ImagePages
    BY <1>3, <1>4, <1>5, <2>4 DEF Cell, Present, ImageMemory
  <2> QED BY <1>4, <2>1, <2>2, <2>3, <2>4
<1>11. Memory = [t \in Task |-> IF t = sbush THEN ImageMemory ELSE NoMemory]
  <2>1. [p \in Page |-> Cell(sbush, p)] = ImageMemory
    BY <1>4, <1>10 DEF ImageMemory
  <2>2. \A t \in Task : t # sbush => [p \in Page |-> Cell(t, p)] = NoMemory
    BY <1>10 DEF NoMemory
  <2> QED BY <2>1, <2>2 DEF Memory
<1>12. Abstract!Init
  <2>1. Lists = [t \in Task |-> IF t = sbush THEN Listed(FirstAreas) ELSE {}]
    BY <1>3, NoPages DEF Lists, VisitedPages
  <2> QED BY <1>3, <1>11, <2>1
             DEF Abstract!Init, Abstract!Nothing, NoMemory, ImageMemory, Memory, Cell, Lists
<1> QED BY <1>6, <1>7, <1>9, <1>12, InitMaps DEF MemoryInv

\* Every step is one of the abstract memory's, or is not seen.
LEMMA StepSeen ==
    ASSUME MemoryInv, OnlyShellForks, KernelBuffers \subseteq {StackPage}, [Next]_vars
    PROVE  MemoryInv' /\ [Abstract!Next]_(Abstract!memoryVars)
<1>0. MapInv'
  BY StepMaps DEF MemoryInv
<1>s. ASSUME Memory' = Memory, live' = live, Lists' = Lists
      PROVE  UNCHANGED Abstract!memoryVars
  BY <1>s DEF Abstract!memoryVars, Memory, Cell, Lists
<1>1. ASSUME NEW t \in Task, fork(t)
      PROVE  MemoryInv' /\ Abstract!Fork
  <2>1. t = sbush
    BY <1>1 DEF fork
  <2> QED BY <1>0, <1>1, <2>1, ForkSeen
<1>2. ASSUME NEW t \in Task, exec(t)
      PROVE  MemoryInv' /\ Abstract!Exec
  BY <1>0, <1>2, ExecSeen
<1>3. ASSUME NEW t \in Task, execNotFound(t)
      PROVE  MemoryInv' /\ Abstract!End
  BY <1>0, <1>3, NotFoundSeen
<1>4. ASSUME NEW t \in Task, Terminate(t)
      PROVE  MemoryInv' /\ Abstract!End
  BY <1>0, <1>4, TerminateSeen
<1>5. ASSUME NEW t \in Task, NEW p \in Page, FaultFirstUse(t, p)
      PROVE  MemoryInv' /\ Abstract!FirstUse
  BY <1>0, <1>5, FirstUseSeen
<1>6. ASSUME NEW t \in Task, NEW p \in Page, FaultReadOnly(t, p)
      PROVE  MemoryInv' /\ UNCHANGED Abstract!memoryVars
  BY <1>0, <1>6, <1>s, ReadOnlySeen
<1>7. ASSUME NEW t \in Task, NEW size \in MallocSizes, malloc(t, size)
      PROVE  MemoryInv' /\ Abstract!Regroup
  BY <1>0, <1>7, MallocSeen
<1>f. ASSUME NEW t \in Task, Free(t)
      PROVE  MemoryInv' /\ Abstract!Regroup
  BY <1>0, <1>f, FreeSeen
<1>8. ASSUME NEW t \in Task, NEW p \in Page, NEW v \in Value, Write(t, p, v)
      PROVE  MemoryInv' /\ Abstract!Store
  BY <1>0, <1>8, WriteSeen
<1>9. ASSUME NEW t \in Task, NEW p \in KernelBuffers, NEW v \in Value, KernelWrite(t, p, v)
      PROVE  MemoryInv' /\ Abstract!Store
  <2>1. p = StackPage
    OBVIOUS
  <2> QED BY <1>0, <1>9, <2>1, KernelWriteSeen
<1>10. CASE UNCHANGED vars
  <2>1. \A u \in Task : \A q \in Page : Cell(u, q)' = Cell(u, q)
    BY <1>10 DEF vars, Cell, Present
  <2>2. MemoryInv'
    BY <1>0, <1>10 DEF vars, MemoryInv, AreasAreThere, StacksAreAlone, Present, HasStack
  <2> QED BY <1>10, <1>s, <2>1, <2>2, SameMemory, SameLists DEF vars
<1> QED
  BY <1>1, <1>2, <1>3, <1>4, <1>5, <1>6, <1>7, <1>f, <1>8, <1>9, <1>10 DEF Next, Abstract!Next

\* The programs under bin/ cannot tell the shared frames, the read-only
\* entries, the faults and the copies from memories of their own, for any
\* areas they start with and any that malloc() and free() make, cut off and
\* take out of their lists: a child has all of its parent's memory that is in
\* the list, and nothing else.  The kernel may store into buffers on the
\* stack only: the read-only bit does not stop it elsewhere.
THEOREM CopyOnWriteImplementsMemory ==
    ASSUME OnlyShellForks, KernelBuffers \subseteq {StackPage}
    PROVE  Spec => ImplementsPrivateMemory
<1>1. Init => MemoryInv /\ Abstract!Init
  BY InitSeen
<1>2. MemoryInv /\ [Next]_vars => MemoryInv' /\ [Abstract!Next]_(Abstract!memoryVars)
  BY StepSeen
<1> QED BY <1>1, <1>2, PTL DEF Spec, ImplementsPrivateMemory, Abstract!Spec
===============================================================================
