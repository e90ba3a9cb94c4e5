------------------------------ MODULE PageTables ------------------------------
(***************************************************************************)
(* The four levels of page tables of src/sys/virtualMemory.c: a PML4 for   *)
(* each process, the tables below it, and the kernel's half, which all     *)
(* share through one entry of their PML4.                                  *)
(*                                                                         *)
(* An action is one function of virtualMemory.c with the kmalloc() of its  *)
(* caller; fork, exec and the page-fault handler of AddressSpace are made  *)
(* of these, here in any order.  A virtual page is its four indices.  The  *)
(* flag bits of an entry are left to AddressSpace, and an operation that   *)
(* finds no page is disabled (PhysMem shows what happens then).            *)
(***************************************************************************)
EXTENDS Integers

CONSTANTS
    Frame,          \* physical pages
    None,           \* an entry without the PRESENT bit
    Index,          \* positions in a table
    KernelSlot,     \* the entry of a PML4 for the kernel's half, 511
    Boot,           \* the tables of mapKernelMemory(), from the PML4 down
    BootPath,       \* the entries they use, of the PML4, the PDPT and the PDT
    Window,         \* the last table of the kernel's window
    Space,          \* the Task structures, each with its cr3
    Page,           \* the virtual pages in use
    StackPage       \* the page stackForUser() maps

UserPage == {v \in Page : v[1] # KernelSlot}

ASSUME TablesAssumption ==
    /\ None \notin Frame
    /\ KernelSlot \in Index
    /\ Boot \in [1 .. 4 -> Frame]
    /\ \A k, l \in 1 .. 4 : Boot[k] = Boot[l] => k = l
    /\ BootPath \in [1 .. 3 -> Index]
    /\ BootPath[1] = KernelSlot
    /\ Window \in [Index -> Frame \cup {None}]
    /\ Page \subseteq [1 .. 4 -> Index]
    /\ StackPage \in UserPage

VARIABLES
    use,        \* what a frame is used for
    entry,      \* the entries of a frame that is used as a table
    cr3         \* the PML4 of each process, None if it has ended

vars == <<use, entry, cr3>>

Use == {"free", "data", "pml4", "pdpt", "pdt", "pt"}

Empty == [i \in Index |-> None]

\* The pages and their contents, which the operators below take and return.
Memory == [use |-> use, entry |-> entry]

Free(m) == {f \in Frame : m.use[f] = "free"}
kmalloc(m) == CHOOSE f \in Free(m) : TRUE

Live == {s \in Space : cr3[s] # None}
Roots == {Boot[1]} \cup {cr3[s] : s \in Live}

-------------------------------------------------------------------------------
\* The walk of the processor and of getPhysicalPageAddr(): None if an entry on
\* the way is not present.
Below(m, t, i) == IF t = None THEN None ELSE m.entry[t][i]
pdpt(m, r, v) == m.entry[r][v[1]]
pdt(m, r, v) == Below(m, pdpt(m, r, v), v[2])
pt(m, r, v) == Below(m, pdt(m, r, v), v[3])
getPhysicalPageAddr(m, r, v) == Below(m, pt(m, r, v), v[4])

\* Mutant: the new table keeps what the page held before.
TableNotCleared(m, t, i, kind) ==
    IF m.entry[t][i] # None THEN m
    ELSE LET f == kmalloc(m) IN
         [use |-> [m.use EXCEPT ![f] = kind],
          entry |-> [m.entry EXCEPT ![t][i] = f]]

\* One level of mapPageForUser(): the table below entry i of t, a cleared page
\* if there is none yet.
Table(m, t, i, kind) ==
    IF m.entry[t][i] # None THEN m
    ELSE LET f == kmalloc(m) IN
         [use |-> [m.use EXCEPT ![f] = kind],
          entry |-> [m.entry EXCEPT ![f] = Empty, ![t][i] = f]]

TableFits(m, t, i) == m.entry[t][i] = None => Free(m) # {}

WithPdpt(m, r, v) == Table(m, r, v[1], "pdpt")
WithPdt(m, r, v) ==
    LET m1 == WithPdpt(m, r, v) IN Table(m1, pdpt(m1, r, v), v[2], "pdt")
WithPt(m, r, v) ==
    LET m2 == WithPdt(m, r, v) IN Table(m2, pdt(m2, r, v), v[3], "pt")

\* mapPageForUser(), and forceMapPage(), which differs in the USER flag.
mapPageForUser(m, r, v, f) ==
    LET m3 == WithPt(m, r, v) IN
    [m3 EXCEPT !.entry[pt(m3, r, v)][v[4]] = f]

TablesFit(m, r, v) ==
    /\ TableFits(m, r, v[1])
    /\ LET m1 == WithPdpt(m, r, v) IN TableFits(m1, pdpt(m1, r, v), v[2])
    /\ LET m2 == WithPdt(m, r, v) IN TableFits(m2, pdt(m2, r, v), v[3])

-------------------------------------------------------------------------------
\* enablePaging() has loaded the tables of mapKernelMemory().
Init ==
    /\ use = [f \in Frame |->
                IF f = Boot[1] THEN "pml4" ELSE IF f = Boot[2] THEN "pdpt"
                ELSE IF f = Boot[3] THEN "pdt" ELSE IF f = Boot[4] THEN "pt"
                ELSE "free"]
    /\ entry = [f \in Frame |->
                IF f = Boot[1] THEN [Empty EXCEPT ![BootPath[1]] = Boot[2]]
                ELSE IF f = Boot[2] THEN [Empty EXCEPT ![BootPath[2]] = Boot[3]]
                ELSE IF f = Boot[3] THEN [Empty EXCEPT ![BootPath[3]] = Boot[4]]
                ELSE IF f = Boot[4] THEN Window
                ELSE Empty]
    /\ cr3 = [s \in Space |-> None]

\* Mutant: all entries of the PML4 that is loaded are copied.
CopyWholePML4(s) ==
    /\ cr3[s] = None
    /\ Free(Memory) # {}
    /\ LET f == kmalloc(Memory) IN
       \E current \in Roots :
        /\ use' = [use EXCEPT ![f] = "pml4"]
        /\ entry' = [entry EXCEPT ![f] = entry[current]]
        /\ cr3' = [cr3 EXCEPT ![s] = f]

\* A new PML4, with the kernel's half of the process that runs.
getNewPML4ForUser(s) ==
    /\ cr3[s] = None
    /\ Free(Memory) # {}
    /\ LET f == kmalloc(Memory) IN
       \E current \in Roots :
        /\ use' = [use EXCEPT ![f] = "pml4"]
        /\ entry' = [entry EXCEPT
                        ![f] = [Empty EXCEPT ![KernelSlot] = entry[current][KernelSlot]]]
        /\ cr3' = [cr3 EXCEPT ![s] = f]

\* A page is allocated and mapped: by loadFile(), exec(), setenv() and the
\* page-fault handler.
MapNewPage(s, v) ==
    /\ s \in Live
    /\ Free(Memory) # {}
    /\ LET f == kmalloc(Memory)
           m == [Memory EXCEPT !.use[f] = "data"]
           done == mapPageForUser(m, cr3[s], v, f)
       IN /\ TablesFit(m, cr3[s], v)
          /\ use' = done.use
          /\ entry' = done.entry
    /\ UNCHANGED cr3

\* copyParentCr3Entries() gives a child the page of its parent.
MapSharedPage(parent, child, v) ==
    /\ parent \in Live
    /\ child \in Live \ {parent}
    /\ getPhysicalPageAddr(Memory, cr3[parent], v) # None
    /\ TablesFit(Memory, cr3[child], v)
    /\ LET f == getPhysicalPageAddr(Memory, cr3[parent], v)
           done == mapPageForUser(Memory, cr3[child], v, f)
       IN /\ use' = done.use
          /\ entry' = done.entry
    /\ UNCHANGED cr3

\* The stack's page is mapped for the process and in the kernel's own tables.
stackForUser(s) ==
    /\ s \in Live
    /\ Free(Memory) # {}
    /\ LET f == kmalloc(Memory)
           m == [Memory EXCEPT !.use[f] = "data"]
           mine == mapPageForUser(m, cr3[s], StackPage, f)
           done == mapPageForUser(mine, Boot[1], StackPage, f)
       IN /\ TablesFit(m, cr3[s], StackPage)
          /\ TablesFit(mine, Boot[1], StackPage)
          /\ use' = done.use
          /\ entry' = done.entry
    /\ UNCHANGED cr3

-------------------------------------------------------------------------------
\* The pages FreePageEntries() releases (AddressSpace has its conditions).
Mapped(s) == {getPhysicalPageAddr(Memory, cr3[s], v) : v \in UserPage} \ {None}

\* Mutant: the loop runs over all 512 entries of the PML4.
FreePageTablesAll(s) ==
    {entry[cr3[s]][i] : i \in Index} \ {None}

\* FreePageTables() goes on with "pml4[i]+get_kernbase()", flag bits included: it
\* reads each pdpt[j] seven bytes behind the entry, finds no PRESENT bit there,
\* and so releases the PDPTs of the user's half and nothing below them.
FreePageTables(s) ==
    {entry[cr3[s]][i] : i \in Index \ {KernelSlot}} \ {None}

\* The end of a process, by exit(), kill() or Ctrl-C.  Only a program that shares
\* no page ends (CanEnd of AddressSpace).
Terminate(s) ==
    /\ s \in Live
    /\ \A t \in Live \ {s} : Mapped(s) \cap Mapped(t) = {}
    /\ use' = [f \in Frame |-> IF f \in Mapped(s) \cup FreePageTables(s)
                                 THEN "free" ELSE use[f]]
    /\ cr3' = [cr3 EXCEPT ![s] = None]
    /\ UNCHANGED entry

\* exec() goes on with a new structure; the old tables are not released.
DropTables(s) ==
    /\ s \in Live
    /\ cr3' = [cr3 EXCEPT ![s] = None]
    /\ UNCHANGED <<use, entry>>

Next ==
    \E s \in Space :
        \/ getNewPML4ForUser(s)
        \/ stackForUser(s)
        \/ Terminate(s)
        \/ DropTables(s)
        \/ \E v \in UserPage :
            \/ MapNewPage(s, v)
            \/ \E child \in Space : MapSharedPage(s, child, v)

Spec == Init /\ [][Next]_vars

-------------------------------------------------------------------------------
TypeOK ==
    /\ use \in [Frame -> Use]
    /\ entry \in [Frame -> [Index -> Frame \cup {None}]]
    /\ cr3 \in [Space -> Frame \cup {None}]

\* The tables an entry of which is followed: those of a process that has
\* ended are not, although its PML4 and lower tables are never released.
Followed == Roots \cup {t \in Frame : use[t] \in {"pdpt", "pdt"}}
LevelBelow == [pml4 |-> "pdpt", pdpt |-> "pdt", pdt |-> "pt"]

\* Whatever ends, is dropped or is built again on released pages, an entry
\* that a walk may follow leads to a table of the next level that is still in
\* use: FreePageTables() stops before entry 511 (task.c:1278), and a PDPT it
\* releases is not reached through any other PML4.
WalksStayInTables ==
    \A t \in Followed, i \in Index :
        entry[t][i] # None => use[entry[t][i]] = LevelBelow[use[t]]

\* No two entries lead to the same table, but for the kernel's half: what is
\* mapped for one process is never seen by another.
TablesAreExclusive ==
    \A e, d \in {x \in Followed \X Index : entry[x[1]][x[2]] # None} :
        entry[e[1]][e[2]] = entry[d[1]][d[2]] =>
            e = d \/ ({e[1], d[1]} \subseteq Roots /\ e[2] = KernelSlot /\ d[2] = KernelSlot)

\* A page that a program reaches is neither free nor a table nor the
\* kernel's: every page mapPageForUser() is given comes from kmalloc(), and
\* the tables it takes meanwhile are other pages.
ProgramsReachOnlyData ==
    \A s \in Live, v \in UserPage :
        getPhysicalPageAddr(Memory, cr3[s], v) # None =>
            use[getPhysicalPageAddr(Memory, cr3[s], v)] = "data"

\* The kernel's window is the same in every process and stays what
\* identityMapping() made it, although each PML4 is copied from that of the
\* process that happens to run (virtualMemory.c:370).
KernelHalfIsCommon ==
    \A r \in Roots, i \in Index :
        getPhysicalPageAddr(Memory, r, <<BootPath[1], BootPath[2], BootPath[3], i>>)
            = Window[i]

Abstract == INSTANCE PageMapping WITH
    Page    <- UserPage,
    live    <- Live,
    mapping <- [s \in Space |-> [v \in UserPage |->
                    IF s \in Live THEN getPhysicalPageAddr(Memory, cr3[s], v)
                    ELSE None]]

\* "4-Level Paging" (README:5): for the programs, the tables of all processes
\* are one function from pages to frames each, changed one page at a time.
ImplementsPageMapping == Abstract!Spec
===============================================================================
