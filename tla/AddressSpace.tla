----------------------------- MODULE AddressSpace -----------------------------
(***************************************************************************)
(* The address spaces of the processes: the list of a program's areas      *)
(* (memMap), the user half of its page table, and the physical pages       *)
(* behind it, with the copy-on-write fork() of src/sys/task.c, the         *)
(* page-fault handler of src/sys/idt.c and the release of a process's      *)
(* pages when it ends.                                                     *)
(*                                                                         *)
(* An address is a number of units, PageSize of them to a page.  Which     *)
(* process runs is not kept (RunQueue has that): any live process may make *)
(* the next step.  Frame counts the pages behind user addresses; the pages *)
(* a process takes for tables and structures are not told apart, and an    *)
(* operation that finds no page is disabled (PhysMem shows what happens).  *)
(* The pages that setenv() stores on and maps are in Exec.                 *)
(***************************************************************************)
EXTENDS Integers, Sequences, FiniteSets

\* malloc(), free() and copyVMA() as functions of the list.
List == INSTANCE Areas

CONSTANTS
    Task,           \* the Task structures kmalloc() can still provide
    sbush,
    Frame,
    Page,           \* the numbers of the virtual pages programs use
    PageSize,
    Value,          \* contents of a page
    ImageValue,     \* what exec loads into a page of the program
    FirstAreas,     \* the areas of the first shell when it starts
    ExecAreas,      \* those of a program that exec() starts
    LoadedPages,    \* the pages exec fills: image, arguments, environment
    StackPage,      \* the page stackForUser() maps, the last of the stack area
    MallocSizes,    \* sizes that programs ask malloc() for
    Allocators,     \* bound: the tasks that call malloc() and free()
    MaxAreas,       \* bound: the areas of one task
    HeapLimit,      \* bound: no area ends above this address
    KernelBuffers,  \* pages that programs let the kernel store into
    OnlyShellForks  \* programs fork as those under bin/ do (see CanEnd)

Zero == 0           \* the content of a cleared page
NoFrame == 0        \* an entry of the page table that is not present

StackStart == StackPage * PageSize
StackTop == (StackPage + 1) * PageSize

\* exec() puts the area of arguments and environment in front and the stack
\* behind it, before loadFile() appends an area of each segment of the program;
\* initUserProcess() appends the stack of the first shell behind its segments.
\* The pages that are loaded need not be in an area: the environment may go on
\* behind the area that exec() makes for it.
Starts(list, stack) ==
    /\ list \in Seq(List!VMA) /\ Len(list) >= 3
    /\ \A k \in DOMAIN list : /\ list[k].start < list[k].end
                              /\ list[k].grows_down <=> k = stack
                              /\ ~list[k].isNextFreed
                              /\ k # stack => list[k].end <= StackStart
    /\ list[stack].start = StackStart /\ list[stack].end = StackTop

ASSUME AddressAssumption ==
    /\ sbush \in Task
    /\ NoFrame \notin Frame
    /\ Page \subseteq Nat
    /\ PageSize \in Nat \ {0}
    /\ Value \subseteq Nat
    /\ {Zero, ImageValue} \subseteq Value
    /\ StackPage \in Page \ LoadedPages
    /\ LoadedPages \subseteq Page
    /\ MallocSizes \subseteq Nat \ {0}
    /\ HeapLimit \in 0 .. StackStart
    /\ Starts(FirstAreas, Len(FirstAreas))
    /\ Starts(ExecAreas, 2)
    /\ KernelBuffers \subseteq Page
    /\ OnlyShellForks \in BOOLEAN

VARIABLES
    live,       \* the tasks in the run queue
    forked,     \* those that run the image of their parent
    areas,      \* memMap.mmap of each task, a list
    pte,        \* its page table: the frame of a page and the writable bit
    free,       \* frames the allocator has
    content     \* what is in a frame

vars == <<live, forked, areas, pte, free, content>>

Absent == [frame |-> NoFrame, rw |-> FALSE]
EmptyTable == [p \in Page |-> Absent]
Present(t, p) == pte[t][p].frame # NoFrame

\* The pages that the loops "while(start<vma->v_end) ... start+=0x1000" visit:
\* they start at v_start, which need not be the start of a page.
Visited(a) ==
    {p \in Page : LET k == p - a.start \div PageSize
                 IN k >= 0 /\ a.start + k * PageSize < a.end}
Listed(list) == UNION {Visited(list[k]) : k \in DOMAIN list}
VisitedPages(t) == Listed(areas[t])

\* isPartofCurrentVma(): only the page an area starts in is recognised.
isPartofCurrentVma(t, p) ==
    \E k \in DOMAIN areas[t] : areas[t][k].start \div PageSize = p

\* Different pages from the allocator for the elements of S.
Injective(g) == \A x, y \in DOMAIN g : g[x] = g[y] => x = y
Distinct(S, F) == {g \in [S -> F] : Injective(g)}
Enough(S) == Distinct(S, free) # {}
kmalloc(S) == CHOOSE g \in Distinct(S, free) : TRUE

\* Mutant: only the tasks that were forked are counted.
SharersForked(t, p) ==
    {u \in live \ {t} : u \in forked /\ pte[u][p].frame = pte[t][p].frame}

\* The other tasks of the run queue that have the same frame at this page.
Sharers(t, p) == {u \in live \ {t} : pte[u][p].frame = pte[t][p].frame}

-------------------------------------------------------------------------------
ImageTable(g) ==
    [p \in Page |-> IF p \in DOMAIN g THEN [frame |-> g[p], rw |-> TRUE] ELSE Absent]
ImagePages == LoadedPages \cup {StackPage}
ImageContent(g) ==
    [f \in Frame |-> IF \E p \in LoadedPages : g[p] = f THEN ImageValue
                     ELSE IF g[StackPage] = f THEN Zero ELSE content[f]]

ASSUME ShellFits == Distinct(ImagePages, Frame) # {}

\* initUserProcess() has loaded the shell.
Init ==
    LET g == CHOOSE h \in Distinct(ImagePages, Frame) : TRUE IN
        /\ live = {sbush}
        /\ forked = {}
        /\ areas = [t \in Task |-> IF t = sbush THEN FirstAreas ELSE <<>>]
        /\ pte = [t \in Task |-> IF t = sbush THEN ImageTable(g) ELSE EmptyTable]
        /\ free = Frame \ {g[p] : p \in ImagePages}
        /\ content = [f \in Frame |-> IF \E p \in LoadedPages : g[p] = f
                                        THEN ImageValue ELSE Zero]

\* The pages fork() shares and those it copies: the area that ends at the top of
\* the stack is the stack's.  Pages of areas that were freed or cut off, and of no
\* area at all, may be present, but are neither.
Inherited(t) ==
    UNION {Visited(areas[t][k]) : k \in {j \in DOMAIN areas[t] : areas[t][j].end # StackTop}}
Copied(t) ==
    UNION {Visited(areas[t][k]) : k \in {j \in DOMAIN areas[t] : areas[t][j].end = StackTop}}

\* copyParentCr3Entries(): the child shares every visited page that is
\* present, read only, and has a copy of its own of the stack.
ChildTable(t, g) ==
    [p \in Page |->
        IF p \in DOMAIN g THEN [frame |-> g[p], rw |-> TRUE]
        ELSE IF p \in Inherited(t) THEN [pte[t][p] EXCEPT !.rw = FALSE]
        ELSE Absent]

\* Mutant: the parent keeps writing to the pages it now shares.
makeParentCr3asReadOnlyNot(t) == pte[t]

makeParentCr3asReadOnly(t) ==
    [p \in Page |-> IF p \in Inherited(t) THEN [pte[t][p] EXCEPT !.rw = FALSE]
                    ELSE pte[t][p]]

fork(t) ==
    /\ t \in live
    /\ OnlyShellForks => t = sbush
    /\ LET stack == Copied(t) IN
       /\ Enough(stack)
       /\ LET g == kmalloc(stack) IN
          \E child \in Task \ live :
            /\ live' = live \cup {child}
            /\ forked' = forked \cup {child}
            /\ areas' = [areas EXCEPT ![child] = List!copyVMA(areas[t])]
            /\ pte' = [pte EXCEPT ![child] = ChildTable(t, g),
                                  ![t] = makeParentCr3asReadOnly(t)]
            /\ content' = [f \in Frame |->
                              IF \E p \in stack : g[p] = f
                                THEN content[pte[t][CHOOSE p \in stack : g[p] = f].frame]
                                ELSE content[f]]
            /\ free' = free \ {g[p] : p \in stack}

\* exec() builds a new task and drops the old one; its pages stay allocated.
exec(t) ==
    /\ t \in live \ {sbush}
    /\ Enough(ImagePages)
    /\ LET g == kmalloc(ImagePages) IN
       \E task \in Task \ live :
         /\ live' = (live \ {t}) \cup {task}
         /\ forked' = forked \ {t}
         /\ areas' = [areas EXCEPT ![t] = <<>>, ![task] = ExecAreas]
         /\ pte' = [pte EXCEPT ![t] = EmptyTable, ![task] = ImageTable(g)]
         /\ content' = ImageContent(g)
         /\ free' = free \ {g[p] : p \in ImagePages}

\* exec() of a file that does not exist: the caller leaves the run queue,
\* with its pages and the stack page of the task that was being built.
execNotFound(t) ==
    /\ t \in live \ {sbush}
    /\ Enough({StackPage})
    /\ live' = live \ {t}
    /\ forked' = forked \ {t}
    /\ areas' = [areas EXCEPT ![t] = <<>>]
    /\ pte' = [pte EXCEPT ![t] = EmptyTable]
    /\ content' = [content EXCEPT ![kmalloc({StackPage})[StackPage]] = Zero]
    /\ free' = free \ {kmalloc({StackPage})[StackPage]}

\* malloc(): a new area behind those that stay in the list.  No page is allocated.
malloc(t, size) ==
    LET list == List!malloc(areas[t], size) IN
    /\ t \in live \cap Allocators
    /\ Len(list) <= MaxAreas /\ list[Len(list)].end <= HeapLimit
    /\ areas' = [areas EXCEPT ![t] = list]
    /\ UNCHANGED <<live, forked, pte, free, content>>

\* The number of areas the program of t started with.
Begins(list, first) ==
    /\ Len(first) <= Len(list)
    /\ \A k \in DOMAIN first : list[k].start = first[k].start /\ list[k].end = first[k].end
AreasLoaded(t) ==
    IF Begins(areas[t], FirstAreas) THEN Len(FirstAreas) ELSE Len(ExecAreas)

\* free() of what malloc() gave: its pages stay in the page table.
Free(t) ==
    /\ t \in live \cap Allocators
    /\ \E k \in AreasLoaded(t) + 1 .. Len(areas[t]) :
         areas' = [areas EXCEPT ![t] = List!free(areas[t], areas[t][k].start)]
    /\ UNCHANGED <<live, forked, pte, free, content>>

-------------------------------------------------------------------------------
\* The end of a process, by exit(), kill() or exitpid(), or by a fault.  The
\* programs under bin/ respect what CanEnd says: only the shell forks, its
\* child calls execve() at once, and the shell never ends.
CanEnd(t) ==
    /\ t \in live \ {sbush}
    /\ OnlyShellForks => t \notin forked

\* FreePageEntries() looks a frame up in the other page tables by its own
\* physical address, where it is never found unless it is mapped one to one.
FoundElsewhere(t, f) == f \in Page /\ \E u \in live \ {t} : pte[u][f].frame = f

Freed(t) ==
    {f \in {pte[t][p].frame : p \in VisitedPages(t)} \ {NoFrame} :
        ~FoundElsewhere(t, f)}

Terminate(t) ==
    /\ CanEnd(t)
    /\ free' = free \cup Freed(t)
    /\ content' = [f \in Frame |-> IF f \in Freed(t) THEN Zero ELSE content[f]]
    /\ live' = live \ {t}
    /\ forked' = forked \ {t}
    /\ areas' = [areas EXCEPT ![t] = <<>>]
    /\ pte' = [pte EXCEPT ![t] = EmptyTable]

\* A store of the program to a page it may write.
Write(t, p, v) ==
    /\ t \in live
    /\ Present(t, p)
    /\ pte[t][p].rw
    /\ content' = [content EXCEPT ![pte[t][p].frame] = v]
    /\ UNCHANGED <<live, forked, areas, pte, free>>

\* The page fault of a store to a page that is not present; the store is
\* made again afterwards.
FaultFirstUse(t, p) ==
    /\ t \in live
    /\ ~Present(t, p)
    /\ isPartofCurrentVma(t, p)
    /\ Enough({p})
    /\ LET f == kmalloc({p})[p] IN
        /\ pte' = [pte EXCEPT ![t][p] = [frame |-> f, rw |-> TRUE]]
        /\ content' = [content EXCEPT ![f] = Zero]
        /\ free' = free \ {f}
    /\ UNCHANGED <<live, forked, areas>>

\* Mutant: the page that was shared is given back after the copy.
FaultCopyReleases(t, p) ==
    /\ Enough({p})
    /\ LET f == kmalloc({p})[p] IN
        /\ pte' = [pte EXCEPT ![t][p] = [frame |-> f, rw |-> TRUE]]
        /\ content' = [content EXCEPT ![f] = content[pte[t][p].frame]]
        /\ free' = (free \ {f}) \cup {pte[t][p].frame}

FaultCopy(t, p) ==
    /\ Enough({p})
    /\ LET f == kmalloc({p})[p] IN
        /\ pte' = [pte EXCEPT ![t][p] = [frame |-> f, rw |-> TRUE]]
        /\ content' = [content EXCEPT ![f] = content[pte[t][p].frame]]
        /\ free' = free \ {f}

\* The page fault of a store to a read-only page.
FaultReadOnly(t, p) ==
    /\ t \in live
    /\ Present(t, p)
    /\ ~pte[t][p].rw
    /\ IF Sharers(t, p) = {}
         THEN /\ pte' = [pte EXCEPT ![t][p].rw = TRUE]
              /\ UNCHANGED <<free, content>>
         ELSE FaultCopy(t, p)
    /\ UNCHANGED <<live, forked, areas>>

\* A system call stores into the program's memory.  Nothing in the kernel
\* sets CR0.WP, so the read-only bit does not stop it.
KernelWrite(t, p, v) ==
    /\ t \in live
    /\ Present(t, p)
    /\ content' = [content EXCEPT ![pte[t][p].frame] = v]
    /\ UNCHANGED <<live, forked, areas, pte, free>>

Next ==
    \/ \E t \in Task :
        \/ fork(t)
        \/ exec(t)
        \/ execNotFound(t)
        \/ \E size \in MallocSizes : malloc(t, size)
        \/ Free(t)
        \/ Terminate(t)
    \/ \E t \in Task, p \in Page :
        \/ FaultFirstUse(t, p)
        \/ FaultReadOnly(t, p)
        \/ \E v \in Value : Write(t, p, v)
    \/ \E t \in Task, p \in KernelBuffers, v \in Value : KernelWrite(t, p, v)

Spec == Init /\ [][Next]_vars

-------------------------------------------------------------------------------
TypeOK ==
    /\ live \in SUBSET Task
    /\ forked \in SUBSET Task
    /\ areas \in [Task -> Seq(List!VMA)]
    /\ pte \in [Task -> [Page -> [frame : Frame \cup {NoFrame}, rw : BOOLEAN]]]
    /\ free \in SUBSET Frame
    /\ content \in [Frame -> Value]

\* A page that a live process can still reach is not in the allocator:
\* FreePageEntries() runs "before deleting the pagees we need to check if the
\* page is shared" (task.c:1239).
NoFreeFrameMapped ==
    \A t \in live, p \in Page : pte[t][p].frame \notin free

\* A page that its process can write without a fault is no other process's
\* page: the fork, the two outcomes of the fault and the count of sharers
\* keep the writable bits of all page tables consistent.
WritableIsExclusive ==
    \A t \in live, p \in Page :
        pte[t][p].rw =>
            \A u \in live, q \in Page :
                pte[u][q].frame = pte[t][p].frame => u = t /\ q = p

Abstract == INSTANCE PrivateMemory WITH
    Process     <- Task,
    NoPage      <- -1,
    first       <- sbush,
    Image       <- [p \in Page |-> IF p \in LoadedPages THEN ImageValue
                                   ELSE IF p = StackPage THEN Zero ELSE -1],
    FirstListed <- Listed(FirstAreas),
    ImageListed <- Listed(ExecAreas),
    memory      <- [t \in Task |-> [p \in Page |->
                       IF t \in live /\ Present(t, p) THEN content[pte[t][p].frame]
                       ELSE -1]],
    listed      <- [t \in Task |-> VisitedPages(t)]

\* Shared frames, read-only entries, faults and copies look to the programs
\* as if each had memory of its own; fork gives the child what its parent has
\* on the pages of its areas, and no other page ("COW fork", README:6).
ImplementsPrivateMemory == Abstract!Spec
===============================================================================
