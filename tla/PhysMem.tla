------------------------------- MODULE PhysMem --------------------------------
(***************************************************************************)
(* The physical page allocator (src/sys/phyMemMapper.c), from the boot     *)
(* loop of start() that carves the bitmap out of memory and fills it from  *)
(* the BIOS memory map, through the kernel mapping, to the running kernel  *)
(* that allocates and releases pages.                                      *)
(*                                                                         *)
(* availFrames is the bitmap itself: row r is the set of the columns whose *)
(* bit is 1 (free).  The rows from BitmapRows on are the memory that       *)
(* follows the bitmap, the area allocateAHCI() reserves: markasFree() has  *)
(* no bound check and reaches it when a region lies beyond the bitmap.     *)
(***************************************************************************)
EXTENDS Integers, Sequences, FiniteSets

CONSTANTS
    BitmapRows,    \* MAX_BITMAP_ROWS, 1024 in the code
    AhciMem,       \* AHCI_MEM, bytes reserved after the bitmap
    PhysFree,      \* first byte after the kernel image, from the boot loader
    Regions,       \* the BIOS memory map: a sequence of [base, length, type]
    EndOfMemory,   \* bytes of physical memory the kernel window can address
    MapLimit,      \* bytes mapped when memory ends beyond EndOfMemory
    KernelTables   \* page-table pages that mapKernelMemory() allocates

RowBits  == 64
PageSize == 4096
LowFrames == 256             \* frames of the first megabyte, 0x100000 / 0x1000

ROW(frameNum) == frameNum \div RowBits
COL(frameNum) == frameNum % RowBits

SpillRows == AhciMem \div 8
Rows  == 0 .. (BitmapRows + SpillRows - 1)
Cols  == 0 .. (RowBits - 1)
Frame == 0 .. (BitmapRows * RowBits - 1)

\* Entries the boot loop uses, and the frames initBitmap() visits for one.
Usable(i)     == Regions[i].type = 1 /\ Regions[i].length # 0
RegionEnd(i)  == Regions[i].base + Regions[i].length
FirstFrame(i) == Regions[i].base \div PageSize
LastFrame(i)  == RegionEnd(i) \div PageSize

ASSUME SizeAssumption ==
    /\ BitmapRows \in Nat \ {0}
    /\ AhciMem \in Nat
    /\ PhysFree \in Nat
    /\ KernelTables \in Nat
    /\ EndOfMemory \in Nat
    /\ MapLimit \in Nat

ASSUME RegionAssumption ==
    /\ Regions \in Seq([base : Nat, length : Nat, type : Nat])
    /\ \A i \in 1 .. Len(Regions) :
          Usable(i) => ROW(LastFrame(i)) < BitmapRows + SpillRows

\* The kernel image starts at one megabyte or above (the linker script).
ASSUME KernelAboveLowMemory == PhysFree >= LowFrames * PageSize

\* The BIOS lists regions by ascending address; a machine whose memory ends
\* beyond the kernel window still maps every frame of the bitmap.
ASSUME MapAssumption ==
    /\ \A i, j \in 1 .. Len(Regions) :
          i < j /\ Usable(i) /\ Usable(j) => RegionEnd(i) <= RegionEnd(j)
    /\ MapLimit >= BitmapRows * RowBits * PageSize

VARIABLES
    phase,         \* how far start() has come
    region,        \* the next entry of Regions for the boot loop
    tables,        \* page-table pages mapKernelMemory() has allocated: a set
    availFrames,
    KER_PHYSFREE,
    PHYSEND,
    virEnd,        \* last byte of the kernel window, as a physical address
    held,          \* frames whose address a caller of the allocator has
    hung           \* the kernel faulted on kernbase+0 and spins

vars == <<phase, region, tables, availFrames, KER_PHYSFREE, PHYSEND, virEnd,
          held, hung>>

Phases == {"bitmap", "ahci", "smap", "map", "run"}

-------------------------------------------------------------------------------
\* The bitmap, frame by frame.
IsFree(bm, f) == COL(f) \in bm[ROW(f)]

\* Mutant: the complement is missing, the mask clears the other bits.
markasUsedKeepsBit(bm, f) == [bm EXCEPT ![ROW(f)] = @ \cap {COL(f)}]

markasFree(bm, f) == [bm EXCEPT ![ROW(f)] = @ \cup {COL(f)}]
markasUsed(bm, f) == [bm EXCEPT ![ROW(f)] = @ \ {COL(f)}]

FreeFrames == {f \in Frame : IsFree(availFrames, f)}

\* getFirstFrame() scans the rows of the bitmap upwards, then the columns.
FirstRow(bm) ==
    CHOOSE r \in 0 .. (BitmapRows - 1) :
        bm[r] # {} /\ \A q \in 0 .. (r - 1) : bm[q] = {}
FirstCol(row) == CHOOSE c \in row : \A d \in row : c <= d
getFirstFrame(bm) ==
    LET r == FirstRow(bm) IN r * RowBits + FirstCol(bm[r])
NoFrame(bm) == \A r \in 0 .. (BitmapRows - 1) : bm[r] = {}

\* Mutant: the last frame of the kernel's own data is not skipped.
initBitmapFreesLast(bm, first, last, kernFrame) ==
    [r \in Rows |->
        {c \in Cols :
            LET f == r * RowBits + c IN
                /\ f >= LowFrames
                /\ c \in bm[r] \/ (first <= f /\ f <= last /\ f >= kernFrame)}]

\* One call of initBitmap(start, end): both ends are visited, frames up to
\* the end of the kernel's own data are skipped, and the first megabyte is
\* marked used whatever the map says.
initBitmap(bm, first, last, kernFrame) ==
    [r \in Rows |->
        {c \in Cols :
            LET f == r * RowBits + c IN
                /\ f >= LowFrames
                /\ c \in bm[r] \/ (first <= f /\ f <= last /\ f > kernFrame)}]

-------------------------------------------------------------------------------
\* Memory holds anything when the kernel starts.
Init ==
    /\ phase = "bitmap"
    /\ region = 1
    /\ tables = {}
    /\ availFrames \in {[r \in Rows |-> {}], [r \in Rows |-> Cols]}
    /\ KER_PHYSFREE = PhysFree
    /\ PHYSEND = 0
    /\ virEnd = 0
    /\ held = {}
    /\ hung = FALSE

allocateBitmapMem ==
    /\ phase = "bitmap"
    /\ availFrames' = [r \in Rows |->
                          IF r < BitmapRows THEN {} ELSE availFrames[r]]
    /\ KER_PHYSFREE' = KER_PHYSFREE + (BitmapRows * RowBits) \div 8
    /\ phase' = "ahci"
    /\ UNCHANGED <<region, tables, PHYSEND, virEnd, held, hung>>

allocateAHCI ==
    /\ phase = "ahci"
    /\ KER_PHYSFREE' = KER_PHYSFREE + AhciMem
    /\ phase' = "smap"
    /\ UNCHANGED <<region, tables, availFrames, PHYSEND, virEnd, held, hung>>

\* One turn of the loop over the BIOS map in start().
ReadRegion ==
    /\ phase = "smap"
    /\ region <= Len(Regions)
    /\ region' = region + 1
    /\ IF Usable(region)
         THEN /\ availFrames' = initBitmap(availFrames, FirstFrame(region),
                                           LastFrame(region),
                                           KER_PHYSFREE \div PageSize)
              /\ PHYSEND' = RegionEnd(region)
         ELSE UNCHANGED <<availFrames, PHYSEND>>
    /\ UNCHANGED <<phase, tables, KER_PHYSFREE, virEnd, held, hung>>

\* Mutant: the window is cut where the kernel's addresses end.
mapKernelMemoryCut ==
    /\ phase = "smap"
    /\ region > Len(Regions)
    /\ virEnd' = IF PHYSEND > EndOfMemory THEN EndOfMemory ELSE PHYSEND
    /\ phase' = "map"
    /\ UNCHANGED <<region, tables, availFrames, KER_PHYSFREE, PHYSEND, held,
                   hung>>

\* mapKernelMemory() fixes the window [1 MB, virEnd] and maps it; a page
\* table at a time comes from the allocator (of a machine with memory
\* enough for them).
mapKernelMemory ==
    /\ phase = "smap"
    /\ region > Len(Regions)
    /\ virEnd' = IF PHYSEND > EndOfMemory THEN MapLimit ELSE PHYSEND
    /\ phase' = "map"
    /\ UNCHANGED <<region, tables, availFrames, KER_PHYSFREE, PHYSEND, held,
                   hung>>

pageAllocator ==
    /\ ~NoFrame(availFrames)
    /\ LET f == getFirstFrame(availFrames) IN
           /\ availFrames' = markasUsed(availFrames, f)
           /\ held' = held \cup {f}

MapTable ==
    /\ phase = "map"
    /\ Cardinality(tables) < KernelTables
    /\ pageAllocator
    /\ tables' = tables \cup {getFirstFrame(availFrames)}
    /\ UNCHANGED <<phase, region, KER_PHYSFREE, PHYSEND, virEnd, hung>>

enablePaging ==
    /\ phase = "map"
    /\ Cardinality(tables) = KernelTables
    /\ phase' = "run"
    /\ UNCHANGED <<region, tables, availFrames, KER_PHYSFREE, PHYSEND, virEnd,
                   held, hung>>

kmalloc ==
    /\ phase = "run"
    /\ ~hung
    /\ pageAllocator
    /\ UNCHANGED <<phase, region, tables, KER_PHYSFREE, PHYSEND, virEnd, hung>>

\* pageAllocator() returns NULL and kmalloc() does not look: its memset
\* writes to kernbase+0, below the window, and the fault handler spins.
kmallocNull ==
    /\ phase = "run"
    /\ ~hung
    /\ NoFrame(availFrames)
    /\ hung' = TRUE
    /\ UNCHANGED <<phase, region, tables, availFrames, KER_PHYSFREE, PHYSEND,
                   virEnd, held>>

\* Mutant: the page after the released one becomes free.
kdeallocNextPage(f) ==
    /\ phase = "run"
    /\ ~hung
    /\ f \in held \ tables
    /\ availFrames' = markasFree(availFrames, f + 1)
    /\ held' = held \ {f}
    /\ UNCHANGED <<phase, region, tables, KER_PHYSFREE, PHYSEND, virEnd, hung>>

\* A caller gives back a page it has; the kernel's own tables stay.
kdealloc(f) ==
    /\ phase = "run"
    /\ ~hung
    /\ f \in held \ tables
    /\ availFrames' = markasFree(availFrames, f)
    /\ held' = held \ {f}
    /\ UNCHANGED <<phase, region, tables, KER_PHYSFREE, PHYSEND, virEnd, hung>>

Next ==
    \/ allocateBitmapMem
    \/ allocateAHCI
    \/ ReadRegion
    \/ mapKernelMemory
    \/ MapTable
    \/ enablePaging
    \/ kmalloc
    \/ kmallocNull
    \/ \E f \in held : kdealloc(f)

Spec == Init /\ [][Next]_vars

-------------------------------------------------------------------------------
TypeOK ==
    /\ phase \in Phases
    /\ region \in 1 .. (Len(Regions) + 1)
    /\ tables \in SUBSET Frame
    /\ availFrames \in [Rows -> SUBSET Cols]
    /\ KER_PHYSFREE \in Nat
    /\ PHYSEND \in Nat
    /\ virEnd \in Nat
    /\ held \in SUBSET Frame
    /\ hung \in BOOLEAN

KernelFrame == KER_PHYSFREE \div PageSize

\* Frames the boot loop should end up offering: those it visits for some
\* usable region, above everything the kernel placed after its image.
Offered(i) == {f \in Frame : FirstFrame(i) <= f /\ f <= LastFrame(i)
                             /\ f > KernelFrame}

\* The allocator never has a page that a caller of pageAllocator() still
\* holds: markasUsed, markasFree and the first-fit scan agree on which bit
\* of which row a page is.
NoDoubleAllocation == held \cap FreeFrames = {}

\* Over the whole life of the kernel a page of usable memory is either
\* free or held, and nothing else ever is: neither the boot loop, which
\* may visit a frame several times, nor the running kernel, loses a frame
\* or invents one.
NoFrameLost ==
    phase \in {"map", "run"} =>
        FreeFrames \cup held =
            UNION {Offered(i) : i \in {j \in 1 .. Len(Regions) : Usable(j)}}

\* Every page the allocator can hand out lies inside the window that
\* identityMapping() gives the kernel, so the memset of kmalloc() does not
\* fault: the boot loop's last region and the mapping loop agree.
AllocatableIsMapped ==
    phase \in {"map", "run"} =>
        \A f \in FreeFrames \cup held :
            LowFrames <= f /\ f * PageSize <= virEnd

\* The bitmap implements the abstract allocator.
Abstract == INSTANCE FrameAllocator WITH
    free   <- IF phase = "bitmap" THEN {} ELSE FreeFrames,
    booted <- phase \in {"map", "run"}

\* Bits in rows and columns, a first-fit scan and an unchecked boot loop
\* together behave as a set of free frames and a set of held ones.
ImplementsFrameAllocator == Abstract!Spec
===============================================================================
