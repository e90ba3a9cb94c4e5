----------------------------- MODULE PhysMemProofs ----------------------------
(***************************************************************************)
(* Proofs about PhysMem, for every memory map, bitmap size and kernel      *)
(* size that its assumptions allow.                                        *)
(***************************************************************************)
EXTENDS PhysMem, WellFoundedInduction, TLAPS

(* The least-number principle for a given set of numbers. *)
LEMMA NatMin ==
    ASSUME NEW S \in SUBSET Nat, S # {}
    PROVE  \E m \in S : \A k \in S : m <= k
<1> DEFINE R == OpToRel(<, Nat)
<1>1. IsWellFoundedOn(R, Nat)
  BY NatLessThanWellFounded
<1> HIDE DEF R
<1>2. PICK m \in S : \A k \in S : ~(<<k, m>> \in R)
  BY <1>1, WFMin
<1>3. \A k \in S : k < m => <<k, m>> \in R
  BY DEF R, OpToRel
<1>4. m \in Nat /\ \A k \in S : k \in Nat
  OBVIOUS
<1>5. \A k \in S : ~(k < m)
  BY <1>2, <1>3
<1>6. \A k \in S : m <= k
  BY <1>4, <1>5
<1>7. QED
  BY <1>6

(* ROW and COL split a frame number, and row * 64 + column joins it again:
   the conversions of markasFree, markasUsed and getFirstFrame agree. *)
LEMMA RowCol ==
    /\ \A f \in Nat : /\ ROW(f) \in Nat
                      /\ COL(f) \in Cols
                      /\ f = (ROW(f) * RowBits) + COL(f)
    /\ \A r \in Nat, c \in Cols : /\ (r * RowBits) + c \in Nat
                                  /\ ROW((r * RowBits) + c) = r
                                  /\ COL((r * RowBits) + c) = c
BY DEF ROW, COL, Cols, RowBits

LEMMA RowsFact ==
    /\ BitmapRows \in Nat /\ BitmapRows > 0
    /\ SpillRows \in Nat
    /\ \A r \in 0 .. (BitmapRows - 1) : r \in Rows
    /\ \A r \in Rows : r \in Nat
    /\ \A f \in Frame : f \in Nat /\ ROW(f) \in 0 .. (BitmapRows - 1) /\ ROW(f) \in Rows
    /\ \A r \in 0 .. (BitmapRows - 1), c \in Cols : (r * RowBits) + c \in Frame
<1>1. SpillRows \in Nat
  BY SizeAssumption DEF SpillRows
<1>2. QED
  BY <1>1, SizeAssumption DEF Rows, Frame, Cols, RowBits, ROW

(* The scan of getFirstFrame() finds a frame of the bitmap that is free
   whenever the bitmap has one. *)
LEMMA FirstFrameIsFree ==
    ASSUME NEW bm \in [Rows -> SUBSET Cols], ~NoFrame(bm)
    PROVE  getFirstFrame(bm) \in Frame /\ IsFree(bm, getFirstFrame(bm))
<1> DEFINE S == {r \in 0 .. (BitmapRows - 1) : bm[r] # {}}
<1>1. S \in SUBSET Nat /\ S # {}
  BY RowsFact DEF NoFrame
<1>2. PICK m \in S : \A k \in S : m <= k
  BY <1>1, NatMin
<1>3. m \in 0 .. (BitmapRows - 1) /\ bm[m] # {} /\ \A q \in 0 .. (m - 1) : bm[q] = {}
  BY <1>2, RowsFact
<1>4. /\ FirstRow(bm) \in 0 .. (BitmapRows - 1)
      /\ bm[FirstRow(bm)] # {}
  BY <1>3 DEF FirstRow
<1> DEFINE row == bm[FirstRow(bm)]
<1>5. row \in SUBSET Cols /\ row # {}
  BY <1>4, RowsFact
<1>6. row \in SUBSET Nat
  BY <1>5 DEF Cols, RowBits
<1>7. \E c \in row : \A d \in row : c <= d
  BY <1>5, <1>6, NatMin
<1>8. FirstCol(row) \in row
  BY <1>7 DEF FirstCol
<1>9. FirstCol(row) \in Cols
  BY <1>5, <1>8
<1>10. getFirstFrame(bm) = (FirstRow(bm) * RowBits) + FirstCol(row)
  BY DEF getFirstFrame
<1>11. /\ ROW(getFirstFrame(bm)) = FirstRow(bm)
       /\ COL(getFirstFrame(bm)) = FirstCol(row)
  BY <1>4, <1>9, <1>10, RowCol, RowsFact
<1>12. QED
  BY <1>4, <1>8, <1>9, <1>10, <1>11, RowsFact DEF IsFree

(* Marking a frame changes the bit of that frame and of no other. *)
LEMMA MarkExact ==
    ASSUME NEW bm \in [Rows -> SUBSET Cols], NEW f \in Frame
    PROVE  /\ markasFree(bm, f) \in [Rows -> SUBSET Cols]
           /\ markasUsed(bm, f) \in [Rows -> SUBSET Cols]
           /\ \A g \in Frame : IsFree(markasFree(bm, f), g) <=> (IsFree(bm, g) \/ g = f)
           /\ \A g \in Frame : IsFree(markasUsed(bm, f), g) <=> (IsFree(bm, g) /\ g # f)
<1>1. f \in Nat /\ ROW(f) \in Rows /\ COL(f) \in Cols
  BY RowsFact, RowCol
<1>2. \A g \in Frame : /\ g \in Nat /\ ROW(g) \in Rows /\ COL(g) \in Cols
                       /\ (ROW(g) = ROW(f) /\ COL(g) = COL(f)) => g = f
  BY RowsFact, RowCol
<1>3. markasFree(bm, f) \in [Rows -> SUBSET Cols]
  BY <1>1 DEF markasFree
<1>4. markasUsed(bm, f) \in [Rows -> SUBSET Cols]
  BY <1>1 DEF markasUsed
<1>5. \A g \in Frame : IsFree(markasFree(bm, f), g) <=> (IsFree(bm, g) \/ g = f)
  BY <1>1, <1>2 DEF markasFree, IsFree
<1>6. \A g \in Frame : IsFree(markasUsed(bm, f), g) <=> (IsFree(bm, g) /\ g # f)
  BY <1>1, <1>2 DEF markasUsed, IsFree
<1>7. QED
  BY <1>3, <1>4, <1>5, <1>6

(* One call of initBitmap() adds the frames of the region above the kernel
   and drops the first megabyte. *)
LEMMA InitBitmapExact ==
    ASSUME NEW bm \in [Rows -> SUBSET Cols], NEW first \in Nat, NEW last \in Nat,
           NEW kf \in Nat
    PROVE  /\ initBitmap(bm, first, last, kf) \in [Rows -> SUBSET Cols]
           /\ \A g \in Frame :
                IsFree(initBitmap(bm, first, last, kf), g) <=>
                    /\ g >= LowFrames
                    /\ IsFree(bm, g) \/ (first <= g /\ g <= last /\ g > kf)
<1>1. initBitmap(bm, first, last, kf) \in [Rows -> SUBSET Cols]
  BY DEF initBitmap
<1>2. ASSUME NEW g \in Frame
      PROVE  IsFree(initBitmap(bm, first, last, kf), g) <=>
                    /\ g >= LowFrames
                    /\ IsFree(bm, g) \/ (first <= g /\ g <= last /\ g > kf)
  <2>1. ROW(g) \in Rows /\ COL(g) \in Cols /\ (ROW(g) * RowBits) + COL(g) = g
    BY RowsFact, RowCol
  <2>2. QED
    BY <2>1 DEF initBitmap, IsFree
<1>3. QED
  BY <1>1, <1>2

LEMMA RegionFact ==
    ASSUME NEW i \in 1 .. Len(Regions)
    PROVE  /\ Regions[i].base \in Nat /\ Regions[i].length \in Nat
           /\ RegionEnd(i) \in Nat /\ FirstFrame(i) \in Nat /\ LastFrame(i) \in Nat
           /\ LastFrame(i) * PageSize <= RegionEnd(i)
<1> DEFINE Entry == [base : Nat, length : Nat, type : Nat]
<1>1. Regions[i] \in Entry
  <2>1. Regions \in Seq(Entry)
    BY RegionAssumption
  <2> HIDE DEF Entry
  <2>2. QED
    BY <2>1
<1>2. Regions[i].base \in Nat /\ Regions[i].length \in Nat
  BY <1>1
<1>3. RegionEnd(i) \in Nat
  BY <1>2 DEF RegionEnd
<1>4. FirstFrame(i) \in Nat
  BY <1>2 DEF FirstFrame, PageSize
<1>5. LastFrame(i) \in Nat /\ LastFrame(i) * PageSize <= RegionEnd(i)
  BY <1>3 DEF LastFrame, PageSize
<1>6. QED
  BY <1>2, <1>3, <1>4, <1>5

-------------------------------------------------------------------------------
(* The inductive invariant.  BootFacts is what the boot loop has done so
   far; from "map" on it no longer changes. *)
Seen == {i \in 1 .. (region - 1) : Usable(i)}

BootFacts ==
    /\ KER_PHYSFREE >= PhysFree
    /\ phase \in {"bitmap", "ahci"} => region = 1
    /\ phase \in {"bitmap", "ahci", "smap"} => held = {}
    /\ phase = "ahci" => FreeFrames = {}
    /\ phase = "smap" => FreeFrames = UNION {Offered(i) : i \in Seen}
    /\ phase \in {"map", "run"} => region = Len(Regions) + 1
    /\ \A i \in Seen : RegionEnd(i) <= PHYSEND
    /\ phase \in {"map", "run"} =>
          virEnd = IF PHYSEND > EndOfMemory THEN MapLimit ELSE PHYSEND

IInv == TypeOK /\ NoDoubleAllocation /\ NoFrameLost /\ BootFacts

LEMMA InitIInv == Init => IInv
<1> SUFFICES ASSUME Init PROVE IInv
  OBVIOUS
<1>1. TypeOK
  <2>1. Len(Regions) \in Nat
    BY RegionAssumption
  <2>2. availFrames \in [Rows -> SUBSET Cols]
    <3>1. CASE availFrames = [r \in Rows |-> {}]
      BY <3>1
    <3>2. CASE availFrames = [r \in Rows |-> Cols]
      BY <3>2
    <3>3. QED
      BY <3>1, <3>2 DEF Init
  <2>3. region \in 1 .. (Len(Regions) + 1) /\ KER_PHYSFREE \in Nat
    BY <2>1, SizeAssumption DEF Init
  <2>4. phase \in Phases /\ hung \in BOOLEAN
    BY Zenon DEF Init, Phases
  <2>5. tables \in SUBSET Frame /\ held \in SUBSET Frame
    BY DEF Init
  <2>6. PHYSEND \in Nat /\ virEnd \in Nat
    BY DEF Init
  <2>7. QED
    BY <2>2, <2>3, <2>4, <2>5, <2>6 DEF TypeOK
<1>2. BootFacts
  BY SizeAssumption DEF Init, BootFacts, Seen
<1>3. QED
  BY <1>1, <1>2 DEF Init, IInv, NoDoubleAllocation, NoFrameLost

(* What one allocation and one release do to the two sets. *)
LEMMA AllocateStep ==
    ASSUME TypeOK, pageAllocator
    PROVE  /\ availFrames' \in [Rows -> SUBSET Cols]
           /\ held' \in SUBSET Frame
           /\ getFirstFrame(availFrames) \in FreeFrames
           /\ FreeFrames' = FreeFrames \ {getFirstFrame(availFrames)}
           /\ held' = held \cup {getFirstFrame(availFrames)}
<1> DEFINE f == getFirstFrame(availFrames)
<1>1. availFrames \in [Rows -> SUBSET Cols] /\ held \in SUBSET Frame
  BY DEF TypeOK
<1>2. ~NoFrame(availFrames)
  BY DEF pageAllocator
<1>3. f \in Frame /\ IsFree(availFrames, f)
  BY <1>1, <1>2, FirstFrameIsFree
<1>4. availFrames' = markasUsed(availFrames, f) /\ held' = held \cup {f}
  BY DEF pageAllocator
<1> HIDE DEF f
<1>5. availFrames' \in [Rows -> SUBSET Cols]
  BY <1>1, <1>3, <1>4, MarkExact
<1>6. FreeFrames' = FreeFrames \ {f}
  <2>1. \A g \in Frame : IsFree(availFrames', g) <=> (IsFree(availFrames, g) /\ g # f)
    BY <1>1, <1>3, <1>4, MarkExact
  <2>2. QED
    BY <2>1 DEF FreeFrames
<1>7. f \in FreeFrames
  BY <1>3 DEF FreeFrames
<1>8. QED
  BY <1>1, <1>3, <1>4, <1>5, <1>6, <1>7 DEF f

LEMMA ReleaseStep ==
    ASSUME TypeOK, NEW f \in held, kdealloc(f)
    PROVE  /\ availFrames' \in [Rows -> SUBSET Cols]
           /\ held' \in SUBSET Frame
           /\ f \in Frame
           /\ FreeFrames' = FreeFrames \cup {f}
           /\ held' = held \ {f}
<1>1. availFrames \in [Rows -> SUBSET Cols] /\ held \in SUBSET Frame /\ f \in Frame
  BY DEF TypeOK
<1>2. availFrames' = markasFree(availFrames, f) /\ held' = held \ {f}
  BY DEF kdealloc
<1>3. availFrames' \in [Rows -> SUBSET Cols]
  BY <1>1, <1>2, MarkExact
<1>4. FreeFrames' = FreeFrames \cup {f}
  <2>1. \A g \in Frame : IsFree(availFrames', g) <=> (IsFree(availFrames, g) \/ g = f)
    BY <1>1, <1>2, MarkExact
  <2>2. QED
    BY <1>1, <2>1 DEF FreeFrames
<1>5. QED
  BY <1>1, <1>2, <1>3, <1>4

LEMMA TypeStep == TypeOK /\ [Next]_vars => TypeOK'
<1> SUFFICES ASSUME TypeOK, [Next]_vars PROVE TypeOK'
  OBVIOUS
<1> USE DEF TypeOK, Phases
<1>1. CASE allocateBitmapMem
  <2>1. KER_PHYSFREE' \in Nat
    BY <1>1, SizeAssumption DEF allocateBitmapMem, RowBits
  <2>2. availFrames' \in [Rows -> SUBSET Cols]
    BY <1>1 DEF allocateBitmapMem
  <2>3. QED
    BY <1>1, <2>1, <2>2 DEF allocateBitmapMem
<1>2. CASE allocateAHCI
  BY <1>2, SizeAssumption DEF allocateAHCI
<1>3. CASE ReadRegion
  <2>1. region \in 1 .. Len(Regions) /\ Len(Regions) \in Nat
    BY <1>3, RegionAssumption DEF ReadRegion
  <2>2. region' \in 1 .. (Len(Regions) + 1)
    BY <1>3, <2>1 DEF ReadRegion
  <2>3. KER_PHYSFREE \div PageSize \in Nat
    BY DEF PageSize
  <2>4. CASE Usable(region)
    <3>1. /\ RegionEnd(region) \in Nat
          /\ FirstFrame(region) \in Nat /\ LastFrame(region) \in Nat
      BY <2>1, RegionFact
    <3>2. /\ availFrames' = initBitmap(availFrames, FirstFrame(region),
                               LastFrame(region), KER_PHYSFREE \div PageSize)
          /\ PHYSEND' = RegionEnd(region)
      BY <1>3, <2>4 DEF ReadRegion
    <3>3. availFrames \in [Rows -> SUBSET Cols]
      OBVIOUS
    <3>4. availFrames' \in [Rows -> SUBSET Cols]
      BY <2>3, <3>1, <3>2, <3>3, InitBitmapExact
    <3>5. QED
      BY <1>3, <2>2, <3>1, <3>2, <3>4 DEF ReadRegion
  <2>5. CASE ~Usable(region)
    BY <1>3, <2>2, <2>5 DEF ReadRegion
  <2>6. QED
    BY <2>4, <2>5
<1>4. CASE mapKernelMemory
  BY <1>4, SizeAssumption DEF mapKernelMemory
<1>5. CASE MapTable
  <2>1. /\ availFrames' \in [Rows -> SUBSET Cols] /\ held' \in SUBSET Frame
        /\ getFirstFrame(availFrames) \in Frame
    BY <1>5, AllocateStep DEF MapTable, FreeFrames
  <2>2. QED
    BY <1>5, <2>1 DEF MapTable
<1>6. CASE enablePaging
  BY <1>6 DEF enablePaging
<1>7. CASE kmalloc
  <2>1. availFrames' \in [Rows -> SUBSET Cols] /\ held' \in SUBSET Frame
    BY <1>7, AllocateStep DEF kmalloc
  <2>2. QED
    BY <1>7, <2>1 DEF kmalloc
<1>8. CASE kmallocNull
  BY <1>8 DEF kmallocNull
<1>9. CASE \E f \in held : kdealloc(f)
  <2>1. PICK f \in held : kdealloc(f)
    BY <1>9
  <2>2. availFrames' \in [Rows -> SUBSET Cols] /\ held' \in SUBSET Frame
    BY <2>1, ReleaseStep
  <2>3. QED
    BY <2>1, <2>2 DEF kdealloc
<1>10. CASE UNCHANGED vars
  BY <1>10 DEF vars
<1>11. QED
  BY <1>1, <1>2, <1>3, <1>4, <1>5, <1>6, <1>7, <1>8, <1>9, <1>10 DEF Next

(* Every variable keeps its type, for every memory map. *)
THEOREM TypeCorrect == Spec => []TypeOK
<1>1. Init => TypeOK
  BY InitIInv DEF IInv
<1>2. QED
  BY <1>1, TypeStep, PTL DEF Spec

-------------------------------------------------------------------------------
LEMMA InvStep == IInv /\ [Next]_vars => IInv'
<1> SUFFICES ASSUME IInv, [Next]_vars PROVE IInv'
  OBVIOUS
<1>a. TypeOK /\ TypeOK'
  BY TypeStep DEF IInv
<1>b. NoDoubleAllocation /\ NoFrameLost /\ BootFacts
  BY DEF IInv
<1> SUFFICES NoDoubleAllocation' /\ NoFrameLost' /\ BootFacts'
  BY <1>a DEF IInv
<1>1. CASE allocateBitmapMem
  <2>1. FreeFrames' = {}
    <3>1. \A g \in Frame : ROW(g) \in Rows /\ ROW(g) < BitmapRows
      BY RowsFact
    <3>2. \A g \in Frame : availFrames'[ROW(g)] = {}
      BY <1>1, <3>1 DEF allocateBitmapMem
    <3>3. QED
      BY <3>2 DEF FreeFrames, IsFree
  <2>2. KER_PHYSFREE' >= PhysFree
    BY <1>a, <1>b, <1>1, SizeAssumption
       DEF allocateBitmapMem, BootFacts, TypeOK, RowBits
  <2>3. QED
    BY <1>b, <1>1, <2>1, <2>2
       DEF allocateBitmapMem, BootFacts, NoDoubleAllocation, NoFrameLost, Seen
<1>2. CASE allocateAHCI
  <2>1. FreeFrames' = FreeFrames
    BY <1>2 DEF allocateAHCI, FreeFrames
  <2>2. KER_PHYSFREE' >= PhysFree
    BY <1>a, <1>b, <1>2, SizeAssumption DEF allocateAHCI, BootFacts, TypeOK
  <2>3. region = 1 /\ Seen = {} /\ Seen' = {}
    BY <1>b, <1>2 DEF allocateAHCI, BootFacts, Seen
  <2>4. QED
    BY <1>b, <1>2, <2>1, <2>2, <2>3
       DEF allocateAHCI, BootFacts, NoDoubleAllocation, NoFrameLost
<1>3. CASE ReadRegion
  <2>1. region \in 1 .. Len(Regions) /\ region' = region + 1 /\ phase = "smap"
    BY <1>a, <1>3, RegionAssumption DEF ReadRegion, TypeOK
  <2>2. Seen' = Seen \cup (IF Usable(region) THEN {region} ELSE {})
    BY <2>1 DEF Seen
  <2>3. \A i : Offered(i)' = Offered(i)
    BY <1>3 DEF ReadRegion, Offered, KernelFrame
  <2>4. KernelFrame \in Nat /\ KernelFrame >= LowFrames
    BY <1>a, <1>b, KernelAboveLowMemory, SizeAssumption
       DEF TypeOK, BootFacts, KernelFrame, LowFrames, PageSize
  <2>5. CASE Usable(region)
    <3>1. /\ RegionEnd(region) \in Nat
          /\ FirstFrame(region) \in Nat /\ LastFrame(region) \in Nat
      BY <2>1, RegionFact
    <3>2. /\ availFrames' = initBitmap(availFrames, FirstFrame(region),
                               LastFrame(region), KernelFrame)
          /\ PHYSEND' = RegionEnd(region)
      BY <1>3, <2>5 DEF ReadRegion, KernelFrame
    <3>3. \A g \in Frame : IsFree(availFrames', g) <=>
             /\ g >= LowFrames
             /\ \/ IsFree(availFrames, g)
                \/ FirstFrame(region) <= g /\ g <= LastFrame(region) /\ g > KernelFrame
      BY <1>a, <2>4, <3>1, <3>2, InitBitmapExact DEF TypeOK
    <3>4. FreeFrames = UNION {Offered(i) : i \in Seen}
      BY <1>b, <2>1 DEF BootFacts
    <3>5. \A g \in FreeFrames : g >= LowFrames
      BY <2>4, <3>4, RowsFact DEF Offered, LowFrames
    <3>6. \A g \in Frame : g \in Nat
      BY RowsFact
    <3>7. FreeFrames' = FreeFrames \cup Offered(region)
      BY <2>4, <3>3, <3>5, <3>6 DEF FreeFrames, Offered, LowFrames
    <3>8. FreeFrames' = UNION {Offered(i) : i \in Seen'}
      BY <2>2, <2>5, <3>4, <3>7
    <3>9. \A i \in Seen' : RegionEnd(i) <= PHYSEND'
      <4>1. \A i \in Seen : RegionEnd(i) <= RegionEnd(region)
        BY <2>1, <2>5, MapAssumption DEF Seen
      <4>2. QED
        BY <2>2, <2>5, <3>1, <3>2, <4>1
    <3>10. QED
      BY <1>b, <1>3, <2>1, <2>3, <3>8, <3>9
         DEF ReadRegion, BootFacts, NoDoubleAllocation, NoFrameLost
  <2>6. CASE ~Usable(region)
    <3>1. FreeFrames' = FreeFrames /\ Seen' = Seen /\ PHYSEND' = PHYSEND
      BY <1>3, <2>2, <2>6 DEF ReadRegion, FreeFrames
    <3>2. QED
      BY <1>b, <1>3, <2>1, <2>3, <3>1
         DEF ReadRegion, BootFacts, NoDoubleAllocation, NoFrameLost
  <2>7. QED
    BY <2>5, <2>6
<1>4. CASE mapKernelMemory
  <2>1. FreeFrames' = FreeFrames /\ Seen' = Seen
    BY <1>4 DEF mapKernelMemory, FreeFrames, Seen
  <2>2. \A i : Offered(i)' = Offered(i)
    BY <1>4 DEF mapKernelMemory, Offered, KernelFrame
  <2>3. region = Len(Regions) + 1
    BY <1>a, <1>4, RegionAssumption DEF mapKernelMemory, TypeOK
  <2>4. Seen = {j \in 1 .. Len(Regions) : Usable(j)}
    BY <2>3, RegionAssumption DEF Seen
  <2>5. FreeFrames = UNION {Offered(i) : i \in Seen} /\ held = {}
    BY <1>b, <1>4 DEF mapKernelMemory, BootFacts
  <2>6. NoFrameLost'
    BY <1>4, <2>1, <2>2, <2>4, <2>5 DEF mapKernelMemory, NoFrameLost
  <2>7. QED
    BY <1>b, <1>4, <2>1, <2>3, <2>6
       DEF mapKernelMemory, BootFacts, NoDoubleAllocation
<1>5. ASSUME pageAllocator, phase \in {"map", "run"},
             UNCHANGED <<phase, region, KER_PHYSFREE, PHYSEND, virEnd>>
      PROVE  NoDoubleAllocation' /\ NoFrameLost' /\ BootFacts'
  <2> DEFINE f == getFirstFrame(availFrames)
  <2>1. f \in FreeFrames /\ FreeFrames' = FreeFrames \ {f} /\ held' = held \cup {f}
    BY <1>a, <1>5, AllocateStep
  <2> HIDE DEF f
  <2>2. NoDoubleAllocation'
    BY <1>b, <2>1 DEF NoDoubleAllocation
  <2>3. FreeFrames' \cup held' = FreeFrames \cup held
    BY <2>1
  <2>4. \A i : Offered(i)' = Offered(i)
    BY <1>5 DEF Offered, KernelFrame
  <2>5. NoFrameLost'
    BY <1>b, <1>5, <2>3, <2>4 DEF NoFrameLost
  <2>6. BootFacts'
    BY <1>b, <1>5 DEF BootFacts, Seen
  <2>7. QED
    BY <2>2, <2>5, <2>6
<1>6. CASE MapTable
  BY <1>5, <1>6 DEF MapTable
<1>7. CASE kmalloc
  BY <1>5, <1>7 DEF kmalloc
<1>8. CASE enablePaging \/ kmallocNull \/ UNCHANGED vars
  <2>1. /\ UNCHANGED <<region, availFrames, KER_PHYSFREE, PHYSEND, virEnd, held>>
        /\ phase' = phase \/ (phase = "map" /\ phase' = "run")
    BY <1>8 DEF enablePaging, kmallocNull, vars
  <2>2. /\ FreeFrames' = FreeFrames
        /\ \A i : Offered(i)' = Offered(i)
        /\ Seen' = Seen
    BY <2>1 DEF FreeFrames, Offered, KernelFrame, Seen
  <2>3. NoDoubleAllocation'
    BY <1>b, <2>1, <2>2 DEF NoDoubleAllocation
  <2>4. NoFrameLost'
    BY <1>b, <2>1, <2>2 DEF NoFrameLost
  <2>5. BootFacts'
    BY <1>b, <2>1, <2>2 DEF BootFacts
  <2>6. QED
    BY <2>3, <2>4, <2>5
<1>9. CASE \E f \in held : kdealloc(f)
  <2>1. PICK f \in held : kdealloc(f)
    BY <1>9
  <2>2. FreeFrames' = FreeFrames \cup {f} /\ held' = held \ {f}
    BY <1>a, <2>1, ReleaseStep
  <2>3. UNCHANGED <<phase, region, KER_PHYSFREE, PHYSEND, virEnd>> /\ phase = "run"
    BY <2>1 DEF kdealloc
  <2>4. NoDoubleAllocation'
    BY <1>b, <2>1, <2>2 DEF NoDoubleAllocation
  <2>5. FreeFrames' \cup held' = FreeFrames \cup held
    BY <2>1, <2>2
  <2>6. \A i : Offered(i)' = Offered(i)
    BY <2>3 DEF Offered, KernelFrame
  <2>7. NoFrameLost'
    BY <1>b, <2>3, <2>5, <2>6 DEF NoFrameLost
  <2>8. BootFacts'
    BY <1>b, <2>3 DEF BootFacts, Seen
  <2>9. QED
    BY <2>4, <2>7, <2>8
<1>10. QED
  BY <1>1, <1>2, <1>3, <1>4, <1>6, <1>7, <1>8, <1>9 DEF Next

LEMMA InvAlways == Spec => []IInv
BY InitIInv, InvStep, PTL DEF Spec

(* A page is never handed out twice, for every map and every history of
   allocations and releases. *)
THEOREM PagesAreExclusive == Spec => []NoDoubleAllocation
<1>1. IInv => NoDoubleAllocation
  BY DEF IInv
<1>2. QED
  BY <1>1, InvAlways, PTL

(* The boot loop and the running kernel neither lose nor invent a page. *)
THEOREM MemoryIsConserved == Spec => []NoFrameLost
<1>1. IInv => NoFrameLost
  BY DEF IInv
<1>2. QED
  BY <1>1, InvAlways, PTL

(* Whatever page kmalloc() gets, the kernel window maps it. *)
THEOREM WindowCoversMemory == Spec => []AllocatableIsMapped
<1>1. IInv => AllocatableIsMapped
  <2> SUFFICES ASSUME IInv, phase \in {"map", "run"},
                      NEW f \in FreeFrames \cup held
               PROVE  LowFrames <= f /\ f * PageSize <= virEnd
    BY DEF AllocatableIsMapped
  <2>1. TypeOK /\ NoFrameLost /\ BootFacts
    BY DEF IInv
  <2>2. PICK i \in 1 .. Len(Regions) : Usable(i) /\ f \in Offered(i)
    BY <2>1 DEF NoFrameLost
  <2>3. f \in Frame /\ f \in Nat /\ f <= LastFrame(i) /\ f > KernelFrame
    BY <2>2, RowsFact DEF Offered
  <2>4. LowFrames <= f
    BY <2>1, <2>3, KernelAboveLowMemory, SizeAssumption
       DEF TypeOK, BootFacts, KernelFrame, LowFrames, PageSize
  <2>5. i \in Seen
    BY <2>1, <2>2, RegionAssumption DEF BootFacts, Seen
  <2>6. RegionEnd(i) <= PHYSEND /\ RegionEnd(i) \in Nat /\ PHYSEND \in Nat
    BY <2>1, <2>2, <2>5, RegionFact DEF BootFacts, TypeOK
  <2>7. f * PageSize <= RegionEnd(i)
    BY <2>2, <2>3, <2>6, RegionFact DEF PageSize, LastFrame
  <2>8. f * PageSize <= MapLimit
    BY <2>3, MapAssumption, SizeAssumption DEF Frame, PageSize, RowBits
  <2>9. f * PageSize \in Nat
    BY <2>3 DEF PageSize
  <2>10. QED
    BY <2>1, <2>4, <2>6, <2>7, <2>8, <2>9, SizeAssumption DEF BootFacts
<1>2. QED
  BY <1>1, InvAlways, PTL

-------------------------------------------------------------------------------
(* The bitmap allocator implements the abstract one: boot steps donate
   memory or do nothing, an allocation takes a free frame, a release gives
   a held one back, and every other step is invisible. *)
LEMMA RefineStep ==
    IInv /\ IInv' /\ [Next]_vars => [Abstract!Next]_(Abstract!allocVars)
<1> SUFFICES ASSUME IInv, IInv', [Next]_vars
             PROVE  [Abstract!Next]_(Abstract!allocVars)
  OBVIOUS
<1> DEFINE free == IF phase = "bitmap" THEN {} ELSE FreeFrames
           booted == phase \in {"map", "run"}
<1>a. /\ TypeOK /\ NoDoubleAllocation /\ BootFacts
      /\ TypeOK' /\ BootFacts'
  BY DEF IInv
<1>b. FreeFrames \in SUBSET Frame /\ FreeFrames' \in SUBSET Frame
  BY DEF FreeFrames
<1>1. CASE allocateBitmapMem
  <2>1. free' = free /\ held' = held /\ booted' = booted
    BY <1>a, <1>1 DEF allocateBitmapMem, BootFacts
  <2>2. QED
    BY <2>1 DEF Abstract!allocVars
<1>2. CASE allocateAHCI \/ enablePaging \/ kmallocNull \/ UNCHANGED vars
  <2>1. FreeFrames' = FreeFrames /\ held' = held
    BY <1>2 DEF allocateAHCI, enablePaging, kmallocNull, vars, FreeFrames
  <2>2. free' = free /\ booted' = booted
    BY <1>2, <2>1 DEF allocateAHCI, enablePaging, kmallocNull, vars
  <2>3. QED
    BY <2>1, <2>2 DEF Abstract!allocVars
<1>3. CASE ReadRegion
  <2>1. phase = "smap" /\ phase' = "smap" /\ held' = held
    BY <1>3 DEF ReadRegion
  <2>2. Seen \subseteq Seen'
    <3>1. region \in Nat /\ region' = region + 1
      BY <1>a, <1>3, RegionAssumption DEF ReadRegion, TypeOK
    <3>2. QED
      BY <3>1 DEF Seen
  <2>3. \A i : Offered(i)' = Offered(i)
    BY <1>3 DEF ReadRegion, Offered, KernelFrame
  <2>4. FreeFrames \subseteq FreeFrames'
    BY <1>a, <2>1, <2>2, <2>3 DEF BootFacts
  <2>5. Abstract!Donate
    BY <1>b, <2>1, <2>4 DEF Abstract!Donate
  <2>6. QED
    BY <2>5 DEF Abstract!Next
<1>4. CASE mapKernelMemory
  <2>1. FreeFrames' = FreeFrames /\ held' = held /\ phase = "smap" /\ phase' = "map"
    BY <1>4 DEF mapKernelMemory, FreeFrames
  <2>2. Abstract!Donate
    BY <1>b, <2>1 DEF Abstract!Donate
  <2>3. QED
    BY <2>2 DEF Abstract!Next
<1>5. CASE MapTable \/ kmalloc
  <2>1. pageAllocator /\ phase' = phase /\ phase \in {"map", "run"}
    BY <1>5 DEF MapTable, kmalloc
  <2>2. PICK f \in FreeFrames : FreeFrames' = FreeFrames \ {f} /\ held' = held \cup {f}
    BY <1>a, <2>1, AllocateStep
  <2>3. Abstract!Allocate
    BY <2>1, <2>2 DEF Abstract!Allocate
  <2>4. QED
    BY <2>3 DEF Abstract!Next
<1>6. CASE \E f \in held : kdealloc(f)
  <2>1. PICK f \in held : kdealloc(f)
    BY <1>6
  <2>2. FreeFrames' = FreeFrames \cup {f} /\ held' = held \ {f}
    BY <1>a, <2>1, ReleaseStep
  <2>3. phase = "run" /\ phase' = "run"
    BY <2>1 DEF kdealloc
  <2>4. Abstract!Release
    BY <2>1, <2>2, <2>3 DEF Abstract!Release
  <2>5. QED
    BY <2>4 DEF Abstract!Next
<1>7. QED
  BY <1>1, <1>2, <1>3, <1>4, <1>5, <1>6 DEF Next

THEOREM BitmapImplementsAllocator == Spec => ImplementsFrameAllocator
<1>1. Init => Abstract!Init
  BY DEF Init, Abstract!Init
<1>2. QED
  BY <1>1, RefineStep, InvAlways, PTL
     DEF Spec, ImplementsFrameAllocator, Abstract!Spec
===============================================================================
