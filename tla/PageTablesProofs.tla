--------------------------- MODULE PageTablesProofs ---------------------------
(***************************************************************************)
(* The page tables for any number of processes, frames and pages: walks    *)
(* stay in tables that are in use, no table is shared but for the kernel's *)
(* half, and the tables implement PageMapping.                             *)
(***************************************************************************)
EXTENDS PageTables, TLAPS

Path4 == [1 .. 4 -> Index]
Walked(m, R) == R \cup {t \in Frame : m.use[t] \in {"pdpt", "pdt"}}

IsMemory(m) ==
    /\ m = [use |-> m.use, entry |-> m.entry]
    /\ m.use \in [Frame -> Use]
    /\ m.entry \in [Frame -> [Index -> Frame \cup {None}]]

\* WalksStayInTables and TablesAreExclusive of pages m and roots R.
Walks(m, R) ==
    \A t \in Walked(m, R), i \in Index :
        m.entry[t][i] # None => m.use[m.entry[t][i]] = LevelBelow[m.use[t]]
Exclusive(m, R) ==
    \A t, u \in Walked(m, R), i, j \in Index :
        m.entry[t][i] # None /\ m.entry[t][i] = m.entry[u][j] =>
            (t = u /\ i = j) \/ (t \in R /\ u \in R /\ i = KernelSlot /\ j = KernelSlot)

Good(m, R) ==
    /\ IsMemory(m)
    /\ R \subseteq Frame
    /\ \A r \in R : m.use[r] = "pml4"
    /\ Walks(m, R)
    /\ Exclusive(m, R)

\* m2 uses free pages of m for tables and leaves what is in use as it is.
TakesOnlyFree(m, m2) ==
    \A f \in Frame : /\ m.use[f] # "free" => m2.use[f] = m.use[f]
                     /\ m2.use[f] = "data" => m.use[f] = "data"

SameMapping(m, m2, R) ==
    \A r \in R, v \in Path4 :
        getPhysicalPageAddr(m2, r, v) = getPhysicalPageAddr(m, r, v)

-------------------------------------------------------------------------------
LEMMA Allocated ==
    ASSUME NEW m, Free(m) # {}
    PROVE  kmalloc(m) \in Frame /\ m.use[kmalloc(m)] = "free"
BY DEF Free, kmalloc

\* Where a walk comes to, and that it comes there through tables.
LEMMA WalkLevels ==
    ASSUME NEW m, NEW R, Good(m, R), NEW r \in R, NEW v \in Path4
    PROVE  /\ pdpt(m, r, v) # None =>
                pdpt(m, r, v) \in Frame /\ m.use[pdpt(m, r, v)] = "pdpt"
           /\ pdt(m, r, v) # None =>
                /\ pdt(m, r, v) \in Frame /\ m.use[pdt(m, r, v)] = "pdt"
                /\ pdpt(m, r, v) # None
           /\ pt(m, r, v) # None =>
                /\ pt(m, r, v) \in Frame /\ m.use[pt(m, r, v)] = "pt"
                /\ pdt(m, r, v) # None
           /\ getPhysicalPageAddr(m, r, v) # None =>
                getPhysicalPageAddr(m, r, v) \in Frame /\ pt(m, r, v) # None
<1> v[1] \in Index /\ v[2] \in Index /\ v[3] \in Index /\ v[4] \in Index
  BY DEF Path4
<1> r \in Frame /\ r \in Walked(m, R) /\ m.use[r] = "pml4"
  BY DEF Good, Walked
<1> /\ m.use \in [Frame -> Use]
    /\ m.entry \in [Frame -> [Index -> Frame \cup {None}]]
  BY DEF Good, IsMemory
<1>1. pdpt(m, r, v) # None => pdpt(m, r, v) \in Frame /\ m.use[pdpt(m, r, v)] = "pdpt"
  BY DEF pdpt, Good, Walks, LevelBelow
<1>2. pdt(m, r, v) # None =>
        /\ pdt(m, r, v) \in Frame /\ m.use[pdt(m, r, v)] = "pdt"
        /\ pdpt(m, r, v) # None
  BY <1>1, TablesAssumption DEF pdt, Below, Good, Walks, LevelBelow, Walked
<1>3. pt(m, r, v) # None =>
        /\ pt(m, r, v) \in Frame /\ m.use[pt(m, r, v)] = "pt"
        /\ pdt(m, r, v) # None
  BY <1>2, TablesAssumption DEF pt, Below, Good, Walks, LevelBelow, Walked
<1>4. getPhysicalPageAddr(m, r, v) # None =>
        getPhysicalPageAddr(m, r, v) \in Frame /\ pt(m, r, v) # None
  BY <1>3 DEF getPhysicalPageAddr, Below
<1> QED BY <1>1, <1>2, <1>3, <1>4

\* Two walks that come to the same table have taken the same entries.
LEMMA WalksMeet ==
    ASSUME NEW m, NEW R, Good(m, R), NEW r \in R, NEW s \in R,
           NEW v \in Path4, NEW w \in Path4,
           pt(m, r, v) # None, pt(m, s, w) = pt(m, r, v)
    PROVE  /\ v[1] = w[1] /\ v[2] = w[2] /\ v[3] = w[3]
           /\ r = s \/ v[1] = KernelSlot
<1> /\ v[1] \in Index /\ v[2] \in Index /\ v[3] \in Index
    /\ w[1] \in Index /\ w[2] \in Index /\ w[3] \in Index
  BY DEF Path4
<1>1. /\ pdpt(m, r, v) \in Frame /\ m.use[pdpt(m, r, v)] = "pdpt" /\ pdpt(m, r, v) # None
      /\ pdt(m, r, v) \in Frame /\ m.use[pdt(m, r, v)] = "pdt" /\ pdt(m, r, v) # None
      /\ pdpt(m, s, w) \in Frame /\ m.use[pdpt(m, s, w)] = "pdpt" /\ pdpt(m, s, w) # None
      /\ pdt(m, s, w) \in Frame /\ m.use[pdt(m, s, w)] = "pdt" /\ pdt(m, s, w) # None
  BY WalkLevels
<1>2. \A x \in R : m.use[x] = "pml4" /\ x \in Walked(m, R)
  BY DEF Good, Walked
<1>3. pdt(m, r, v) = pdt(m, s, w) /\ v[3] = w[3]
  BY <1>1, <1>2 DEF pt, Below, Good, Exclusive, Walked
<1>4. pdpt(m, r, v) = pdpt(m, s, w) /\ v[2] = w[2]
  BY <1>1, <1>2, <1>3 DEF pdt, Below, Good, Exclusive, Walked
<1>5. v[1] = w[1] /\ (r = s \/ v[1] = KernelSlot)
  BY <1>1, <1>2, <1>4 DEF pdpt, Good, Exclusive
<1> QED BY <1>3, <1>4, <1>5

-------------------------------------------------------------------------------
\* What changes in one level of mapPageForUser(): nothing, or a free page
\* becomes an empty table.
LEMMA TableChanges ==
    ASSUME NEW m, NEW R, Good(m, R), NEW t \in Walked(m, R), NEW i \in Index,
           NEW kind \in Use, TableFits(m, t, i), m.entry[t][i] = None,
           NEW f, f = kmalloc(m), NEW m2, m2 = Table(m, t, i, kind)
    PROVE  /\ f \in Frame /\ m.use[f] = "free" /\ t \in Frame /\ t # f
           /\ IsMemory(m2)
           /\ m2.use[f] = kind /\ m2.entry[f] = Empty /\ m2.entry[t][i] = f
           /\ \A g \in Frame \ {f} : m2.use[g] = m.use[g]
           /\ \A g \in Frame \ {f}, j \in Index :
                (g # t \/ j # i) => m2.entry[g][j] = m.entry[g][j]
<1> /\ m.use \in [Frame -> Use]
    /\ m.entry \in [Frame -> [Index -> Frame \cup {None}]]
  BY DEF Good, IsMemory
<1>1. t \in Frame /\ m.use[t] # "free"
  BY DEF Walked, Good
<1>2. f \in Frame /\ m.use[f] = "free"
  BY Allocated DEF TableFits
<1>3. t # f
  BY <1>1, <1>2
<1>4. m2 = [use |-> [m.use EXCEPT ![f] = kind],
            entry |-> [m.entry EXCEPT ![f] = Empty, ![t][i] = f]]
  BY DEF Table
<1>5. /\ m2.use = [m.use EXCEPT ![f] = kind]
      /\ m2.entry = [m.entry EXCEPT ![f] = Empty, ![t][i] = f]
      /\ m2 = [use |-> m2.use, entry |-> m2.entry]
  BY <1>4
<1>6. Empty \in [Index -> Frame \cup {None}]
  BY DEF Empty
<1>7. m2.use \in [Frame -> Use]
  BY <1>5
<1>8. m2.entry \in [Frame -> [Index -> Frame \cup {None}]]
  <2> DEFINE cleared == [m.entry EXCEPT ![f] = Empty]
  <2>1. cleared \in [Frame -> [Index -> Frame \cup {None}]]
    BY <1>2, <1>6
  <2>2. m2.entry = [cleared EXCEPT ![t][i] = f]
    BY <1>5
  <2>3. [cleared[t] EXCEPT ![i] = f] \in [Index -> Frame \cup {None}]
    BY <2>1, <1>1, <1>2
  <2>4. m2.entry = [cleared EXCEPT ![t] = [cleared[t] EXCEPT ![i] = f]]
    BY <2>2
  <2> QED BY <2>1, <2>3, <2>4, <1>1
<1>9. IsMemory(m2)
  BY <1>5, <1>7, <1>8 DEF IsMemory
<1>10. m2.entry[f] = Empty /\ m2.entry[t][i] = f
  BY <1>1, <1>2, <1>3, <1>5
<1>11. \A g \in Frame \ {f}, j \in Index :
         (g # t \/ j # i) => m2.entry[g][j] = m.entry[g][j]
  BY <1>1, <1>2, <1>3, <1>5
<1> QED BY <1>1, <1>2, <1>3, <1>5, <1>9, <1>10, <1>11

LEMMA TableStep ==
    ASSUME NEW m, NEW R, Good(m, R), NEW t \in Walked(m, R), NEW i \in Index,
           NEW kind \in {"pdpt", "pdt", "pt"}, kind = LevelBelow[m.use[t]],
           TableFits(m, t, i), NEW m2, m2 = Table(m, t, i, kind)
    PROVE  /\ Good(m2, R)
           /\ m2.entry[t][i] \in Frame /\ m2.use[m2.entry[t][i]] = kind
           /\ Walked(m, R) \subseteq Walked(m2, R)
           /\ TakesOnlyFree(m, m2)
           /\ SameMapping(m, m2, R)
           /\ m.entry[t][i] # None => m2 = m
<1> /\ m.use \in [Frame -> Use]
    /\ m.entry \in [Frame -> [Index -> Frame \cup {None}]]
    /\ kind \in Use
  BY DEF Good, IsMemory, Use
<1> t \in Frame
  BY DEF Walked, Good
<1>1. CASE m.entry[t][i] # None
  <2>1. m2 = m
    BY <1>1 DEF Table
  <2>2. m.entry[t][i] \in Frame /\ m.use[m.entry[t][i]] = kind
    BY <1>1 DEF Good, Walks
  <2> QED BY <2>1, <2>2 DEF TakesOnlyFree, SameMapping
<1>2. CASE m.entry[t][i] = None
  <2> DEFINE f == kmalloc(m)
  <2> HIDE DEF f
  <2>1. /\ f \in Frame /\ m.use[f] = "free" /\ t \in Frame /\ t # f
        /\ IsMemory(m2)
        /\ m2.use[f] = kind /\ m2.entry[f] = Empty /\ m2.entry[t][i] = f
        /\ \A g \in Frame \ {f} : m2.use[g] = m.use[g]
        /\ \A g \in Frame \ {f}, j \in Index :
             (g # t \/ j # i) => m2.entry[g][j] = m.entry[g][j]
    BY <1>2, TableChanges DEF f
  <2>2. \A r \in R : r \in Frame /\ r # f /\ m.use[r] = "pml4" /\ m2.use[r] = "pml4"
    BY <2>1 DEF Good
  <2>3. /\ Walked(m, R) \subseteq Walked(m2, R)
        /\ Walked(m2, R) \subseteq Walked(m, R) \cup {f}
        /\ f \notin Walked(m, R) /\ f \notin R
        /\ Walked(m, R) \subseteq Frame
    BY <2>1, <2>2 DEF Walked
  <2>4. \A g \in Walked(m, R), j \in Index : m.entry[g][j] # f
    BY <2>1, TablesAssumption DEF Good, Walks, LevelBelow, Walked
  <2>5. \A j \in Index : m2.entry[f][j] = None
    BY <2>1 DEF Empty
  <2>6. Walks(m2, R)
    <3> SUFFICES ASSUME NEW g \in Walked(m2, R), NEW j \in Index,
                        m2.entry[g][j] # None
                 PROVE  m2.use[m2.entry[g][j]] = LevelBelow[m2.use[g]]
      BY DEF Walks
    <3>1. g # f /\ g \in Walked(m, R) /\ g \in Frame
      BY <2>3, <2>5
    <3>2. CASE g = t /\ j = i
      BY <3>2, <2>1
    <3>3. CASE ~(g = t /\ j = i)
      <4>1. m2.entry[g][j] = m.entry[g][j] /\ m2.use[g] = m.use[g]
        BY <3>1, <3>3, <2>1
      <4>2. m.entry[g][j] # f /\ m.entry[g][j] \in Frame
        BY <3>1, <2>4, <4>1
      <4>3. m.use[m.entry[g][j]] = LevelBelow[m.use[g]]
        BY <3>1, <4>1 DEF Good, Walks
      <4> QED BY <4>1, <4>2, <4>3, <2>1
    <3> QED BY <3>2, <3>3
  <2>7. Exclusive(m2, R)
    <3> SUFFICES ASSUME NEW g \in Walked(m2, R), NEW h \in Walked(m2, R),
                        NEW j \in Index, NEW k \in Index,
                        m2.entry[g][j] # None, m2.entry[g][j] = m2.entry[h][k]
                 PROVE  \/ g = h /\ j = k
                        \/ g \in R /\ h \in R /\ j = KernelSlot /\ k = KernelSlot
      BY DEF Exclusive
    <3>1. g # f /\ h # f /\ g \in Walked(m, R) /\ h \in Walked(m, R)
      BY <2>3, <2>5
    <3>2. CASE g = t /\ j = i
      BY <3>1, <3>2, <2>1, <2>3, <2>4
    <3>3. CASE h = t /\ k = i
      BY <3>1, <3>3, <2>1, <2>3, <2>4
    <3>4. CASE ~(g = t /\ j = i) /\ ~(h = t /\ k = i)
      BY <3>1, <3>4, <2>1, <2>3 DEF Good, Exclusive
    <3> QED BY <3>2, <3>3, <3>4
  <2>8. Good(m2, R)
    BY <2>1, <2>2, <2>6, <2>7 DEF Good
  <2>9. TakesOnlyFree(m, m2)
    BY <2>1 DEF TakesOnlyFree
  <2>10. SameMapping(m, m2, R)
    <3> SUFFICES ASSUME NEW r \in R, NEW v \in Path4
                 PROVE  getPhysicalPageAddr(m2, r, v) = getPhysicalPageAddr(m, r, v)
      BY DEF SameMapping
    <3> v[1] \in Index /\ v[2] \in Index /\ v[3] \in Index /\ v[4] \in Index
      BY DEF Path4
    <3>0. None # f
      BY <2>1, TablesAssumption
    <3>1. \/ pdpt(m2, r, v) = pdpt(m, r, v)
          \/ pdpt(m2, r, v) = f /\ pdpt(m, r, v) = None
      BY <2>1, <2>2, <1>2 DEF pdpt
    <3>2. /\ pdpt(m, r, v) # None => pdpt(m, r, v) \in Frame \ {f}
          /\ pdt(m, r, v) # None => pdt(m, r, v) \in Frame \ {f}
          /\ pt(m, r, v) # None => pt(m, r, v) \in Frame \ {f}
                                   /\ pt(m, r, v) # t
      BY <2>1, WalkLevels DEF Walked, Good
    <3>3. \/ pdt(m2, r, v) = pdt(m, r, v)
          \/ pdt(m2, r, v) = f /\ pdt(m, r, v) = None
      BY <3>0, <3>1, <3>2, <2>1, <2>5, <1>2 DEF pdt, Below
    <3>4. \/ pt(m2, r, v) = pt(m, r, v)
          \/ pt(m2, r, v) = f /\ pt(m, r, v) = None
      BY <3>0, <3>2, <3>3, <2>1, <2>5, <1>2 DEF pt, Below
    <3> QED BY <3>0, <3>2, <3>4, <2>1, <2>5 DEF getPhysicalPageAddr, Below
  <2> QED BY <2>1, <2>3, <2>8, <2>9, <2>10, <1>2
<1> QED BY <1>1, <1>2

\* An entry of a page in use stays, but for the one that gets the new table.
LEMMA TableKeeps ==
    ASSUME NEW m, NEW R, Good(m, R), NEW t \in Walked(m, R), NEW i \in Index,
           NEW kind \in {"pdpt", "pdt", "pt"}, TableFits(m, t, i),
           NEW m2, m2 = Table(m, t, i, kind),
           NEW g \in Frame, m.use[g] # "free", NEW j \in Index, g # t
    PROVE  m2.entry[g][j] = m.entry[g][j]
<1>1. CASE m.entry[t][i] # None
  BY <1>1 DEF Table
<1>2. CASE m.entry[t][i] = None
  <2> DEFINE f == kmalloc(m)
  <2> HIDE DEF f
  <2>1. /\ m.use[f] = "free"
        /\ \A h \in Frame \ {f}, k \in Index :
             (h # t \/ k # i) => m2.entry[h][k] = m.entry[h][k]
    BY <1>2, TableChanges DEF f, Use
  <2> QED BY <2>1
<1> QED BY <1>1, <1>2

\* mapPageForUser() builds the tables of a page without touching any mapping.
LEMMA TablesBuilt ==
    ASSUME NEW m, NEW R, Good(m, R), NEW r \in R, NEW v \in Path4,
           TablesFit(m, r, v), NEW m3, m3 = WithPt(m, r, v)
    PROVE  /\ Good(m3, R)
           /\ pt(m3, r, v) # None
           /\ TakesOnlyFree(m, m3)
           /\ SameMapping(m, m3, R)
<1> v[1] \in Index /\ v[2] \in Index /\ v[3] \in Index
  BY DEF Path4
<1> DEFINE m1 == WithPdpt(m, r, v)
           m2 == WithPdt(m, r, v)
<1>1. /\ m1 = Table(m, r, v[1], "pdpt")
      /\ m2 = Table(m1, pdpt(m1, r, v), v[2], "pdt")
      /\ m3 = Table(m2, pdt(m2, r, v), v[3], "pt")
  BY DEF WithPdpt, WithPdt, WithPt
<1>2. /\ TableFits(m, r, v[1])
      /\ TableFits(m1, pdpt(m1, r, v), v[2])
      /\ TableFits(m2, pdt(m2, r, v), v[3])
  BY DEF TablesFit
<1> HIDE DEF m1, m2
<1>3. r \in Walked(m, R) /\ LevelBelow[m.use[r]] = "pdpt"
  BY DEF Walked, Good, LevelBelow
<1>4. /\ Good(m1, R)
      /\ pdpt(m1, r, v) \in Frame /\ m1.use[pdpt(m1, r, v)] = "pdpt"
      /\ TakesOnlyFree(m, m1) /\ SameMapping(m, m1, R)
  BY <1>1, <1>2, <1>3, TableStep DEF pdpt
<1>5. pdpt(m1, r, v) \in Walked(m1, R) /\ LevelBelow[m1.use[pdpt(m1, r, v)]] = "pdt"
  BY <1>4 DEF Walked, LevelBelow
<1>6. /\ Good(m2, R)
      /\ m2.entry[pdpt(m1, r, v)][v[2]] \in Frame
      /\ m2.use[m2.entry[pdpt(m1, r, v)][v[2]]] = "pdt"
      /\ TakesOnlyFree(m1, m2) /\ SameMapping(m1, m2, R)
  BY <1>1, <1>2, <1>4, <1>5, TableStep
<1>7. pdpt(m2, r, v) = pdpt(m1, r, v)
  <2>1. r \in Frame /\ m1.use[r] # "free" /\ r # pdpt(m1, r, v)
    BY <1>4 DEF Good
  <2>2. m2.entry[r][v[1]] = m1.entry[r][v[1]]
    BY <2>1, <1>1, <1>2, <1>4, <1>5, TableKeeps
  <2> QED BY <2>2 DEF pdpt
<1>8. pdt(m2, r, v) \in Frame /\ m2.use[pdt(m2, r, v)] = "pdt"
  BY <1>4, <1>6, <1>7, TablesAssumption DEF pdt, Below
<1>9. pdt(m2, r, v) \in Walked(m2, R) /\ LevelBelow[m2.use[pdt(m2, r, v)]] = "pt"
  BY <1>8 DEF Walked, LevelBelow
<1>10. /\ Good(m3, R)
       /\ m3.entry[pdt(m2, r, v)][v[3]] \in Frame
       /\ TakesOnlyFree(m2, m3) /\ SameMapping(m2, m3, R)
  BY <1>1, <1>2, <1>6, <1>9, TableStep
<1>11. pdpt(m3, r, v) = pdpt(m2, r, v)
  <2>1. r \in Frame /\ m2.use[r] # "free" /\ r # pdt(m2, r, v)
    BY <1>6, <1>8 DEF Good
  <2>2. m3.entry[r][v[1]] = m2.entry[r][v[1]]
    BY <2>1, <1>1, <1>2, <1>6, <1>9, TableKeeps
  <2> QED BY <2>2 DEF pdpt
<1>12. m3.entry[pdpt(m2, r, v)][v[2]] = m2.entry[pdpt(m2, r, v)][v[2]]
  <2>1. pdpt(m2, r, v) \in Frame /\ pdpt(m2, r, v) # None
    BY <1>4, <1>7, TablesAssumption
  <2>2. m2.use[pdpt(m2, r, v)] = "pdpt"
    BY <2>1, <1>6, WalkLevels
  <2>3. m2.use[pdpt(m2, r, v)] # "free" /\ pdpt(m2, r, v) # pdt(m2, r, v)
    BY <2>2, <1>8
  <2> QED BY <2>1, <2>3, <1>1, <1>2, <1>6, <1>9, TableKeeps
<1>14. pt(m3, r, v) # None
  BY <1>7, <1>8, <1>10, <1>11, <1>12, <1>4, TablesAssumption DEF pt, pdt, Below
<1>15. TakesOnlyFree(m, m3)
  BY <1>4, <1>6, <1>10 DEF TakesOnlyFree
<1>16. SameMapping(m, m3, R)
  BY <1>4, <1>6, <1>10 DEF SameMapping
<1> QED BY <1>10, <1>14, <1>15, <1>16

\* mapPageForUser() changes the frame of one page of one address space.
LEMMA PageMapped ==
    ASSUME NEW m, NEW R, Good(m, R), NEW r \in R, NEW v \in Path4,
           v[1] # KernelSlot, TablesFit(m, r, v), NEW f \in Frame,
           NEW done, done = mapPageForUser(m, r, v, f)
    PROVE  /\ Good(done, R)
           /\ TakesOnlyFree(m, done)
           /\ \A s \in R, w \in Path4 :
                getPhysicalPageAddr(done, s, w) =
                    IF s = r /\ w = v THEN f ELSE getPhysicalPageAddr(m, s, w)
<1> DEFINE m3 == WithPt(m, r, v)
<1> HIDE DEF m3
<1>1. /\ Good(m3, R) /\ pt(m3, r, v) # None
      /\ TakesOnlyFree(m, m3) /\ SameMapping(m, m3, R)
  BY TablesBuilt DEF m3
<1> DEFINE p == pt(m3, r, v)
<1>2. p \in Frame /\ m3.use[p] = "pt"
  BY <1>1, WalkLevels
<1>3. p \notin Walked(m3, R)
  BY <1>1, <1>2 DEF Walked, Good
<1> v[4] \in Index
  BY DEF Path4
<1>4. /\ m3.use \in [Frame -> Use]
      /\ m3.entry \in [Frame -> [Index -> Frame \cup {None}]]
      /\ m3 = [use |-> m3.use, entry |-> m3.entry]
  BY <1>1 DEF Good, IsMemory
<1>5. done = [m3 EXCEPT !.entry[p][v[4]] = f]
  BY DEF mapPageForUser, m3
<1> HIDE DEF p
<1>6. /\ done.use = m3.use
      /\ done.entry = [m3.entry EXCEPT ![p] = [m3.entry[p] EXCEPT ![v[4]] = f]]
      /\ done = [use |-> done.use, entry |-> done.entry]
  BY <1>4, <1>5
<1>7. [m3.entry[p] EXCEPT ![v[4]] = f] \in [Index -> Frame \cup {None}]
  BY <1>2, <1>4
<1>8. IsMemory(done)
  BY <1>2, <1>4, <1>6, <1>7 DEF IsMemory
<1>9. \A t \in Frame, i \in Index :
        done.entry[t][i] = IF t = p /\ i = v[4] THEN f ELSE m3.entry[t][i]
  BY <1>2, <1>4, <1>6
<1>10. /\ Walked(done, R) = Walked(m3, R)
       /\ Walked(m3, R) \subseteq Frame
       /\ \A t \in Walked(m3, R), i \in Index : done.entry[t][i] = m3.entry[t][i]
  BY <1>1, <1>3, <1>6, <1>9 DEF Walked, Good
<1>11. Walks(done, R)
  BY <1>1, <1>6, <1>10 DEF Walks, Good
<1>12. Exclusive(done, R)
  BY <1>1, <1>6, <1>10 DEF Exclusive, Good
<1>13. Good(done, R)
  BY <1>1, <1>6, <1>8, <1>11, <1>12 DEF Good
<1>14. TakesOnlyFree(m, done)
  BY <1>1, <1>6 DEF TakesOnlyFree
<1>15. ASSUME NEW s \in R, NEW w \in Path4
       PROVE  getPhysicalPageAddr(done, s, w) =
                IF s = r /\ w = v THEN f ELSE getPhysicalPageAddr(m, s, w)
  <2> w[1] \in Index /\ w[2] \in Index /\ w[3] \in Index /\ w[4] \in Index
    BY DEF Path4
  <2>1. pdpt(done, s, w) = pdpt(m3, s, w)
    BY <1>10 DEF pdpt, Walked
  <2>2. pdt(done, s, w) = pdt(m3, s, w)
    BY <2>1, <1>1, <1>10, WalkLevels DEF pdt, Below, Walked
  <2>3. pt(done, s, w) = pt(m3, s, w)
    BY <2>2, <1>1, <1>10, WalkLevels DEF pt, Below, Walked
  <2>4. pt(m3, s, w) = p => s = r /\ w[1] = v[1] /\ w[2] = v[2] /\ w[3] = v[3]
    BY <1>1, WalksMeet DEF p
  <2>5. pt(m3, s, w) = p /\ w[4] = v[4] => s = r /\ w = v
    BY <2>4 DEF Path4
  <2>6. s = r /\ w = v => pt(m3, s, w) = p
    BY DEF p
  <2>7. pt(m3, s, w) # None => pt(m3, s, w) \in Frame
    BY <1>1, WalkLevels
  <2>8. getPhysicalPageAddr(m3, s, w) = getPhysicalPageAddr(m, s, w)
    BY <1>1 DEF SameMapping
  <2>9. p # None
    BY <1>2, TablesAssumption
  <2>10. CASE s = r /\ w = v
    BY <2>3, <2>6, <2>9, <2>10, <1>2, <1>9 DEF getPhysicalPageAddr, Below
  <2>11. CASE ~(s = r /\ w = v)
    <3>1. getPhysicalPageAddr(done, s, w) = getPhysicalPageAddr(m3, s, w)
      BY <2>3, <2>5, <2>7, <2>11, <1>9 DEF getPhysicalPageAddr, Below
    <3> QED BY <3>1, <2>8, <2>11
  <2> QED BY <2>10, <2>11
<1> QED BY <1>13, <1>14, <1>15

GivenAsData(m, f) == [use |-> [m.use EXCEPT ![f] = "data"], entry |-> m.entry]

\* A page becomes data: no walk comes to a page that is free.
LEMMA DataAllocated ==
    ASSUME NEW m, NEW R, Good(m, R), Free(m) # {}, NEW f, f = kmalloc(m),
           NEW m2, m2 = GivenAsData(m, f)
    PROVE  /\ f \in Frame /\ m.use[f] = "free" /\ m2.use[f] = "data"
           /\ Good(m2, R)
           /\ \A g \in Frame \ {f} : m2.use[g] = m.use[g]
           /\ SameMapping(m, m2, R)
<1>1. f \in Frame /\ m.use[f] = "free"
  BY Allocated
<1>2. /\ m.use \in [Frame -> Use]
      /\ m.entry \in [Frame -> [Index -> Frame \cup {None}]]
      /\ m = [use |-> m.use, entry |-> m.entry]
  BY DEF Good, IsMemory
<1>3. /\ m2.use = [m.use EXCEPT ![f] = "data"]
      /\ m2.entry = m.entry
      /\ m2 = [use |-> m2.use, entry |-> m2.entry]
  BY <1>2 DEF GivenAsData
<1>4. IsMemory(m2)
  BY <1>2, <1>3 DEF IsMemory, Use
<1>5. \A g \in Frame \ {f} : m2.use[g] = m.use[g]
  BY <1>2, <1>3
<1>6. m2.use[f] = "data"
  BY <1>1, <1>2, <1>3
<1>7. \A r \in R : r \in Frame /\ r # f /\ m2.use[r] = "pml4"
  BY <1>1, <1>5 DEF Good
<1>8. Walked(m2, R) = Walked(m, R) /\ f \notin Walked(m, R)
  BY <1>1, <1>5, <1>6, <1>7 DEF Walked
<1>9. \A t \in Walked(m, R), i \in Index : m.entry[t][i] # f
  BY <1>1, TablesAssumption DEF Good, Walks, LevelBelow, Walked
<1>10. Walks(m2, R)
  <2> SUFFICES ASSUME NEW t \in Walked(m2, R), NEW i \in Index, m2.entry[t][i] # None
               PROVE  m2.use[m2.entry[t][i]] = LevelBelow[m2.use[t]]
    BY DEF Walks
  <2>1. t \in Frame /\ t # f
    BY <1>7, <1>8 DEF Walked
  <2>2. m.entry[t][i] \in Frame \ {f}
    BY <2>1, <1>2, <1>3, <1>8, <1>9
  <2>3. m.use[m.entry[t][i]] = LevelBelow[m.use[t]]
    BY <2>2, <1>8, TablesAssumption DEF Good, Walks
  <2> QED BY <2>1, <2>2, <2>3, <1>3, <1>5
<1>11. Exclusive(m2, R)
  BY <1>3, <1>8 DEF Good, Exclusive
<1>12. Good(m2, R)
  BY <1>4, <1>7, <1>10, <1>11 DEF Good
<1>13. SameMapping(m, m2, R)
  BY <1>3 DEF SameMapping, getPhysicalPageAddr, pt, pdt, pdpt, Below
<1> QED BY <1>1, <1>5, <1>6, <1>12, <1>13

-------------------------------------------------------------------------------
\* The inductive invariant, of pages m and PML4s c of the processes: besides the
\* invariants of PageTables, every process has a PML4 of its own.
LiveIn(c) == {s \in Space : c[s] # None}
RootsOf(c) == {Boot[1]} \cup {c[s] : s \in LiveIn(c)}
KernelPage(i) == <<BootPath[1], BootPath[2], BootPath[3], i>>

Consistent(m, c) ==
    /\ Good(m, RootsOf(c))
    /\ c \in [Space -> Frame \cup {None}]
    /\ \A s \in LiveIn(c) : c[s] # Boot[1]
    /\ \A s, t \in LiveIn(c) : c[s] = c[t] => s = t
    /\ \A s \in LiveIn(c), v \in UserPage :
         getPhysicalPageAddr(m, c[s], v) # None =>
            m.use[getPhysicalPageAddr(m, c[s], v)] = "data"
    /\ \A r \in RootsOf(c), i \in Index :
         getPhysicalPageAddr(m, r, KernelPage(i)) = Window[i]

Inv == Consistent(Memory, cr3)

LEMMA Pages4 ==
    /\ \A v \in UserPage : v \in Path4 /\ v[1] # KernelSlot
    /\ \A i \in Index : KernelPage(i) \in Path4 /\ KernelPage(i)[1] = KernelSlot
    /\ StackPage \in UserPage
<1>1. \A v \in UserPage : v \in Path4 /\ v[1] # KernelSlot
  BY TablesAssumption DEF UserPage, Path4
<1>2. ASSUME NEW i \in Index
      PROVE  KernelPage(i) \in Path4 /\ KernelPage(i)[1] = KernelSlot
  <2>1. BootPath[1] = KernelSlot /\ BootPath[1] \in Index
        /\ BootPath[2] \in Index /\ BootPath[3] \in Index
    BY TablesAssumption
  <2> QED BY <2>1 DEF KernelPage, Path4
<1> QED BY <1>1, <1>2, TablesAssumption

\* Mapping a page of data keeps all of it.
LEMMA MapKeeps ==
    ASSUME NEW m, NEW c, Consistent(m, c), NEW r \in RootsOf(c), NEW v \in UserPage,
           TablesFit(m, r, v), NEW f \in Frame, m.use[f] = "data",
           NEW done, done = mapPageForUser(m, r, v, f)
    PROVE  /\ Consistent(done, c)
           /\ done.use[f] = "data"
           /\ \A s \in RootsOf(c), w \in UserPage :
                getPhysicalPageAddr(done, s, w) =
                    IF s = r /\ w = v THEN f ELSE getPhysicalPageAddr(m, s, w)
<1>1. /\ Good(done, RootsOf(c))
      /\ TakesOnlyFree(m, done)
      /\ \A s \in RootsOf(c), w \in Path4 :
           getPhysicalPageAddr(done, s, w) =
               IF s = r /\ w = v THEN f ELSE getPhysicalPageAddr(m, s, w)
  BY Pages4, PageMapped DEF Consistent
<1>2. done.use[f] = "data"
  BY <1>1 DEF TakesOnlyFree
<1>3. \A s \in LiveIn(c) : c[s] \in RootsOf(c)
  BY DEF RootsOf
<1>4. ASSUME NEW s \in LiveIn(c), NEW w \in UserPage,
             getPhysicalPageAddr(done, c[s], w) # None
      PROVE  done.use[getPhysicalPageAddr(done, c[s], w)] = "data"
  <2> DEFINE g == getPhysicalPageAddr(m, c[s], w)
  <2>1. CASE c[s] = r /\ w = v
    BY <2>1, <1>1, <1>2, <1>3, Pages4
  <2>2. CASE ~(c[s] = r /\ w = v)
    <3>1. getPhysicalPageAddr(done, c[s], w) = g
      BY <2>2, <1>1, <1>3, Pages4
    <3>2. m.use[g] = "data"
      BY <3>1, <1>4 DEF Consistent
    <3>3. g \in Frame
      BY <3>1, <1>3, <1>4, WalkLevels, Pages4 DEF Consistent
    <3> HIDE DEF g
    <3> QED BY <3>1, <3>2, <3>3, <1>1 DEF TakesOnlyFree
  <2> QED BY <2>1, <2>2
<1>5. \A s \in RootsOf(c), i \in Index :
        getPhysicalPageAddr(done, s, KernelPage(i)) = Window[i]
  <2> TAKE s \in RootsOf(c), i \in Index
  <2>1. KernelPage(i) \in Path4 /\ KernelPage(i) # v
    BY Pages4
  <2> QED BY <2>1, <1>1 DEF Consistent
<1>6. Consistent(done, c)
  BY <1>1, <1>4, <1>5 DEF Consistent
<1> QED BY <1>1, <1>2, <1>6, Pages4

\* Giving a page out as data keeps all of it.
LEMMA AllocKeeps ==
    ASSUME NEW m, NEW c, Consistent(m, c), Free(m) # {}, NEW f, f = kmalloc(m),
           NEW m2, m2 = GivenAsData(m, f)
    PROVE  /\ Consistent(m2, c)
           /\ f \in Frame /\ m2.use[f] = "data"
           /\ \A r \in RootsOf(c), v \in Path4 :
                getPhysicalPageAddr(m2, r, v) = getPhysicalPageAddr(m, r, v)
<1>1. /\ f \in Frame /\ m.use[f] = "free" /\ m2.use[f] = "data"
      /\ Good(m2, RootsOf(c))
      /\ \A g \in Frame \ {f} : m2.use[g] = m.use[g]
      /\ SameMapping(m, m2, RootsOf(c))
  <2> DEFINE R == RootsOf(c)
  <2>1. Good(m, R)
    BY DEF Consistent
  <2> HIDE DEF R
  <2>2. /\ f \in Frame /\ m.use[f] = "free" /\ m2.use[f] = "data"
        /\ Good(m2, R)
        /\ \A g \in Frame \ {f} : m2.use[g] = m.use[g]
        /\ SameMapping(m, m2, R)
    BY <2>1, DataAllocated
  <2> QED BY <2>2 DEF R
<1>2. ASSUME NEW s \in LiveIn(c), NEW w \in UserPage,
             getPhysicalPageAddr(m2, c[s], w) # None
      PROVE  m2.use[getPhysicalPageAddr(m2, c[s], w)] = "data"
  <2> DEFINE g == getPhysicalPageAddr(m, c[s], w)
  <2>1. getPhysicalPageAddr(m2, c[s], w) = g
    BY <1>1, Pages4 DEF SameMapping, RootsOf
  <2>2. m.use[g] = "data"
    BY <2>1, <1>2 DEF Consistent
  <2>3. g \in Frame
    BY <2>1, <1>2, WalkLevels, Pages4 DEF Consistent, RootsOf
  <2> HIDE DEF g
  <2> QED BY <2>1, <2>2, <2>3, <1>1
<1>3. Consistent(m2, c)
  <2>1. \A r \in RootsOf(c), i \in Index :
          getPhysicalPageAddr(m2, r, KernelPage(i)) = Window[i]
    BY <1>1, Pages4 DEF Consistent, SameMapping
  <2> QED BY <2>1, <1>1, <1>2 DEF Consistent
<1> QED BY <1>1, <1>3 DEF SameMapping

RootAdded(m, f, current) ==
    [use |-> [m.use EXCEPT ![f] = "pml4"],
     entry |-> [m.entry EXCEPT
        ![f] = [Empty EXCEPT ![KernelSlot] = m.entry[current][KernelSlot]]]]

\* A new PML4 for s, with the kernel's half of one that is in use.
LEMMA NewRootKeeps ==
    ASSUME NEW m, NEW c, Consistent(m, c), NEW s \in Space, c[s] = None,
           Free(m) # {}, NEW f, f = kmalloc(m), NEW current \in RootsOf(c),
           NEW m2, m2 = RootAdded(m, f, current),
           NEW c2 \in [Space -> Frame \cup {None}],
           c2[s] = f, \A t \in Space \ {s} : c2[t] = c[t]
    PROVE  /\ Consistent(m2, c2)
           /\ LiveIn(c2) = LiveIn(c) \cup {s}
           /\ \A v \in UserPage : getPhysicalPageAddr(m2, c2[s], v) = None
           /\ \A t \in LiveIn(c), v \in UserPage :
                getPhysicalPageAddr(m2, c2[t], v) = getPhysicalPageAddr(m, c[t], v)
<1> DEFINE R == RootsOf(c)
           copied == m.entry[current][KernelSlot]
<1>1. f \in Frame /\ m.use[f] = "free"
  BY Allocated
<1>2. /\ m.use \in [Frame -> Use]
      /\ m.entry \in [Frame -> [Index -> Frame \cup {None}]]
      /\ R \subseteq Frame /\ \A r \in R : m.use[r] = "pml4"
      /\ Walks(m, R) /\ Exclusive(m, R)
  BY DEF Consistent, Good, IsMemory
<1>3. current \in Frame /\ KernelSlot \in Index /\ copied \in Frame \cup {None}
  BY <1>2, TablesAssumption
<1>4. f \notin R /\ f # None
  BY <1>1, <1>2, TablesAssumption
<1> DEFINE fresh == [Empty EXCEPT ![KernelSlot] = copied]
<1>5. /\ fresh \in [Index -> Frame \cup {None}]
      /\ \A i \in Index : fresh[i] = IF i = KernelSlot THEN copied ELSE None
  BY <1>3 DEF Empty
<1> HIDE DEF fresh
<1>6. m2 = [use |-> [m.use EXCEPT ![f] = "pml4"], entry |-> [m.entry EXCEPT ![f] = fresh]]
  BY DEF fresh, RootAdded
<1>7. /\ m2.use = [m.use EXCEPT ![f] = "pml4"]
      /\ m2.entry = [m.entry EXCEPT ![f] = fresh]
      /\ m2 = [use |-> m2.use, entry |-> m2.entry]
  BY <1>6
<1>8. IsMemory(m2)
  <2>1. m2.use \in [Frame -> Use]
    BY <1>2, <1>7 DEF Use
  <2>2. m2.entry \in [Frame -> [Index -> Frame \cup {None}]]
    BY <1>2, <1>5, <1>7
  <2> QED BY <2>1, <2>2, <1>7 DEF IsMemory
<1>9. /\ m2.use[f] = "pml4" /\ m2.entry[f] = fresh
      /\ \A g \in Frame \ {f} : m2.use[g] = m.use[g] /\ m2.entry[g] = m.entry[g]
  BY <1>1, <1>2, <1>7
<1>10. c \in [Space -> Frame \cup {None}]
  BY DEF Consistent
<1>11. /\ c2 \in [Space -> Frame \cup {None}]
       /\ c2[s] = f /\ \A t \in Space \ {s} : c2[t] = c[t]
  BY <1>1, <1>10
<1>12. LiveIn(c2) = LiveIn(c) \cup {s} /\ s \notin LiveIn(c)
  BY <1>4, <1>10, <1>11 DEF LiveIn
<1> DEFINE R2 == RootsOf(c2)
<1>13. R2 = R \cup {f}
  BY <1>11, <1>12 DEF RootsOf, LiveIn
<1> HIDE DEF R, R2
<1>14. Walked(m2, R2) = Walked(m, R) \cup {f} /\ f \notin Walked(m, R)
       /\ Walked(m, R) \subseteq Frame
  BY <1>1, <1>2, <1>4, <1>9, <1>13 DEF Walked
<1>15. \A t \in Walked(m, R), i \in Index : m.entry[t][i] # f
  BY <1>1, <1>2, <1>4 DEF Walks, LevelBelow, Walked
<1>16. Walks(m2, R2)
  <2> SUFFICES ASSUME NEW t \in Walked(m2, R2), NEW i \in Index,
                      m2.entry[t][i] # None
               PROVE  m2.use[m2.entry[t][i]] = LevelBelow[m2.use[t]]
    BY DEF Walks
  <2>1. CASE t = f
    <3>1. i = KernelSlot /\ m2.entry[t][i] = copied
      BY <2>1, <1>5, <1>9
    <3>2. current \in Walked(m, R) /\ m.use[current] = "pml4" /\ copied # f
      BY <1>2, <1>3, <1>15 DEF Walked, R
    <3>3. m.use[copied] = LevelBelow["pml4"]
      BY <3>1, <3>2, <1>2, <1>3 DEF Walks
    <3>4. copied \in Frame \ {f}
      BY <3>1, <3>2, <1>3
    <3> HIDE DEF copied
    <3> QED BY <2>1, <3>1, <3>3, <3>4, <1>9
  <2>2. CASE t # f
    <3>1. t \in Walked(m, R) /\ m2.entry[t] = m.entry[t] /\ m2.use[t] = m.use[t]
      BY <2>2, <1>9, <1>14
    <3>2. m.entry[t][i] \in Frame \ {f}
      BY <3>1, <1>2, <1>14, <1>15
    <3> QED BY <3>1, <3>2, <1>2, <1>9 DEF Walks
  <2> QED BY <2>1, <2>2
<1>17. Exclusive(m2, R2)
  <2> SUFFICES ASSUME NEW t \in Walked(m2, R2), NEW u \in Walked(m2, R2),
                      NEW i \in Index, NEW j \in Index,
                      m2.entry[t][i] # None, m2.entry[t][i] = m2.entry[u][j]
               PROVE  \/ t = u /\ i = j
                      \/ t \in R2 /\ u \in R2 /\ i = KernelSlot /\ j = KernelSlot
    BY DEF Exclusive
  <2>1. current \in Walked(m, R) /\ current \in R
    BY DEF Walked, R
  <2>2. \A x \in Walked(m2, R2) : x # f =>
            x \in Walked(m, R) /\ m2.entry[x] = m.entry[x]
    BY <1>9, <1>14
  <2>3. CASE t = f /\ u = f
    BY <2>3, <1>5, <1>9
  <2>4. CASE t = f /\ u # f
    <3>1. i = KernelSlot /\ copied = m.entry[u][j] /\ copied # None
      BY <2>2, <2>4, <1>5, <1>9
    <3>2. u \in R /\ j = KernelSlot
      <4>1. u \in Walked(m, R) /\ current \in Walked(m, R)
            /\ m.entry[current][KernelSlot] # None
            /\ m.entry[current][KernelSlot] = m.entry[u][j]
        BY <3>1, <2>1, <2>2, <2>4
      <4> QED BY <4>1, <2>1, <1>2, <1>3 DEF Exclusive
    <3> QED BY <3>1, <3>2, <2>4, <1>13
  <2>5. CASE t # f /\ u = f
    <3>1. j = KernelSlot /\ copied = m.entry[t][i] /\ copied # None
      BY <2>2, <2>5, <1>5, <1>9
    <3>2. t \in R /\ i = KernelSlot
      <4>1. t \in Walked(m, R) /\ current \in Walked(m, R)
            /\ m.entry[current][KernelSlot] # None
            /\ m.entry[current][KernelSlot] = m.entry[t][i]
        BY <3>1, <2>1, <2>2, <2>5
      <4> QED BY <4>1, <2>1, <1>2, <1>3 DEF Exclusive
    <3> QED BY <3>1, <3>2, <2>5, <1>13
  <2>6. CASE t # f /\ u # f
    <3>1. t \in Walked(m, R) /\ u \in Walked(m, R)
          /\ m.entry[t][i] # None /\ m.entry[t][i] = m.entry[u][j]
      BY <2>2, <2>6
    <3>2. \/ t = u /\ i = j
          \/ t \in R /\ u \in R /\ i = KernelSlot /\ j = KernelSlot
      BY <3>1, <1>2 DEF Exclusive
    <3> QED BY <3>2, <1>13
  <2> QED BY <2>3, <2>4, <2>5, <2>6
<1>18. Good(m2, R2)
  BY <1>1, <1>2, <1>8, <1>9, <1>13, <1>16, <1>17 DEF Good, R
<1>19. ASSUME NEW r \in R, NEW v \in Path4
       PROVE  getPhysicalPageAddr(m2, r, v) = getPhysicalPageAddr(m, r, v)
  <2>1. Good(m, R)
    BY DEF Consistent, R
  <2>2. /\ r \in Frame \ {f}
        /\ pdpt(m, r, v) # None => pdpt(m, r, v) \in Frame \ {f}
        /\ pdt(m, r, v) # None => pdt(m, r, v) \in Frame \ {f}
        /\ pt(m, r, v) # None => pt(m, r, v) \in Frame \ {f}
    BY <2>1, <1>1, <1>2, <1>4, WalkLevels
  <2>3. pdpt(m2, r, v) = pdpt(m, r, v)
    BY <2>2, <1>9 DEF pdpt
  <2>4. pdt(m2, r, v) = pdt(m, r, v)
    BY <2>2, <2>3, <1>9 DEF pdt, Below
  <2>5. pt(m2, r, v) = pt(m, r, v)
    BY <2>2, <2>4, <1>9 DEF pt, Below
  <2> QED BY <2>2, <2>5, <1>9 DEF getPhysicalPageAddr, Below
<1>20. ASSUME NEW v \in UserPage
       PROVE  getPhysicalPageAddr(m2, f, v) = None
  <2>1. v[1] \in Index \ {KernelSlot}
    BY Pages4 DEF Path4
  <2>2. pdpt(m2, f, v) = None
    BY <2>1, <1>5, <1>9 DEF pdpt
  <2> QED BY <2>2 DEF getPhysicalPageAddr, pt, pdt, Below
<1>21. ASSUME NEW i \in Index
       PROVE  getPhysicalPageAddr(m2, f, KernelPage(i)) = Window[i]
  <2>1. KernelPage(i)[1] = KernelSlot /\ KernelPage(i) \in Path4
    BY Pages4
  <2>2. pdpt(m2, f, KernelPage(i)) = pdpt(m2, current, KernelPage(i))
    BY <2>1, <1>3, <1>4, <1>5, <1>9 DEF pdpt, R
  <2>3. getPhysicalPageAddr(m2, f, KernelPage(i)) =
            getPhysicalPageAddr(m2, current, KernelPage(i))
    BY <2>2 DEF getPhysicalPageAddr, pt, pdt
  <2>4. getPhysicalPageAddr(m2, current, KernelPage(i)) = Window[i]
    BY <2>1, <1>19 DEF Consistent, R
  <2> QED BY <2>3, <2>4
<1>22. ASSUME NEW t \in LiveIn(c), NEW v \in UserPage
       PROVE  getPhysicalPageAddr(m2, c2[t], v) = getPhysicalPageAddr(m, c[t], v)
  BY <1>11, <1>12, <1>19, Pages4 DEF R, RootsOf, LiveIn
<1>23. /\ \A t \in LiveIn(c2) : c2[t] # Boot[1]
       /\ \A t, u \in LiveIn(c2) : c2[t] = c2[u] => t = u
  BY <1>4, <1>11, <1>12 DEF Consistent, R, RootsOf, LiveIn
<1>24. ASSUME NEW t \in LiveIn(c2), NEW v \in UserPage,
              getPhysicalPageAddr(m2, c2[t], v) # None
       PROVE  m2.use[getPhysicalPageAddr(m2, c2[t], v)] = "data"
  <2> DEFINE g == getPhysicalPageAddr(m, c[t], v)
  <2>1. t \in LiveIn(c) /\ getPhysicalPageAddr(m2, c2[t], v) = g
    BY <1>11, <1>12, <1>20, <1>22, <1>24
  <2>2. m.use[g] = "data"
    BY <2>1, <1>24 DEF Consistent
  <2>3. Good(m, RootsOf(c)) /\ c[t] \in RootsOf(c) /\ v \in Path4 /\ g # None
    BY <2>1, <1>24, Pages4 DEF Consistent, RootsOf
  <2>4. g \in Frame
    BY <2>3, WalkLevels
  <2> HIDE DEF g
  <2> QED BY <2>1, <2>2, <2>4, <1>1, <1>9
<1>25. ASSUME NEW r \in R2, NEW i \in Index
       PROVE  getPhysicalPageAddr(m2, r, KernelPage(i)) = Window[i]
  <2>1. KernelPage(i) \in Path4
    BY Pages4
  <2>2. CASE r = f
    BY <2>2, <1>21
  <2>3. CASE r \in R
    <3>1. getPhysicalPageAddr(m2, r, KernelPage(i)) = getPhysicalPageAddr(m, r, KernelPage(i))
      BY <2>1, <2>3, <1>19
    <3> QED BY <3>1, <2>3 DEF Consistent, R
  <2> QED BY <2>2, <2>3, <1>13
<1>26. Consistent(m2, c2)
  BY <1>11, <1>18, <1>23, <1>24, <1>25 DEF Consistent, R2
<1> QED BY <1>11, <1>12, <1>20, <1>22, <1>26

Released(m, freed) ==
    [use |-> [f \in Frame |-> IF f \in freed THEN "free" ELSE m.use[f]],
     entry |-> m.entry]

\* A process ends: its data, which no other reaches, and tables of its own half
\* are released.
LEMMA EndKeeps ==
    ASSUME NEW m, NEW c, Consistent(m, c), NEW s \in LiveIn(c), NEW freed,
           \A f \in freed :
             \/ /\ m.use[f] = "data"
                /\ \A t \in LiveIn(c) \ {s}, v \in UserPage :
                     getPhysicalPageAddr(m, c[t], v) # f
             \/ \E i \in Index \ {KernelSlot} : f # None /\ m.entry[c[s]][i] = f,
           NEW m2, m2 = Released(m, freed),
           NEW c2 \in [Space -> Frame \cup {None}],
           c2[s] = None, \A t \in Space \ {s} : c2[t] = c[t]
    PROVE  Consistent(m2, c2) /\ LiveIn(c2) = LiveIn(c) \ {s}
<1> DEFINE R == RootsOf(c)
           R2 == RootsOf(c2)
<1>1. /\ IsMemory(m) /\ m.use \in [Frame -> Use]
      /\ m.entry \in [Frame -> [Index -> Frame \cup {None}]]
      /\ R \subseteq Frame /\ \A r \in R : m.use[r] = "pml4"
      /\ Walks(m, R) /\ Exclusive(m, R)
      /\ c \in [Space -> Frame \cup {None}]
  BY DEF Consistent, Good, IsMemory
<1>2. /\ m2.use = [f \in Frame |-> IF f \in freed THEN "free" ELSE m.use[f]]
      /\ m2.entry = m.entry
      /\ m2 = [use |-> m2.use, entry |-> m2.entry]
  BY DEF Released
<1>3. IsMemory(m2)
  BY <1>1, <1>2 DEF IsMemory, Use
<1>4. /\ LiveIn(c2) = LiveIn(c) \ {s}
      /\ \A t \in LiveIn(c2) : c2[t] = c[t]
      /\ c2 \in [Space -> Frame \cup {None}]
  BY <1>1 DEF LiveIn
<1>5. R2 \subseteq R /\ c[s] \notin R2 /\ c[s] \in R
  <2>1. /\ \A t \in LiveIn(c) : c[t] # Boot[1]
        /\ \A t, u \in LiveIn(c) : c[t] = c[u] => t = u
    BY DEF Consistent
  <2>2. R2 = {Boot[1]} \cup {c[t] : t \in LiveIn(c) \ {s}}
    BY <1>4 DEF R2, RootsOf
  <2>3. R = {Boot[1]} \cup {c[t] : t \in LiveIn(c)}
    BY DEF R, RootsOf
  <2> QED BY <2>1, <2>2, <2>3
<1>6. Good(m, R)
  BY DEF Consistent
<1> HIDE DEF R, R2
<1>7. c[s] \in Walked(m, R) /\ m.use[c[s]] = "pml4" /\ c[s] \in Frame
  BY <1>1, <1>5 DEF Walked
<1>8. \A f \in freed : m.use[f] \in {"data", "pdpt"}
  <2> TAKE f \in freed
  <2>1. ASSUME NEW i \in Index \ {KernelSlot}, f # None, m.entry[c[s]][i] = f
        PROVE  m.use[f] = "pdpt"
    BY <2>1, <1>1, <1>7 DEF Walks, LevelBelow
  <2> QED BY <2>1
<1>9. /\ Walked(m2, R2) \subseteq Walked(m, R) \ {c[s]}
      /\ \A r \in R2 : m2.use[r] = "pml4"
      /\ \A t \in Walked(m2, R2) : m2.use[t] = m.use[t] /\ t \in Frame
  <2>1. \A r \in R2 : r \in R /\ r \in Frame /\ r # c[s]
                       /\ m.use[r] = "pml4" /\ m2.use[r] = "pml4"
    BY <1>1, <1>2, <1>5, <1>8
  <2>2. \A t \in Frame : m2.use[t] \in {"pdpt", "pdt"} =>
            m2.use[t] = m.use[t] /\ t # c[s]
    BY <1>2, <1>7
  <2> QED BY <2>1, <2>2 DEF Walked
<1>10. Walks(m2, R2)
  <2> SUFFICES ASSUME NEW t \in Walked(m2, R2), NEW i \in Index, m2.entry[t][i] # None
               PROVE  m2.use[m2.entry[t][i]] = LevelBelow[m2.use[t]]
    BY DEF Walks
  <2> DEFINE f == m.entry[t][i]
  <2>1. t \in Walked(m, R) /\ t # c[s] /\ m2.use[t] = m.use[t] /\ f # None
    BY <1>2, <1>9
  <2>2. m.use[f] = LevelBelow[m.use[t]] /\ f \in Frame
    BY <2>1, <1>1, <1>9 DEF Walks
  <2>3. m.use[f] # "data"
    BY <2>1, <2>2, <1>1 DEF Walked, LevelBelow
  <2> HIDE DEF f
  <2>4. ASSUME NEW j \in Index \ {KernelSlot}
        PROVE  m.entry[c[s]][j] # f
    BY <2>1, <1>1, <1>7 DEF Exclusive, f
  <2>5. f \notin freed
    BY <2>3, <2>4
  <2>6. m2.use[f] = m.use[f] /\ m2.entry[t][i] = f
    BY <2>2, <2>5, <1>2 DEF f
  <2> QED BY <2>1, <2>2, <2>6
<1>11. Exclusive(m2, R2)
  <2> SUFFICES ASSUME NEW t \in Walked(m2, R2), NEW u \in Walked(m2, R2),
                      NEW i \in Index, NEW j \in Index,
                      m2.entry[t][i] # None, m2.entry[t][i] = m2.entry[u][j]
               PROVE  \/ t = u /\ i = j
                      \/ t \in R2 /\ u \in R2 /\ i = KernelSlot /\ j = KernelSlot
    BY DEF Exclusive
  <2>1. t \in Walked(m, R) /\ u \in Walked(m, R) /\ t # c[s] /\ u # c[s]
    BY <1>9
  <2>2. \/ t = u /\ i = j
        \/ t \in R /\ u \in R /\ i = KernelSlot /\ j = KernelSlot
    BY <2>1, <1>1, <1>2 DEF Exclusive
  <2>3. \A x \in R : x \in Walked(m2, R2) => x \in R2
    BY <1>1, <1>9 DEF Walked
  <2> QED BY <2>2, <2>3
<1>12. Good(m2, R2)
  BY <1>1, <1>3, <1>5, <1>9, <1>10, <1>11 DEF Good
<1>13. \A r \in R, v \in Path4 :
         getPhysicalPageAddr(m2, r, v) = getPhysicalPageAddr(m, r, v)
  BY <1>2 DEF getPhysicalPageAddr, pt, pdt, pdpt, Below
<1>14. ASSUME NEW t \in LiveIn(c2), NEW v \in UserPage,
              getPhysicalPageAddr(m2, c2[t], v) # None
       PROVE  m2.use[getPhysicalPageAddr(m2, c2[t], v)] = "data"
  <2> DEFINE g == getPhysicalPageAddr(m, c[t], v)
  <2>1. t \in LiveIn(c) \ {s} /\ c[t] \in R /\ v \in Path4 /\ c2[t] = c[t]
    BY <1>4, Pages4 DEF R, RootsOf
  <2>2. getPhysicalPageAddr(m2, c2[t], v) = g /\ g # None
    BY <2>1, <1>13, <1>14
  <2>3. m.use[g] = "data"
    BY <2>1, <2>2 DEF Consistent
  <2>4. g \in Frame
    BY <2>1, <2>2, <1>6, WalkLevels
  <2>5. ASSUME NEW i \in Index \ {KernelSlot}, g # None, m.entry[c[s]][i] = g
        PROVE  m.use[g] = "pdpt"
    BY <2>5, <1>1, <1>7 DEF Walks, LevelBelow
  <2>6. g \notin freed
    BY <2>1, <2>3, <2>5
  <2> HIDE DEF g
  <2> QED BY <2>2, <2>3, <2>4, <2>6, <1>2
<1>15. ASSUME NEW r \in R2, NEW i \in Index
       PROVE  getPhysicalPageAddr(m2, r, KernelPage(i)) = Window[i]
  BY <1>5, <1>13, Pages4 DEF Consistent, R
<1>16. /\ \A t \in LiveIn(c2) : c2[t] # Boot[1]
       /\ \A t, u \in LiveIn(c2) : c2[t] = c2[u] => t = u
  <2>1. /\ \A t \in LiveIn(c) : c[t] # Boot[1]
        /\ \A t, u \in LiveIn(c) : c[t] = c[u] => t = u
    BY DEF Consistent
  <2> QED BY <2>1, <1>4
<1> QED BY <1>4, <1>12, <1>14, <1>15, <1>16 DEF Consistent, R2

-------------------------------------------------------------------------------
\* The steps of the specification: the invariant, and what each does to the
\* mapping of PageMapping.
mapped == [s \in Space |-> [v \in UserPage |->
             IF s \in Live THEN getPhysicalPageAddr(Memory, cr3[s], v) ELSE None]]

LEMMA MemoryIs ==
    Memory.use = use /\ Memory.entry = entry /\ Live = LiveIn(cr3) /\ Roots = RootsOf(cr3)
BY DEF Memory, Live, Roots, LiveIn, RootsOf

LEMMA InitInv == Init => Inv
<1> SUFFICES ASSUME Init PROVE Inv
  OBVIOUS
<1> DEFINE m == Memory
           b1 == Boot[1]
           b2 == Boot[2]
           b3 == Boot[3]
           b4 == Boot[4]
<1>1. /\ b1 \in Frame /\ b2 \in Frame /\ b3 \in Frame /\ b4 \in Frame
      /\ b1 # b2 /\ b1 # b3 /\ b1 # b4 /\ b2 # b3 /\ b2 # b4 /\ b3 # b4
      /\ b1 # None /\ b2 # None /\ b3 # None /\ b4 # None
  BY TablesAssumption
<1>2. /\ BootPath[1] \in Index /\ BootPath[2] \in Index /\ BootPath[3] \in Index
      /\ BootPath[1] = KernelSlot
      /\ Window \in [Index -> Frame \cup {None}] /\ None \notin Frame
  BY TablesAssumption
<1> HIDE DEF b1, b2, b3, b4
<1>3. use = [f \in Frame |->
                IF f = b1 THEN "pml4" ELSE IF f = b2 THEN "pdpt"
                ELSE IF f = b3 THEN "pdt" ELSE IF f = b4 THEN "pt" ELSE "free"]
  BY DEF Init, b1, b2, b3, b4
<1>4. entry = [f \in Frame |->
                IF f = b1 THEN [Empty EXCEPT ![BootPath[1]] = b2]
                ELSE IF f = b2 THEN [Empty EXCEPT ![BootPath[2]] = b3]
                ELSE IF f = b3 THEN [Empty EXCEPT ![BootPath[3]] = b4]
                ELSE IF f = b4 THEN Window ELSE Empty]
  BY DEF Init, b1, b2, b3, b4
<1>5. /\ entry[b1] = [Empty EXCEPT ![BootPath[1]] = b2]
      /\ entry[b2] = [Empty EXCEPT ![BootPath[2]] = b3]
      /\ entry[b3] = [Empty EXCEPT ![BootPath[3]] = b4]
      /\ entry[b4] = Window
  BY <1>1, <1>4
<1>6. LiveIn(cr3) = {} /\ RootsOf(cr3) = {b1} /\ cr3 \in [Space -> Frame \cup {None}]
  BY DEF Init, LiveIn, RootsOf, b1
<1>7. m.use = use /\ m.entry = entry /\ m = [use |-> m.use, entry |-> m.entry]
  BY DEF Memory
<1>8. IsMemory(m)
  <2>1. Empty \in [Index -> Frame \cup {None}]
    BY DEF Empty
  <2>2. /\ [Empty EXCEPT ![BootPath[1]] = b2] \in [Index -> Frame \cup {None}]
        /\ [Empty EXCEPT ![BootPath[2]] = b3] \in [Index -> Frame \cup {None}]
        /\ [Empty EXCEPT ![BootPath[3]] = b4] \in [Index -> Frame \cup {None}]
    BY <2>1, <1>1
  <2>3. entry \in [Frame -> [Index -> Frame \cup {None}]]
    BY <2>1, <2>2, <1>2, <1>4
  <2>4. use \in [Frame -> Use]
    BY <1>3 DEF Use
  <2> QED BY <2>3, <2>4, <1>7 DEF IsMemory
<1>9. \A i \in Index :
        /\ entry[b1][i] = IF i = BootPath[1] THEN b2 ELSE None
        /\ entry[b2][i] = IF i = BootPath[2] THEN b3 ELSE None
        /\ entry[b3][i] = IF i = BootPath[3] THEN b4 ELSE None
  BY <1>2, <1>5 DEF Empty
<1>10. use[b1] = "pml4" /\ use[b2] = "pdpt" /\ use[b3] = "pdt" /\ use[b4] = "pt"
  BY <1>1, <1>3
<1> HIDE DEF m
<1>11. Walked(m, {b1}) = {b1, b2, b3}
  BY <1>1, <1>3, <1>7 DEF Walked
<1>12. Walks(m, {b1})
  BY <1>7, <1>9, <1>10, <1>11 DEF Walks, LevelBelow
<1>13. Exclusive(m, {b1})
  BY <1>1, <1>7, <1>9, <1>11 DEF Exclusive
<1>14. Good(m, {b1})
  BY <1>1, <1>7, <1>8, <1>10, <1>12, <1>13 DEF Good
<1>15. ASSUME NEW i \in Index
       PROVE  getPhysicalPageAddr(m, b1, KernelPage(i)) = Window[i]
  <2>1. /\ KernelPage(i)[1] = BootPath[1] /\ KernelPage(i)[2] = BootPath[2]
        /\ KernelPage(i)[3] = BootPath[3] /\ KernelPage(i)[4] = i
    BY DEF KernelPage
  <2>2. pdpt(m, b1, KernelPage(i)) = b2
    BY <2>1, <1>2, <1>7, <1>9 DEF pdpt
  <2>3. pdt(m, b1, KernelPage(i)) = b3
    BY <2>1, <2>2, <1>1, <1>2, <1>7, <1>9 DEF pdt, Below
  <2>4. pt(m, b1, KernelPage(i)) = b4
    BY <2>1, <2>3, <1>1, <1>2, <1>7, <1>9 DEF pt, Below
  <2> QED BY <2>1, <2>4, <1>1, <1>5, <1>7 DEF getPhysicalPageAddr, Below
<1> QED BY <1>6, <1>14, <1>15 DEF Inv, Consistent, m

\* What a step that maps one page of a live process has to show.
LEMMA MapStep ==
    ASSUME Inv, Inv', NEW s \in Live, NEW v \in UserPage, NEW f \in Frame,
           cr3' = cr3,
           \A t \in Live, w \in UserPage :
             getPhysicalPageAddr(Memory', cr3[t], w) =
                IF t = s /\ w = v THEN f ELSE getPhysicalPageAddr(Memory, cr3[t], w)
    PROVE  Live' = Live /\ mapped' = [mapped EXCEPT ![s][v] = f]
<1>1. Live' = Live
  BY DEF Live
<1>2. s \in Space
  BY DEF Live
<1>3. mapped' = [t \in Space |-> [w \in UserPage |->
                   IF t \in Live THEN getPhysicalPageAddr(Memory', cr3[t], w) ELSE None]]
  BY <1>1 DEF mapped
<1>4. mapped' = [t \in Space |-> [w \in UserPage |->
                   IF t = s /\ w = v THEN f
                   ELSE IF t \in Live THEN getPhysicalPageAddr(Memory, cr3[t], w) ELSE None]]
  BY <1>3
<1>5. mapped = [t \in Space |-> [w \in UserPage |->
                  IF t \in Live THEN getPhysicalPageAddr(Memory, cr3[t], w) ELSE None]]
  BY DEF mapped
<1> DEFINE after == mapped'
           before == mapped
<1> HIDE DEF after, before
<1>6. ASSUME NEW t \in Space
      PROVE  /\ before[t] = [w \in UserPage |-> before[t][w]]
             /\ after[t] = [w \in UserPage |-> IF t = s /\ w = v THEN f ELSE before[t][w]]
  BY <1>4, <1>5 DEF after, before
<1>7. after = [t \in Space |-> after[t]] /\ before = [t \in Space |-> before[t]]
  BY <1>4, <1>5 DEF after, before
<1>8. after[s] = [before[s] EXCEPT ![v] = f]
  <2> DEFINE row == before[s]
  <2>1. row = [w \in UserPage |-> row[w]] /\ after[s] = [w \in UserPage |-> IF w = v THEN f ELSE row[w]]
    BY <1>2, <1>6
  <2> HIDE DEF row
  <2>2. after[s] = [row EXCEPT ![v] = f]
    BY <2>1
  <2> QED BY <2>2 DEF row
<1>9. \A t \in Space \ {s} : after[t] = before[t]
  <2> TAKE t \in Space \ {s}
  <2> QED BY <1>6
<1>10. after = [before EXCEPT ![s] = [before[s] EXCEPT ![v] = f]]
  BY <1>2, <1>7, <1>8, <1>9
<1> QED BY <1>1, <1>10 DEF after, before

LEMMA MapNewPageStep ==
    ASSUME Inv, NEW s \in Space, NEW v \in UserPage, MapNewPage(s, v)
    PROVE  Inv' /\ Live' = Live
           /\ \E f \in Frame : mapped' = [mapped EXCEPT ![s][v] = f]
<1> DEFINE f == kmalloc(Memory)
           m == GivenAsData(Memory, f)
           done == mapPageForUser(m, cr3[s], v, f)
<1>1. [Memory EXCEPT !.use[f] = "data"] = m
  BY DEF GivenAsData, Memory
<1>2. /\ s \in Live /\ Free(Memory) # {}
      /\ TablesFit(m, cr3[s], v)
      /\ use' = done.use /\ entry' = done.entry /\ cr3' = cr3
  BY <1>1 DEF MapNewPage
<1> HIDE DEF f, m
<1>3. /\ Consistent(m, cr3) /\ f \in Frame /\ m.use[f] = "data"
      /\ \A r \in RootsOf(cr3), w \in Path4 :
           getPhysicalPageAddr(m, r, w) = getPhysicalPageAddr(Memory, r, w)
  BY <1>2, AllocKeeps DEF m, f, Inv
<1>4. cr3[s] \in RootsOf(cr3)
  BY <1>2, MemoryIs DEF RootsOf
<1> HIDE DEF done
<1>5. /\ Consistent(done, cr3)
      /\ \A r \in RootsOf(cr3), w \in UserPage :
           getPhysicalPageAddr(done, r, w) =
             IF r = cr3[s] /\ w = v THEN f ELSE getPhysicalPageAddr(m, r, w)
  BY <1>2, <1>3, <1>4, MapKeeps DEF done
<1>6. Memory' = done
  BY <1>2, <1>5 DEF Memory, Consistent, Good, IsMemory
<1>7. Inv'
  BY <1>2, <1>5, <1>6 DEF Inv
<1>8. \A t \in Live, w \in UserPage :
        getPhysicalPageAddr(Memory', cr3[t], w) =
          IF t = s /\ w = v THEN f ELSE getPhysicalPageAddr(Memory, cr3[t], w)
  <2> TAKE t \in Live, w \in UserPage
  <2>1. cr3[t] \in RootsOf(cr3) /\ w \in Path4 /\ (cr3[t] = cr3[s] <=> t = s)
    BY <1>2, MemoryIs, Pages4 DEF RootsOf, Inv, Consistent
  <2> QED BY <2>1, <1>3, <1>5, <1>6
<1> QED BY <1>2, <1>3, <1>7, <1>8, MapStep

LEMMA MapSharedPageStep ==
    ASSUME Inv, NEW parent \in Space, NEW child \in Space, NEW v \in UserPage,
           MapSharedPage(parent, child, v)
    PROVE  Inv' /\ Live' = Live
           /\ \E f \in Frame : mapped' = [mapped EXCEPT ![child][v] = f]
<1> DEFINE f == getPhysicalPageAddr(Memory, cr3[parent], v)
           done == mapPageForUser(Memory, cr3[child], v, f)
<1>1. /\ parent \in Live /\ child \in Live /\ f # None
      /\ TablesFit(Memory, cr3[child], v)
      /\ use' = done.use /\ entry' = done.entry /\ cr3' = cr3
  BY DEF MapSharedPage
<1>2. cr3[parent] \in RootsOf(cr3) /\ cr3[child] \in RootsOf(cr3)
  BY <1>1, MemoryIs DEF RootsOf
<1>3. f \in Frame
  <2>1. Good(Memory, RootsOf(cr3)) /\ v \in Path4
    BY Pages4 DEF Inv, Consistent
  <2> QED BY <2>1, <1>1, <1>2, WalkLevels
<1>4. Memory.use[f] = "data"
  BY <1>1, MemoryIs DEF Inv, Consistent
<1> HIDE DEF done, f
<1>5. /\ Consistent(done, cr3)
      /\ \A r \in RootsOf(cr3), w \in UserPage :
           getPhysicalPageAddr(done, r, w) =
             IF r = cr3[child] /\ w = v THEN f ELSE getPhysicalPageAddr(Memory, r, w)
  BY <1>1, <1>2, <1>3, <1>4, MapKeeps DEF done, Inv
<1>6. Memory' = done
  BY <1>1, <1>5 DEF Memory, Consistent, Good, IsMemory
<1>7. Inv'
  BY <1>1, <1>5, <1>6 DEF Inv
<1>8. \A t \in Live, w \in UserPage :
        getPhysicalPageAddr(Memory', cr3[t], w) =
          IF t = child /\ w = v THEN f ELSE getPhysicalPageAddr(Memory, cr3[t], w)
  <2> TAKE t \in Live, w \in UserPage
  <2>1. cr3[t] \in RootsOf(cr3) /\ (cr3[t] = cr3[child] <=> t = child)
    BY <1>1, MemoryIs DEF RootsOf, Inv, Consistent
  <2> QED BY <2>1, <1>5, <1>6
<1> QED BY <1>1, <1>3, <1>7, <1>8, MapStep

LEMMA StackStep ==
    ASSUME Inv, NEW s \in Space, stackForUser(s)
    PROVE  Inv' /\ Live' = Live
           /\ \E f \in Frame : mapped' = [mapped EXCEPT ![s][StackPage] = f]
<1> DEFINE f == kmalloc(Memory)
           m == GivenAsData(Memory, f)
           mine == mapPageForUser(m, cr3[s], StackPage, f)
           done == mapPageForUser(mine, Boot[1], StackPage, f)
<1>1. [Memory EXCEPT !.use[f] = "data"] = m
  BY DEF GivenAsData, Memory
<1>2. /\ s \in Live /\ Free(Memory) # {}
      /\ TablesFit(m, cr3[s], StackPage) /\ TablesFit(mine, Boot[1], StackPage)
      /\ use' = done.use /\ entry' = done.entry /\ cr3' = cr3
  BY <1>1 DEF stackForUser
<1> HIDE DEF f, m
<1>3. /\ Consistent(m, cr3) /\ f \in Frame /\ m.use[f] = "data"
      /\ \A r \in RootsOf(cr3), w \in Path4 :
           getPhysicalPageAddr(m, r, w) = getPhysicalPageAddr(Memory, r, w)
  <2>1. Consistent(Memory, cr3)
    BY DEF Inv
  <2>2. f = kmalloc(Memory) /\ m = GivenAsData(Memory, f)
    BY DEF m, f
  <2> HIDE DEF mine, done
  <2> QED BY <1>2, <2>1, <2>2, AllocKeeps
<1>4. cr3[s] \in RootsOf(cr3) /\ Boot[1] \in RootsOf(cr3) /\ StackPage \in UserPage
  BY <1>2, MemoryIs, Pages4 DEF RootsOf
<1> HIDE DEF mine
<1>5. /\ Consistent(mine, cr3) /\ mine.use[f] = "data"
      /\ \A r \in RootsOf(cr3), w \in UserPage :
           getPhysicalPageAddr(mine, r, w) =
             IF r = cr3[s] /\ w = StackPage THEN f ELSE getPhysicalPageAddr(m, r, w)
  BY <1>2, <1>3, <1>4, MapKeeps DEF mine
<1> HIDE DEF done
<1>6. /\ Consistent(done, cr3)
      /\ \A r \in RootsOf(cr3), w \in UserPage :
           getPhysicalPageAddr(done, r, w) =
             IF r = Boot[1] /\ w = StackPage THEN f ELSE getPhysicalPageAddr(mine, r, w)
  BY <1>2, <1>3, <1>4, <1>5, MapKeeps DEF done
<1>7. Memory' = done
  BY <1>2, <1>6 DEF Memory, Consistent, Good, IsMemory
<1>8. Inv'
  BY <1>2, <1>6, <1>7 DEF Inv
<1>9. \A t \in Live, w \in UserPage :
        getPhysicalPageAddr(Memory', cr3[t], w) =
          IF t = s /\ w = StackPage THEN f ELSE getPhysicalPageAddr(Memory, cr3[t], w)
  <2> TAKE t \in Live, w \in UserPage
  <2>1. /\ cr3[t] \in RootsOf(cr3) /\ w \in Path4
        /\ cr3[t] = cr3[s] <=> t = s
        /\ cr3[t] # Boot[1]
    BY <1>2, MemoryIs, Pages4 DEF RootsOf, Inv, Consistent
  <2> QED BY <2>1, <1>3, <1>5, <1>6, <1>7
<1> QED BY <1>2, <1>3, <1>4, <1>8, <1>9, MapStep

LEMMA NewRootStep ==
    ASSUME Inv, NEW s \in Space, getNewPML4ForUser(s)
    PROVE  Inv' /\ s \notin Live /\ Live' = Live \cup {s} /\ mapped' = mapped
<1> DEFINE f == kmalloc(Memory)
<1>1. PICK current \in Roots :
        /\ use' = [use EXCEPT ![f] = "pml4"]
        /\ entry' = [entry EXCEPT
              ![f] = [Empty EXCEPT ![KernelSlot] = entry[current][KernelSlot]]]
        /\ cr3' = [cr3 EXCEPT ![s] = f]
  BY DEF getNewPML4ForUser
<1> DEFINE m2 == RootAdded(Memory, f, current)
           c2 == cr3'
<1>2. Memory' = m2 /\ cr3' = c2
  BY <1>1, MemoryIs DEF Memory, RootAdded
<1>3. /\ Consistent(Memory, cr3) /\ cr3[s] = None /\ Free(Memory) # {}
      /\ current \in RootsOf(cr3)
  BY <1>1, MemoryIs DEF getNewPML4ForUser, Inv
<1>a. f \in Frame /\ cr3 \in [Space -> Frame \cup {None}]
  BY <1>3, Allocated DEF Consistent
<1>b. /\ c2 \in [Space -> Frame \cup {None}]
      /\ c2[s] = f /\ \A t \in Space \ {s} : c2[t] = cr3[t]
  BY <1>1, <1>a
<1> HIDE DEF c2
<1>c. f = kmalloc(Memory) /\ m2 = RootAdded(Memory, f, current)
  OBVIOUS
<1> HIDE DEF m2, f
<1>4. /\ Consistent(m2, c2)
      /\ LiveIn(c2) = LiveIn(cr3) \cup {s}
      /\ \A v \in UserPage : getPhysicalPageAddr(m2, c2[s], v) = None
      /\ \A t \in LiveIn(cr3), v \in UserPage :
           getPhysicalPageAddr(m2, c2[t], v) = getPhysicalPageAddr(Memory, cr3[t], v)
  BY <1>3, <1>b, <1>c, NewRootKeeps
<1>5. Inv'
  BY <1>2, <1>4 DEF Inv
<1>6. s \notin Live /\ Live' = Live \cup {s}
  BY <1>2, <1>3, <1>4 DEF Live, LiveIn
<1>7. \A t \in Live', v \in UserPage :
        getPhysicalPageAddr(Memory', cr3'[t], v) =
           IF t \in Live THEN getPhysicalPageAddr(Memory, cr3[t], v) ELSE None
  BY <1>2, <1>4, <1>6, MemoryIs
<1>8. mapped' = mapped
  <2>1. mapped' = [t \in Space |-> [v \in UserPage |->
             IF t \in Live' THEN getPhysicalPageAddr(Memory', cr3'[t], v) ELSE None]]
    BY DEF mapped
  <2>2. mapped' = [t \in Space |-> [v \in UserPage |->
             IF t \in Live THEN getPhysicalPageAddr(Memory, cr3[t], v) ELSE None]]
    BY <2>1, <1>6, <1>7
  <2> QED BY <2>2 DEF mapped
<1> QED BY <1>5, <1>6, <1>8

LEMMA EndStep ==
    ASSUME Inv, NEW s \in Space, Terminate(s) \/ DropTables(s)
    PROVE  /\ Inv' /\ s \in Live /\ Live' = Live \ {s}
           /\ mapped' = [mapped EXCEPT ![s] = [v \in UserPage |-> None]]
<1> DEFINE freed == IF Terminate(s) THEN Mapped(s) \cup FreePageTables(s) ELSE {}
           m2 == Released(Memory, freed)
<1>1. s \in Live /\ cr3' = [cr3 EXCEPT ![s] = None] /\ s \in LiveIn(cr3)
  BY MemoryIs DEF Terminate, DropTables
<1>2. Consistent(Memory, cr3) /\ cr3 \in [Space -> Frame \cup {None}]
      /\ Good(Memory, RootsOf(cr3)) /\ use \in [Frame -> Use]
  BY MemoryIs DEF Inv, Consistent, Good, IsMemory
<1>3. /\ cr3' \in [Space -> Frame \cup {None}]
      /\ cr3'[s] = None /\ \A t \in Space \ {s} : cr3'[t] = cr3[t]
  BY <1>1, <1>2
<1>4. Memory' = m2
  <2>1. CASE Terminate(s)
    BY <2>1 DEF Terminate, Memory, Released
  <2>2. CASE ~Terminate(s)
    <3>1. use' = use /\ entry' = entry /\ freed = {}
      BY <2>2 DEF DropTables
    <3> HIDE DEF freed
    <3>2. use = [f \in Frame |-> IF f \in freed THEN "free" ELSE use[f]]
      BY <3>1, <1>2
    <3> QED BY <3>1, <3>2 DEF Memory, Released
  <2> QED BY <2>1, <2>2
<1>5. ASSUME NEW f \in freed
      PROVE  \/ /\ Memory.use[f] = "data"
                /\ \A t \in LiveIn(cr3) \ {s}, v \in UserPage :
                     getPhysicalPageAddr(Memory, cr3[t], v) # f
             \/ \E i \in Index \ {KernelSlot} : f # None /\ Memory.entry[cr3[s]][i] = f
  <2>1. Terminate(s)
    OBVIOUS
  <2>2. CASE f \in Mapped(s)
    <3>1. PICK v \in UserPage : f = getPhysicalPageAddr(Memory, cr3[s], v) /\ f # None
      BY <2>2 DEF Mapped
    <3>2. Memory.use[f] = "data"
      BY <3>1, <1>1, <1>2 DEF Consistent
    <3>3. ASSUME NEW t \in LiveIn(cr3) \ {s}, NEW w \in UserPage
          PROVE  getPhysicalPageAddr(Memory, cr3[t], w) # f
      <4>1. Mapped(s) \cap Mapped(t) = {}
        BY <2>1, MemoryIs DEF Terminate
      <4> QED BY <4>1, <2>2, <3>1 DEF Mapped
    <3> QED BY <3>2, <3>3
  <2>3. CASE f \in FreePageTables(s)
    BY <2>3, MemoryIs DEF FreePageTables
  <2> QED BY <2>1, <2>2, <2>3
<1> HIDE DEF freed
<1>6. Consistent(m2, cr3') /\ LiveIn(cr3') = LiveIn(cr3) \ {s}
  <2> DEFINE c2 == cr3'
  <2>1. /\ c2 \in [Space -> Frame \cup {None}]
        /\ c2[s] = None /\ \A t \in Space \ {s} : c2[t] = cr3[t]
    BY <1>3
  <2>2. m2 = Released(Memory, freed)
    OBVIOUS
  <2> HIDE DEF c2, m2
  <2>3. Consistent(m2, c2) /\ LiveIn(c2) = LiveIn(cr3) \ {s}
    BY <1>1, <1>2, <1>5, <2>1, <2>2, EndKeeps
  <2> QED BY <2>3 DEF c2
<1> HIDE DEF m2
<1>7. Inv'
  BY <1>4, <1>6 DEF Inv
<1>8. Live' = Live \ {s}
  BY <1>6 DEF Live, LiveIn
<1>9. \A t \in Live', v \in UserPage :
        getPhysicalPageAddr(Memory', cr3'[t], v) = getPhysicalPageAddr(Memory, cr3[t], v)
  <2>1. Memory'.entry = Memory.entry /\ \A t \in Live' : cr3'[t] = cr3[t]
    BY <1>3, <1>4, <1>8 DEF m2, Released, Live
  <2> QED BY <2>1 DEF getPhysicalPageAddr, pt, pdt, pdpt, Below
<1>10. mapped' = [t \in Space |-> [v \in UserPage |->
             IF t \in Live' THEN getPhysicalPageAddr(Memory', cr3'[t], v) ELSE None]]
  BY DEF mapped
<1>11. mapped' = [t \in Space |-> [v \in UserPage |->
             IF t \in Live \ {s} THEN getPhysicalPageAddr(Memory, cr3[t], v) ELSE None]]
  BY <1>8, <1>9, <1>10
<1>12. mapped' = [mapped EXCEPT ![s] = [v \in UserPage |-> None]]
  <2>1. ASSUME NEW t \in Space \ {s} PROVE mapped'[t] = mapped[t]
    BY <1>11 DEF mapped
  <2>2. mapped'[s] = [v \in UserPage |-> None]
    BY <1>11
  <2>3. mapped' = [t \in Space |-> mapped'[t]] /\ mapped = [t \in Space |-> mapped[t]]
    BY <1>11 DEF mapped
  <2> QED BY <2>1, <2>2, <2>3
<1> QED BY <1>1, <1>7, <1>8, <1>12

\* Each step keeps the invariant and is one of PageMapping or changes nothing
\* that it shows.
MapsAPage == \E s \in Live, v \in UserPage, f \in Frame :
                Live' = Live /\ mapped' = [mapped EXCEPT ![s][v] = f]
CreatesSpace == \E s \in Space \ Live : Live' = Live \cup {s} /\ mapped' = mapped
EndsSpace == \E s \in Live :
                /\ Live' = Live \ {s}
                /\ mapped' = [mapped EXCEPT ![s] = [v \in UserPage |-> None]]
ShowsNothing == Live' = Live /\ mapped' = mapped

LEMMA Step ==
    ASSUME Inv, [Next]_vars
    PROVE  Inv' /\ (CreatesSpace \/ MapsAPage \/ EndsSpace \/ ShowsNothing)
<1>1. CASE UNCHANGED vars
  <2>1. Memory' = Memory /\ cr3' = cr3 /\ Live' = Live
    BY <1>1 DEF vars, Memory, Live
  <2> QED BY <2>1 DEF ShowsNothing, mapped, Inv
<1>2. ASSUME NEW s \in Space, getNewPML4ForUser(s)
      PROVE  Inv' /\ CreatesSpace
  BY <1>2, NewRootStep DEF CreatesSpace
<1>3. ASSUME NEW s \in Space, stackForUser(s)
      PROVE  Inv' /\ MapsAPage
  <2>1. s \in Live /\ StackPage \in UserPage
    BY <1>3, Pages4 DEF stackForUser
  <2> QED BY <1>3, <2>1, StackStep DEF MapsAPage
<1>4. ASSUME NEW s \in Space, Terminate(s) \/ DropTables(s)
      PROVE  Inv' /\ EndsSpace
  BY <1>4, EndStep DEF EndsSpace
<1>5. ASSUME NEW s \in Space, NEW v \in UserPage, MapNewPage(s, v)
      PROVE  Inv' /\ MapsAPage
  <2>1. s \in Live
    BY <1>5 DEF MapNewPage
  <2> QED BY <1>5, <2>1, MapNewPageStep DEF MapsAPage
<1>6. ASSUME NEW s \in Space, NEW child \in Space, NEW v \in UserPage,
             MapSharedPage(s, child, v)
      PROVE  Inv' /\ MapsAPage
  <2>1. child \in Live
    BY <1>6 DEF MapSharedPage
  <2> QED BY <1>6, <2>1, MapSharedPageStep DEF MapsAPage
<1> QED BY <1>1, <1>2, <1>3, <1>4, <1>5, <1>6 DEF Next

LEMMA Invariance == Spec => []Inv
<1>1. Inv /\ [Next]_vars => Inv'
  BY Step
<1> QED BY InitInv, <1>1, PTL DEF Spec

\* Every value of the state is of its type.
THEOREM TypeCorrect == Spec => []TypeOK
<1>1. Inv => TypeOK
  BY MemoryIs DEF Inv, Consistent, Good, IsMemory, TypeOK
<1> QED BY <1>1, Invariance, PTL

\* What mapPageForUser(), getNewPML4ForUser() and FreePageTables() leave
\* behind never leads a walk out of the tables that are in use.
THEOREM NoWalkIntoReleased == Spec => []WalksStayInTables
<1>1. Inv => WalksStayInTables
  <2>1. Followed = Walked(Memory, RootsOf(cr3))
    BY MemoryIs DEF Followed, Walked
  <2> QED BY <2>1, MemoryIs DEF Inv, Consistent, Good, Walks, WalksStayInTables
<1> QED BY <1>1, Invariance, PTL

\* No table belongs to two address spaces, the kernel's half excepted.
THEOREM NoTableIsShared == Spec => []TablesAreExclusive
<1>1. Inv => TablesAreExclusive
  <2> SUFFICES ASSUME Inv PROVE TablesAreExclusive
    OBVIOUS
  <2>1. Followed = Walked(Memory, RootsOf(cr3))
    BY MemoryIs DEF Followed, Walked
  <2>2. \A t, u \in Followed, i, j \in Index :
          entry[t][i] # None /\ entry[t][i] = entry[u][j] =>
            \/ t = u /\ i = j
            \/ t \in Roots /\ u \in Roots /\ i = KernelSlot /\ j = KernelSlot
    BY <2>1, MemoryIs DEF Inv, Consistent, Good, Exclusive
  <2> SUFFICES ASSUME NEW e \in Followed \X Index, NEW d \in Followed \X Index,
                      entry[e[1]][e[2]] # None,
                      entry[e[1]][e[2]] = entry[d[1]][d[2]]
               PROVE  \/ e = d
                      \/ {e[1], d[1]} \subseteq Roots /\ e[2] = KernelSlot /\ d[2] = KernelSlot
    BY DEF TablesAreExclusive
  <2>3. /\ e[1] \in Followed /\ d[1] \in Followed /\ e[2] \in Index /\ d[2] \in Index
        /\ e = <<e[1], e[2]>> /\ d = <<d[1], d[2]>>
    OBVIOUS
  <2>4. \/ e[1] = d[1] /\ e[2] = d[2]
        \/ e[1] \in Roots /\ d[1] \in Roots /\ e[2] = KernelSlot /\ d[2] = KernelSlot
    BY <2>2, <2>3
  <2> QED BY <2>3, <2>4
<1> QED BY <1>1, Invariance, PTL

\* A program never reaches a table, a page of the kernel or a released page.
THEOREM DataOnly == Spec => []ProgramsReachOnlyData
<1>1. Inv => ProgramsReachOnlyData
  BY MemoryIs DEF Inv, Consistent, ProgramsReachOnlyData
<1> QED BY <1>1, Invariance, PTL

\* The kernel's window is the same under every PML4.
THEOREM CommonKernel == Spec => []KernelHalfIsCommon
<1>1. Inv => KernelHalfIsCommon
  BY MemoryIs DEF Inv, Consistent, KernelPage, KernelHalfIsCommon
<1> QED BY <1>1, Invariance, PTL

\* The four levels of tables implement one function from pages to frames for
\* each process.
THEOREM TablesImplementMapping == Spec => ImplementsPageMapping
<1>1. Init => Abstract!Init
  <2>1. Init => Live = {}
    BY DEF Init, Live
  <2> QED BY <2>1 DEF Abstract!Init, Abstract!Unmapped
<1>2. Inv /\ [Next]_vars => [Abstract!Next]_(Abstract!mappingVars)
  <2> SUFFICES ASSUME Inv, [Next]_vars
               PROVE  [Abstract!Next]_(Abstract!mappingVars)
    OBVIOUS
  <2>1. CASE CreatesSpace
    BY <2>1 DEF CreatesSpace, mapped, Abstract!Next, Abstract!Create
  <2>2. CASE MapsAPage
    <3>1. PICK x \in Live, p \in UserPage, g \in Frame :
            Live' = Live /\ mapped' = [mapped EXCEPT ![x][p] = g]
      BY <2>2 DEF MapsAPage
    <3>2. \E s \in Live, v \in UserPage, f \in Frame :
            /\ mapped' = [mapped EXCEPT ![s][v] = f]
            /\ UNCHANGED Live
      BY <3>1
    <3>3. Abstract!Map
      BY <3>2 DEF mapped, Abstract!Map
    <3> QED BY <3>3 DEF Abstract!Next
  <2>3. CASE EndsSpace
    <3>1. PICK s \in Live :
            /\ Live' = Live \ {s}
            /\ mapped' = [mapped EXCEPT ![s] = [v \in UserPage |-> None]]
      BY <2>3 DEF EndsSpace
    <3>2. Abstract!End
      BY <3>1, Zenon DEF mapped, Abstract!End, Abstract!Unmapped
    <3> QED BY <3>2 DEF Abstract!Next
  <2>4. CASE ShowsNothing
    BY <2>4 DEF ShowsNothing, mapped, Abstract!mappingVars
  <2> QED BY <2>1, <2>2, <2>3, <2>4, Step
<1> QED BY <1>1, <1>2, Invariance, PTL
     DEF Spec, ImplementsPageMapping, Abstract!Spec
===============================================================================
