--------------------------- MODULE FileTableProofs ---------------------------
(***************************************************************************)
(* Descriptors and paths for any number of processes, pages and            *)
(* descriptors, and for any archive, paths, commands and values of PATH:   *)
(* what a program has opened stays what it opened and is not given out     *)
(* again before its close, a read stays in the data of its file, a path    *)
(* and a command resolve to what they mean, and a stream lists its         *)
(* directory.                                                              *)
(*                                                                         *)
(* A page is given out once, so that no two programs that make calls share *)
(* one: a child points to the pages of the shell, but only until its exec. *)
(* The pages of a program fill fd_pointers from the front and are those    *)
(* that fd_count covers, which is what get_fd() looks at; and the pointer  *)
(* of a stream is its own place, which no other stream can have.           *)
(*                                                                         *)
(* The second part is about the recursive functions of TarArchive.  The    *)
(* function that follows a step from 0 to N exists (Recursion), and two    *)
(* that follow the same step are the same (SameIteration); both are proved *)
(* here by induction over a set.  So the value of each of them is that of  *)
(* a function given by its steps, and an induction over those steps shows  *)
(* what it computes: where the headers are, the stack of names that a path *)
(* leads to and the output of remove_dotslash() that spells it, and the    *)
(* directories that the search of a command tries.                         *)
(*                                                                         *)
(* The last part is about listings.  getDirEntries() compares a name only  *)
(* with the one before, and still lists none twice, because the headers    *)
(* below a directory of the archive are next to each other: so the list    *)
(* up to each header is without repetition, and grows.  A stream is always *)
(* behind a header of its directory, has returned the list up to there,    *)
(* and keeps the last name of it, which is where readdir() goes on.        *)
(***************************************************************************)
EXTENDS FileTable, TLAPS, WellFoundedInduction, SequenceTheorems

PagesOf(t) == fd_count[t] \div PerPage
PageOf(fd) == fd \div PerPage

\* The shapes of the functions and records that the calls update.
IsSlot(s) == s = [name |-> s.name, start |-> s.start, offset |-> s.offset,
                  d_prev_dir |-> s.d_prev_dir, d_dirp |-> s.d_dirp]
ShapesInv ==
    /\ forked \subseteq live /\ live \subseteq Task
    /\ used \subseteq Table
    /\ fd_pointers \in [Task -> [0 .. Pages - 1 -> Table \cup {NoPage}]]
    /\ fd_count \in [Task -> Nat]
    /\ slot = [p \in Place |-> slot[p]] /\ \A p \in Place : IsSlot(slot[p])
    /\ opened = [t \in Task |-> [fd \in Usable |-> opened[t][fd]]]

\* The pages of a program are in use, and the first that fd_count covers.
PrefixOf(pointers, count) ==
    /\ count \div PerPage \in 0 .. Pages
    /\ count = PerPage * (count \div PerPage)
    /\ \A page \in 0 .. Pages - 1 :
        /\ pointers[page] \in used \cup {NoPage}
        /\ pointers[page] # NoPage <=> page < count \div PerPage

PagesInv == \A t \in Task : Runs(t) => PrefixOf(fd_pointers[t], fd_count[t])

\* No page is pointed to from two places.
PagesAreApart ==
    \A t, u \in Task : \A p, q \in 0 .. Pages - 1 :
        Runs(t) /\ Runs(u) /\ fd_pointers[t][p] # NoPage /\ fd_pointers[t][p] = fd_pointers[u][q]
            => t = u /\ p = q

\* A stream's pointer is its place.
PointersAreOwn == \A p \in Place : slot[p].d_dirp \in {p, NoDir}

\* A descriptor that the program holds is on a page and filled with what was opened.
Filled(t, fd) ==
    LET place == get_fd_address(t, fd) IN
    /\ PageOf(fd) < PagesOf(t)
    /\ opened[t][fd].stream => slot[place].d_dirp = place
    /\ ~opened[t][fd].stream => slot[place].d_dirp = NoDir
    /\ opened[t][fd].name # Nameless =>
        slot[place].name = opened[t][fd].name /\ slot[place].start = opened[t][fd].start

HeldInv ==
    \A t \in Task, fd \in Usable :
        opened[t][fd] # Nothing => Runs(t) /\ Filled(t, fd)

FilesInv == ShapesInv /\ PagesInv /\ PagesAreApart /\ PointersAreOwn /\ HeldInv

-------------------------------------------------------------------------------
\* A nonempty set of numbers has a least one.
LEMMA LeastNumber ==
    ASSUME NEW T \in SUBSET Nat, T # {}
    PROVE  \E x \in T : \A y \in T : x <= y
<1>1. \E x \in T : \A y \in T : ~(<<y, x>> \in OpToRel(<, Nat))
  BY NatLessThanWellFounded, WFMin
<1>2. PICK x \in T : \A y \in T : ~(<<y, x>> \in OpToRel(<, Nat))
  BY <1>1
<1>3. \A y \in T : ~(y < x)
  BY <1>2 DEF OpToRel
<1> QED BY <1>3, SMT

\* The page and the place on it of a descriptor.
LEMMA PageAndPlace ==
    ASSUME NEW fd \in Fd
    PROVE  /\ PageOf(fd) \in 0 .. Pages - 1
           /\ fd % PerPage \in 0 .. PerPage - 1
           /\ fd = PerPage * PageOf(fd) + (fd % PerPage)
           /\ fd \in Nat
<1>1. PerPage \in Nat \ {0} /\ Pages \in Nat \ {0} /\ fd \in Nat /\ fd <= Pages * PerPage - 1
  BY FileAssumption, SMT DEF Fd
<1>2. fd = PerPage * (fd \div PerPage) + (fd % PerPage)
      /\ fd % PerPage \in 0 .. PerPage - 1 /\ fd \div PerPage \in Nat
  BY <1>1, SMT
<1>3. fd \div PerPage < Pages
  <2> SUFFICES ASSUME fd \div PerPage >= Pages PROVE FALSE
    BY <1>1, <1>2, SMT
  <2>1. PerPage * (fd \div PerPage) >= PerPage * Pages
    BY <1>1, <1>2, SMT
  <2> QED BY <1>1, <1>2, <2>1, SMT
<1> QED BY <1>1, <1>2, <1>3, SMT DEF PageOf

\* The page that d \div PerPage names, for a descriptor of page n.
LEMMA DescriptorOf ==
    ASSUME NEW n \in 0 .. Pages - 1, NEW k \in 0 .. PerPage - 1
    PROVE  /\ PerPage * n + k \in Fd
           /\ (PerPage * n + k) \div PerPage = n
<1>1. PerPage \in Nat \ {0} /\ Pages \in Nat \ {0}
  BY FileAssumption
<1>2. PerPage * n + k \in Nat
  BY <1>1, SMT
<1>3. PerPage * n + k <= Pages * PerPage - 1
  <2>1. PerPage * (n + 1) <= PerPage * Pages
    BY <1>1, SMT
  <2> QED BY <1>1, <2>1, SMT
<1>4. (PerPage * n + k) \div PerPage = n
  <2> DEFINE m == PerPage * n + k
  <2>1. m = PerPage * (m \div PerPage) + (m % PerPage)
        /\ m % PerPage \in 0 .. PerPage - 1 /\ m \div PerPage \in Nat
    BY <1>1, <1>2, SMT
  <2> DEFINE q == m \div PerPage
             r == m % PerPage
  <2>2. PerPage * n + k = PerPage * q + r /\ q \in Nat /\ r \in 0 .. PerPage - 1
    BY <2>1
  <2> HIDE DEF q, r, m
  <2>3. q < n => PerPage * (q + 1) <= PerPage * n
    BY <1>1, <2>2, SMT
  <2>4. n < q => PerPage * (n + 1) <= PerPage * q
    BY <1>1, <2>2, SMT
  <2>5. q = n
    BY <1>1, <2>2, <2>3, <2>4, SMT
  <2> QED BY <2>5 DEF q, m
<1> QED BY <1>1, <1>2, <1>3, <1>4, SMT DEF Fd

\* Whole pages only.
LEMMA WholePages ==
    ASSUME NEW n \in Nat
    PROVE  (PerPage * n) \div PerPage = n /\ PerPage * n \in Nat
<1>1. PerPage \in Nat \ {0}
  BY FileAssumption
<1> DEFINE m == PerPage * n
<1>2. m \in Nat
  BY <1>1, SMT
<1>3. m = PerPage * (m \div PerPage) + (m % PerPage)
      /\ m % PerPage \in 0 .. PerPage - 1 /\ m \div PerPage \in Nat
  BY <1>1, <1>2, SMT
<1> DEFINE q == m \div PerPage
           r == m % PerPage
<1>4. PerPage * n = PerPage * q + r /\ q \in Nat /\ r \in 0 .. PerPage - 1
  BY <1>3
<1> HIDE DEF q, r, m
<1>5. q < n => PerPage * (q + 1) <= PerPage * n
  BY <1>1, <1>4, SMT
<1>6. n < q => PerPage * (n + 1) <= PerPage * q
  BY <1>1, <1>4, SMT
<1>7. q = n
  BY <1>1, <1>4, <1>5, <1>6, SMT
<1> QED BY <1>2, <1>7 DEF q, m

\* Two descriptors of a page at the same place are one.
LEMMA SamePlace ==
    ASSUME NEW fd \in Fd, NEW other \in Fd,
           PageOf(fd) = PageOf(other), fd % PerPage = other % PerPage
    PROVE  fd = other
  BY PageAndPlace

\* The pages that kmalloc() gives are pages that nobody has.
LEMMA PageIsNew ==
    ASSUME NEW given, Table \ given # {}
    PROVE  kmalloc(given) \in Table /\ kmalloc(given) \notin given /\ kmalloc(given) # NoPage
<1>1. \E p \in Table \ given : TRUE
  OBVIOUS
<1>2. kmalloc(given) \in Table \ given
  BY <1>1 DEF kmalloc
<1> QED BY <1>2, FileAssumption

\* A place that a program uses is one of the table.
LEMMA PlaceOfFd ==
    ASSUME ShapesInv, PagesInv, NEW t \in Task, Runs(t), NEW fd \in Usable, PageOf(fd) < PagesOf(t)
    PROVE  /\ fd_pointers[t][PageOf(fd)] # NoPage
           /\ fd_pointers[t][PageOf(fd)] \in used
           /\ get_fd_address(t, fd) \in Place
           /\ get_fd_address(t, fd) = <<fd_pointers[t][PageOf(fd)], fd % PerPage>>
<1>1. fd \in Fd
  BY DEF Usable
<1>2. PageOf(fd) \in 0 .. Pages - 1 /\ fd % PerPage \in 0 .. PerPage - 1
  BY <1>1, PageAndPlace
<1>3. fd_pointers[t][PageOf(fd)] # NoPage /\ fd_pointers[t][PageOf(fd)] \in used
  BY <1>2 DEF PagesInv, PrefixOf, PagesOf
<1> QED BY <1>2, <1>3 DEF ShapesInv, Place, get_fd_address, PageOf

\* Two held descriptors are never at the same place, whoever holds them.
LEMMA PlacesAreApart ==
    ASSUME ShapesInv, PagesInv, PagesAreApart,
           NEW t \in Task, NEW u \in Task, Runs(t), Runs(u),
           NEW fd \in Usable, NEW other \in Usable,
           PageOf(fd) < PagesOf(t), PageOf(other) < PagesOf(u),
           get_fd_address(t, fd) = get_fd_address(u, other)
    PROVE  t = u /\ fd = other
<1>1. fd \in Fd /\ other \in Fd
  BY DEF Usable
<1>2. PageOf(fd) \in 0 .. Pages - 1 /\ PageOf(other) \in 0 .. Pages - 1
  BY <1>1, PageAndPlace
<1>3. /\ fd_pointers[t][PageOf(fd)] # NoPage
      /\ fd_pointers[t][PageOf(fd)] = fd_pointers[u][PageOf(other)]
      /\ fd % PerPage = other % PerPage
  BY PlaceOfFd
<1>4. t = u /\ PageOf(fd) = PageOf(other)
  BY <1>2, <1>3 DEF PagesAreApart
<1> QED BY <1>1, <1>3, <1>4, SamePlace

\* get_fd() finds a stream by its pointer.
LEMMA StreamIsFound ==
    ASSUME FilesInv, NEW t \in Task, Runs(t), NEW fd \in Usable, PageOf(fd) < PagesOf(t),
           slot[get_fd_address(t, fd)].d_dirp = get_fd_address(t, fd)
    PROVE  get_fd(t, get_fd_address(t, fd)) = fd
<1> DEFINE place == get_fd_address(t, fd)
           Match == {f \in Usable :
                        /\ f \div PerPage < fd_count[t] \div PerPage
                        /\ \A page \in 0 .. f \div PerPage : fd_pointers[t][page] # NoPage
                        /\ slot[get_fd_address(t, f)].d_dirp = place}
<1>1. ShapesInv /\ PagesInv /\ PagesAreApart /\ PointersAreOwn
  BY DEF FilesInv
<1>2. fd \in Match
  <2>1. fd \in Fd
    BY DEF Usable
  <2>2. PageOf(fd) \in 0 .. Pages - 1
    BY <2>1, PageAndPlace
  <2>3. \A page \in 0 .. fd \div PerPage : page \in 0 .. Pages - 1 /\ page < PagesOf(t)
    <3>1. PagesOf(t) \in 0 .. Pages /\ Pages \in Nat
      BY <1>1, FileAssumption DEF PagesInv, PrefixOf, PagesOf
    <3> QED BY <2>2, <3>1, SMT DEF PageOf
  <2>4. \A page \in 0 .. fd \div PerPage : fd_pointers[t][page] # NoPage
    BY <1>1, <2>3 DEF PagesInv, PrefixOf, PagesOf
  <2> QED BY <2>4 DEF PagesOf, PageOf
<1>3. ASSUME NEW f \in Match
      PROVE  f = fd
  <2>1. f \in Usable /\ PageOf(f) < PagesOf(t) /\ slot[get_fd_address(t, f)].d_dirp = place
    BY DEF PagesOf, PageOf
  <2>2. place \in Place /\ get_fd_address(t, f) \in Place
    BY <1>1, <2>1, PlaceOfFd
  <2>3. place # NoDir
    BY <2>2, FileAssumption DEF Place, NoDir, NoPage
  <2>4. get_fd_address(t, f) = place
    BY <1>1, <2>1, <2>2, <2>3 DEF PointersAreOwn
  <2> QED BY <1>1, <2>1, <2>4, PlacesAreApart
<1>4. Match = {fd}
  BY <1>2, <1>3
<1>5. fd <= fd
  BY SMT DEF Usable, Fd
<1>6. (CHOOSE f \in {fd} : \A other \in {fd} : f <= other) = fd
  BY <1>5
<1> QED BY <1>4, <1>6 DEF get_fd

-------------------------------------------------------------------------------
\* What is held is found as it was opened.
LEMMA HeldStays == FilesInv => DescriptorsStay
<1> SUFFICES ASSUME FilesInv, NEW t \in live, NEW fd \in Usable,
                    Holds(t, fd), opened[t][fd].name # Nameless
             PROVE  /\ slot[get_fd_address(t, fd)].name = opened[t][fd].name
                    /\ slot[get_fd_address(t, fd)].start = opened[t][fd].start
                    /\ opened[t][fd].stream => get_fd(t, get_fd_address(t, fd)) = fd
  BY DEF DescriptorsStay
<1>1. t \in Task /\ Runs(t) /\ Filled(t, fd)
  BY DEF FilesInv, ShapesInv, HeldInv, Holds
<1> QED BY <1>1, StreamIsFound DEF Filled

\* At the start only the shell is there, and has no page.
LEMMA FilesInit == Init => FilesInv
<1> SUFFICES ASSUME Init PROVE FilesInv
  OBVIOUS
<1>1. ShapesInv
  BY FileAssumption DEF Init, ShapesInv, EmptyPointers, NothingOpened, IsSlot, Free
<1>2. PagesInv
  <2>1. 0 \div PerPage = 0 /\ 0 = PerPage * 0 /\ Pages \in Nat
    BY FileAssumption, WholePages, SMT
  <2>2. \A t \in Task : fd_pointers[t] = EmptyPointers /\ fd_count[t] = 0
    BY DEF Init
  <2>3. PrefixOf(EmptyPointers, 0)
    BY <2>1, SMT DEF PrefixOf, EmptyPointers
  <2> QED BY <2>2, <2>3 DEF PagesInv
<1>3. PagesAreApart
  BY DEF Init, PagesAreApart, EmptyPointers
<1>4. PointersAreOwn
  BY DEF Init, PointersAreOwn, Free
<1>5. HeldInv
  BY DEF Init, HeldInv, NothingOpened
<1> QED BY <1>1, <1>2, <1>3, <1>4, <1>5 DEF FilesInv

-------------------------------------------------------------------------------
\* Steps after which the same programs, or fewer, have the pages they had.
LEMMA FewerPrograms ==
    ASSUME FilesInv, ShapesInv', slot' = slot, used' = used,
           \A v \in Task : Runs(v)' => /\ Runs(v)
                                       /\ fd_pointers'[v] = fd_pointers[v]
                                       /\ fd_count'[v] = fd_count[v]
                                       /\ opened'[v] = opened[v],
           \A v \in Task : ~Runs(v)' => \A fd \in Usable : opened'[v][fd] = Nothing
    PROVE  FilesInv'
<1>1. PagesInv'
  BY DEF FilesInv, PagesInv, PrefixOf
<1>2. PagesAreApart'
  BY DEF FilesInv, PagesAreApart
<1>3. PointersAreOwn'
  BY DEF FilesInv, PointersAreOwn
<1>4. HeldInv'
  <2> SUFFICES ASSUME NEW v \in Task, NEW fd \in Usable, opened'[v][fd] # Nothing
               PROVE  Runs(v)' /\ Filled(v, fd)'
    BY DEF HeldInv
  <2>1. Runs(v)'
    OBVIOUS
  <2>2. Filled(v, fd)
    BY <2>1 DEF FilesInv, HeldInv
  <2> QED BY <2>1, <2>2 DEF Filled, PagesOf, get_fd_address
<1> QED BY <1>1, <1>2, <1>3, <1>4 DEF FilesInv

\* Steps that only move on in a file or a directory.
LEMMA SlotsMoveOn ==
    ASSUME FilesInv, UNCHANGED <<live, forked, fd_pointers, fd_count, used, opened>>,
           slot' = [p \in Place |-> slot'[p]],
           \A p \in Place : /\ IsSlot(slot'[p])
                            /\ slot'[p].name = slot[p].name
                            /\ slot'[p].start = slot[p].start
                            /\ slot'[p].d_dirp = slot[p].d_dirp
    PROVE  FilesInv'
<1>1. ShapesInv'
  BY DEF FilesInv, ShapesInv
<1>2. PagesInv'
  BY DEF FilesInv, PagesInv, PrefixOf, Runs
<1>3. PagesAreApart'
  BY DEF FilesInv, PagesAreApart, Runs
<1>4. PointersAreOwn'
  BY DEF FilesInv, PointersAreOwn
<1>5. HeldInv'
  <2> SUFFICES ASSUME NEW v \in Task, NEW fd \in Usable, opened'[v][fd] # Nothing
               PROVE  Runs(v)' /\ Filled(v, fd)'
    BY DEF HeldInv
  <2>1. Runs(v) /\ Filled(v, fd)
    BY DEF FilesInv, HeldInv
  <2>2. get_fd_address(v, fd) \in Place /\ get_fd_address(v, fd)' = get_fd_address(v, fd)
    BY <2>1, PlaceOfFd DEF FilesInv, Filled, get_fd_address
  <2> QED BY <2>1, <2>2 DEF Filled, PagesOf, Runs
<1> QED BY <1>1, <1>2, <1>3, <1>4, <1>5 DEF FilesInv

\* An update of one field leaves the others.
LEMMA OneSlot ==
    ASSUME ShapesInv, NEW place \in Place, NEW s, IsSlot(s),
           slot' = [slot EXCEPT ![place] = s]
    PROVE  /\ slot' = [p \in Place |-> slot'[p]] /\ \A p \in Place : IsSlot(slot'[p])
           /\ slot'[place] = s
           /\ \A p \in Place : p # place => slot'[p] = slot[p]
  BY DEF ShapesInv

\* A read and readdir() change a descriptor's offset, and nothing else of it.
LEMMA Offsets ==
    ASSUME NEW s, IsSlot(s), NEW x
    PROVE  /\ IsSlot([s EXCEPT !.offset = x])
           /\ [s EXCEPT !.offset = x].name = s.name
           /\ [s EXCEPT !.offset = x].start = s.start
           /\ [s EXCEPT !.offset = x].d_dirp = s.d_dirp
  BY DEF IsSlot

\* The last name that readdir() returned is not part of what was opened.
LEMMA LastNames ==
    ASSUME NEW s, IsSlot(s), NEW x
    PROVE  /\ IsSlot([s EXCEPT !.d_prev_dir = x])
           /\ [s EXCEPT !.d_prev_dir = x].name = s.name
           /\ [s EXCEPT !.d_prev_dir = x].start = s.start
           /\ [s EXCEPT !.d_prev_dir = x].d_dirp = s.d_dirp
  BY DEF IsSlot

\* A close empties the name and leaves the pointer.
LEMMA Names ==
    ASSUME NEW s, IsSlot(s), NEW x
    PROVE  /\ IsSlot([s EXCEPT !.name = x])
           /\ [s EXCEPT !.name = x].d_dirp = s.d_dirp
  BY DEF IsSlot

\* read() moves an offset.
LEMMA StepRead ==
    ASSUME FilesInv, NEW t \in Task, NEW fd \in Usable, NEW count, readFile(t, fd, count)
    PROVE  FilesInv'
<1> DEFINE place == get_fd_address(t, fd)
           x == slot[place].offset + memread(slot[place].offset, count)
           s == [slot[place] EXCEPT !.offset = x]
<1>1. Runs(t) /\ PageOf(fd) < PagesOf(t)
  BY DEF readFile, Holds, FilesInv, HeldInv, Filled
<1>2. place \in Place /\ ShapesInv
  BY <1>1, PlaceOfFd DEF FilesInv
<1>3. IsSlot(slot[place])
  BY <1>2 DEF ShapesInv
<1>4. slot' = [slot EXCEPT ![place] = s]
  BY DEF readFile
<1>5. IsSlot(s) /\ s.name = slot[place].name /\ s.start = slot[place].start
      /\ s.d_dirp = slot[place].d_dirp
  BY <1>3, Offsets
<1> HIDE DEF s, place
<1>6. /\ slot' = [p \in Place |-> slot'[p]]
      /\ \A p \in Place : IsSlot(slot'[p]) /\ (p # place => slot'[p] = slot[p])
      /\ slot'[place] = s
  BY <1>2, <1>4, <1>5, OneSlot
<1>7. UNCHANGED <<live, forked, fd_pointers, fd_count, used, opened>>
  BY DEF readFile
<1> QED BY <1>5, <1>6, <1>7, SlotsMoveOn

\* The descriptor that readdir() and closedir() find is that of the stream.
LEMMA FoundAgain ==
    ASSUME FilesInv, NEW t \in Task, NEW fd \in Usable, Holds(t, fd), opened[t][fd].stream
    PROVE  /\ Runs(t) /\ PageOf(fd) < PagesOf(t)
           /\ get_fd(t, get_fd_address(t, fd)) = fd
           /\ get_fd_address(t, fd) \in Place
<1>1. Runs(t) /\ Filled(t, fd)
  BY DEF Holds, FilesInv, HeldInv
<1> QED BY <1>1, StreamIsFound, PlaceOfFd DEF Filled, FilesInv

\* readdir() finds the stream by its pointer, and moves it on.
LEMMA StepReadDir ==
    ASSUME FilesInv, NEW t \in Task, NEW fd \in Usable, readDir(t, fd)
    PROVE  FilesInv'
<1> DEFINE place == get_fd_address(t, fd)
           n == FirstOf(NextEntries(slot[place]))
           x == Entry(slot[place], n)
           y == IF slot[place].name = Root THEN Address[n + 1] ELSE Address[n]
           r == [slot[place] EXCEPT !.d_prev_dir = x]
           s == [r EXCEPT !.offset = y]
<1>1. place \in Place /\ ShapesInv /\ get_fd(t, place) = fd
  BY FoundAgain DEF readDir, FilesInv
<1>2. IsSlot(slot[place])
  BY <1>1 DEF ShapesInv
<1>3. slot' = [slot EXCEPT ![place].d_prev_dir = x, ![place].offset = y]
  BY <1>1 DEF readDir
<1> HIDE DEF x, y
<1>4. slot' = [slot EXCEPT ![place] = s]
  BY <1>1, <1>2, <1>3 DEF IsSlot, ShapesInv
<1>5. IsSlot(r) /\ r.name = slot[place].name /\ r.start = slot[place].start
      /\ r.d_dirp = slot[place].d_dirp
  BY <1>2, LastNames
<1> HIDE DEF r
<1>6. IsSlot(s) /\ s.name = slot[place].name /\ s.start = slot[place].start
      /\ s.d_dirp = slot[place].d_dirp
  BY <1>5, Offsets
<1> HIDE DEF s, place
<1>7. /\ slot' = [p \in Place |-> slot'[p]]
      /\ \A p \in Place : IsSlot(slot'[p]) /\ (p # place => slot'[p] = slot[p])
      /\ slot'[place] = s
  BY <1>1, <1>4, <1>6, OneSlot
<1>8. UNCHANGED <<live, forked, fd_pointers, fd_count, used, opened>>
  BY DEF readDir
<1> QED BY <1>6, <1>7, <1>8, SlotsMoveOn

\* close() and closedir() free the descriptor they are given and no other.
LEMMA StepRelease ==
    ASSUME FilesInv, NEW t \in Task, NEW fd \in Usable, Runs(t), PageOf(fd) < PagesOf(t),
           Release(t, fd, get_fd_address(t, fd))
    PROVE  FilesInv'
<1> DEFINE place == get_fd_address(t, fd)
           s == [slot[place] EXCEPT !.name = Nameless]
<1>1. place \in Place /\ ShapesInv
  BY PlaceOfFd DEF FilesInv
<1>2. IsSlot(slot[place])
  BY <1>1 DEF ShapesInv
<1>3. /\ slot' = [slot EXCEPT ![place] = s]
      /\ opened' = [opened EXCEPT ![t][fd] = Nothing]
      /\ UNCHANGED <<live, forked, fd_pointers, fd_count, used>>
  BY DEF Release
<1>4. IsSlot(s) /\ s.d_dirp = slot[place].d_dirp
  BY <1>2, Names
<1> HIDE DEF s
<1>5. /\ slot' = [p \in Place |-> slot'[p]]
      /\ \A p \in Place : IsSlot(slot'[p]) /\ (p # place => slot'[p] = slot[p])
      /\ slot'[place] = s
  BY <1>1, <1>3, <1>4, OneSlot
<1>6. \A v \in Task, other \in Usable :
        opened'[v][other] = IF v = t /\ other = fd THEN Nothing ELSE opened[v][other]
  BY <1>1, <1>3 DEF ShapesInv
<1>7. ShapesInv'
  <2>1. opened' = [v \in Task |-> [other \in Usable |-> opened'[v][other]]]
    BY <1>1, <1>3 DEF ShapesInv
  <2> QED BY <1>1, <1>3, <1>5, <2>1 DEF ShapesInv
<1>8. PagesInv' /\ PagesAreApart'
  BY <1>3 DEF FilesInv, PagesInv, PrefixOf, PagesAreApart, Runs
<1>9. PointersAreOwn'
  BY <1>4, <1>5 DEF FilesInv, PointersAreOwn
<1>10. HeldInv'
  <2> SUFFICES ASSUME NEW v \in Task, NEW other \in Usable, opened'[v][other] # Nothing
               PROVE  Runs(v)' /\ Filled(v, other)'
    BY DEF HeldInv
  <2>1. opened'[v][other] = opened[v][other] /\ ~(v = t /\ other = fd)
    BY <1>6
  <2>2. Runs(v) /\ Filled(v, other)
    BY <2>1 DEF FilesInv, HeldInv
  <2>3. get_fd_address(v, other) # place
    BY <1>1, <2>1, <2>2, PlacesAreApart DEF FilesInv, Filled
  <2>4. get_fd_address(v, other) \in Place
    BY <2>2, PlaceOfFd DEF FilesInv, Filled
  <2>5. get_fd_address(v, other)' = get_fd_address(v, other)
    BY <1>3 DEF get_fd_address
  <2>6. slot'[get_fd_address(v, other)] = slot[get_fd_address(v, other)]
    BY <1>5, <2>3, <2>4
  <2> QED BY <1>3, <2>1, <2>2, <2>5, <2>6 DEF Filled, PagesOf, Runs
<1> QED BY <1>7, <1>8, <1>9, <1>10 DEF FilesInv

\* close() and closedir() free the descriptor that the program names.
LEMMA StepClose ==
    ASSUME FilesInv, NEW t \in Task, NEW fd \in Usable, closeFile(t, fd) \/ closeDir(t, fd)
    PROVE  FilesInv'
<1>1. CASE closeFile(t, fd)
  <2>1. Runs(t) /\ PageOf(fd) < PagesOf(t)
    BY <1>1 DEF closeFile, Holds, FilesInv, HeldInv, Filled
  <2> QED BY <1>1, <2>1, StepRelease DEF closeFile
<1>2. CASE closeDir(t, fd)
  <2>1. Runs(t) /\ PageOf(fd) < PagesOf(t) /\ get_fd(t, get_fd_address(t, fd)) = fd
    BY <1>2, FoundAgain DEF closeDir
  <2> QED BY <1>2, <2>1, StepRelease DEF closeDir
<1> QED BY <1>1, <1>2

-------------------------------------------------------------------------------
FirstFree(t) == CHOOSE f \in FreeFds(t) : \A other \in FreeFds(t) : f <= other

\* What openFile() fills is free, and a page that it adds is the next one.
LEMMA FirstFreeFd ==
    ASSUME NEW t \in Task, FreeFds(t) # {}
    PROVE  FirstFree(t) \in FreeFds(t) /\ \A other \in FreeFds(t) : FirstFree(t) <= other
<1>1. FreeFds(t) \in SUBSET Nat
  BY SMT DEF FreeFds, Usable, Fd
<1>2. \E f \in FreeFds(t) : \A other \in FreeFds(t) : f <= other
  BY <1>1, LeastNumber
<1> QED BY <1>2 DEF FirstFree

\* A page that is not there yet is the one behind those that fd_count covers.
LEMMA NewPageIsNext ==
    ASSUME FilesInv, NEW t \in Task, Runs(t), FreeFds(t) # {},
           fd_pointers[t][PageOf(FirstFree(t))] = NoPage
    PROVE  PageOf(FirstFree(t)) = PagesOf(t)
<1> DEFINE fd == FirstFree(t)
           n == PagesOf(t)
           other == PerPage * n + (PerPage - 1)
<1>1. fd \in Fd /\ \A f \in FreeFds(t) : fd <= f
  BY FirstFreeFd DEF FreeFds, Usable
<1>2. PageOf(fd) \in 0 .. Pages - 1 /\ fd = PerPage * PageOf(fd) + (fd % PerPage)
      /\ fd % PerPage \in 0 .. PerPage - 1
  BY <1>1, PageAndPlace
<1>3. PerPage \in Nat \ {0} /\ Pages \in Nat \ {0} /\ LastReserved \in Nat /\ LastReserved < PerPage - 1
  BY FileAssumption
<1>4. PrefixOf(fd_pointers[t], fd_count[t])
  BY DEF FilesInv, PagesInv
<1>5. n \in 0 .. Pages /\ ~(PageOf(fd) < n)
  BY <1>2, <1>4 DEF PrefixOf, PagesOf
<1> HIDE DEF fd, n
<1>6. n \in 0 .. Pages - 1 /\ n <= PageOf(fd)
  BY <1>2, <1>3, <1>5, SMT
<1>7. fd_pointers[t][n] = NoPage
  BY <1>4, <1>6, SMT DEF PrefixOf, PagesOf, n
<1>8. PerPage - 1 \in 0 .. PerPage - 1
  BY <1>3, SMT
<1>9. other \in Fd /\ other \div PerPage = n
  BY <1>6, <1>8, DescriptorOf
<1>10. other > LastReserved
  <2>1. PerPage * n >= 0
    BY <1>3, <1>6, SMT
  <2> QED BY <1>3, <1>6, <2>1, SMT
<1>11. other \in FreeFds(t)
  BY <1>7, <1>9, <1>10 DEF FreeFds, Usable
<1>12. fd <= other
  BY <1>1, <1>11
<1>13. ~(PageOf(fd) >= n + 1)
  <2> SUFFICES ASSUME PageOf(fd) >= n + 1 PROVE FALSE
    OBVIOUS
  <2>1. PerPage * PageOf(fd) >= PerPage * (n + 1)
    BY <1>2, <1>3, <1>6, SMT
  <2> QED BY <1>2, <1>3, <1>6, <1>12, <2>1, SMT
<1>14. PageOf(fd) = n
  BY <1>2, <1>6, <1>13, SMT
<1> QED BY <1>14 DEF fd, n

\* open() and opendir() take a descriptor that is not held, on a page of the
\* program or on one that nobody has.
LEMMA StepFill ==
    ASSUME FilesInv, NEW t \in Task, Runs(t), NEW name, NEW start, NEW stream \in BOOLEAN,
           Fill(t, name, start, stream)
    PROVE  FilesInv'
<1> DEFINE fd == FirstFree(t)
           page == PageOf(fd)
           new == fd_pointers[t][page] = NoPage
           table == IF new THEN kmalloc(used) ELSE fd_pointers[t][page]
           place == <<table, fd % PerPage>>
           filled == [name |-> name, start |-> start, offset |-> start, d_prev_dir |-> Nameless,
                      d_dirp |-> IF stream THEN place ELSE NoDir]
           what == [name |-> name, start |-> start, stream |-> stream]
<1>1. ShapesInv /\ PagesInv /\ PagesAreApart /\ PointersAreOwn /\ HeldInv
  BY DEF FilesInv
<1>2. FreeFds(t) # {}
  BY DEF Fill
<1>3. /\ new => Table \ used # {}
      /\ fd_pointers' = [fd_pointers EXCEPT ![t][page] = table]
      /\ fd_count' = [fd_count EXCEPT ![t] = Counted(t, new)]
      /\ used' = used \cup {table}
      /\ slot' = [slot EXCEPT ![place] = filled]
      /\ opened' = [opened EXCEPT ![t][fd] = what]
      /\ UNCHANGED <<live, forked>>
  BY DEF Fill, FirstFree, PageOf
<1>4. fd \in Usable /\ fd \in Fd
  BY <1>2, FirstFreeFd DEF FreeFds, Usable
<1>5. page \in 0 .. Pages - 1 /\ fd % PerPage \in 0 .. PerPage - 1
  BY <1>4, PageAndPlace
<1>6. PrefixOf(fd_pointers[t], fd_count[t])
  BY <1>1 DEF PagesInv
<1>7. new => page = PagesOf(t)
  BY <1>2, NewPageIsNext
<1>8. ~new => page < PagesOf(t)
  BY <1>5, <1>6 DEF PrefixOf, PagesOf
<1>9. new => table \in Table /\ table \notin used
  BY <1>3, PageIsNew
<1>10. ~new => table = fd_pointers[t][page] /\ table \in used
  BY <1>5, <1>6 DEF PrefixOf
<1>11. table \in Table /\ table # NoPage
  BY <1>1, <1>9, <1>10, FileAssumption DEF ShapesInv
<1>12. place \in Place
  BY <1>5, <1>11 DEF Place
<1>13. IsSlot(filled) /\ filled.d_dirp \in {place, NoDir}
       /\ filled.d_dirp = (IF stream THEN place ELSE NoDir) /\ filled.name = name /\ filled.start = start
  BY DEF IsSlot
<1>14. what.name = name /\ what.start = start /\ what.stream = stream
  OBVIOUS
<1> HIDE DEF fd, new, filled, what
<1>15. /\ slot' = [p \in Place |-> slot'[p]]
       /\ \A p \in Place : IsSlot(slot'[p]) /\ (p # place => slot'[p] = slot[p])
       /\ slot'[place] = filled
  BY <1>1, <1>3, <1>12, <1>13, OneSlot
<1>16. /\ fd_pointers' \in [Task -> [0 .. Pages - 1 -> Table \cup {NoPage}]]
       /\ fd_pointers'[t] = [fd_pointers[t] EXCEPT ![page] = table]
       /\ fd_pointers'[t][page] = table
       /\ \A q \in 0 .. Pages - 1 : q # page => fd_pointers'[t][q] = fd_pointers[t][q]
       /\ \A u \in Task : u # t => fd_pointers'[u] = fd_pointers[u]
  <2>1. /\ fd_pointers \in [Task -> [0 .. Pages - 1 -> Table \cup {NoPage}]]
        /\ fd_pointers' = [fd_pointers EXCEPT ![t][page] = table]
    BY <1>1, <1>3 DEF ShapesInv
  <2> HIDE DEF table, page
  <2> QED BY <1>5, <1>11, <2>1
<1> HIDE DEF table, page
<1>17. \A u \in Task, f \in Usable :
         opened'[u][f] = IF u = t /\ f = fd THEN what ELSE opened[u][f]
  BY <1>1, <1>3 DEF ShapesInv
<1>18. /\ fd_count' \in [Task -> Nat]
       /\ \A u \in Task : u # t => fd_count'[u] = fd_count[u]
       /\ fd_count'[t] = IF new THEN fd_count[t] + PerPage ELSE fd_count[t]
  BY <1>1, <1>3, FileAssumption DEF ShapesInv, Counted
<1>19. ShapesInv'
  <2>1. opened' = [u \in Task |-> [f \in Usable |-> opened'[u][f]]]
    BY <1>1, <1>3 DEF ShapesInv
  <2> QED BY <1>1, <1>3, <1>11, <1>15, <1>16, <1>18, <2>1 DEF ShapesInv
<1>20. fd_count'[t] \div PerPage = (IF new THEN PagesOf(t) + 1 ELSE PagesOf(t))
       /\ fd_count'[t] = PerPage * (fd_count'[t] \div PerPage)
  <2>1. PagesOf(t) \in Nat /\ fd_count[t] = PerPage * PagesOf(t) /\ PerPage \in Nat
    BY <1>6, FileAssumption, SMT DEF PrefixOf, PagesOf
  <2>2. CASE new
    <3>1. fd_count'[t] = PerPage * (PagesOf(t) + 1)
      BY <1>18, <2>1, <2>2, SMT
    <3>2. PagesOf(t) + 1 \in Nat
      BY <2>1, SMT
    <3> QED BY <2>2, <3>1, <3>2, WholePages
  <2>3. CASE ~new
    BY <1>18, <2>1, <2>3 DEF PagesOf
  <2> QED BY <2>2, <2>3
<1>21. \A u \in Task : Runs(u)' <=> Runs(u)
  BY <1>3 DEF Runs
<1>22. PagesInv'
  <2> SUFFICES ASSUME NEW u \in Task, Runs(u)
               PROVE  PrefixOf(fd_pointers[u], fd_count[u])'
    BY <1>21 DEF PagesInv
  <2>1. CASE u # t
    BY <1>1, <1>3, <1>16, <1>18, <2>1 DEF PagesInv, PrefixOf
  <2>2. CASE u = t
    <3> DEFINE n == fd_count'[t] \div PerPage
    <3>1. n = IF new THEN PagesOf(t) + 1 ELSE PagesOf(t)
      BY <1>20
    <3>2. /\ PagesOf(t) \in 0 .. Pages /\ Pages \in Nat
          /\ \A q \in 0 .. Pages - 1 : /\ fd_pointers[t][q] \in used \cup {NoPage}
                                       /\ fd_pointers[t][q] # NoPage <=> q < PagesOf(t)
      BY <1>6, FileAssumption DEF PrefixOf, PagesOf
    <3> HIDE DEF n
    <3>3. n \in 0 .. Pages
      BY <1>5, <1>7, <3>1, <3>2, SMT
    <3>4. ASSUME NEW q \in 0 .. Pages - 1
          PROVE  /\ fd_pointers'[t][q] \in used' \cup {NoPage}
                 /\ fd_pointers'[t][q] # NoPage <=> q < n
      <4>1. CASE q = page
        <5>1. q < n
          BY <1>5, <1>7, <1>8, <3>1, <3>2, <4>1, SMT
        <5> QED BY <1>3, <1>11, <1>16, <4>1, <5>1
      <4>2. CASE q # page
        <5>1. q < n <=> q < PagesOf(t)
          BY <1>5, <1>7, <3>1, <3>2, <4>2, SMT
        <5> QED BY <1>3, <1>16, <3>2, <4>2, <5>1
      <4> QED BY <4>1, <4>2
    <3>5. fd_count'[t] = PerPage * n
      BY <1>20 DEF n
    <3> QED BY <2>2, <3>3, <3>4, <3>5 DEF PrefixOf, n
  <2> QED BY <2>1, <2>2
<1>23. PagesAreApart'
  <2> SUFFICES ASSUME NEW u \in Task, NEW v \in Task,
                      NEW p \in 0 .. Pages - 1, NEW q \in 0 .. Pages - 1,
                      Runs(u), Runs(v), fd_pointers'[u][p] # NoPage,
                      fd_pointers'[u][p] = fd_pointers'[v][q]
               PROVE  u = v /\ p = q
    BY <1>21 DEF PagesAreApart
  <2>1. CASE ~new
    <3>1. fd_pointers'[u][p] = fd_pointers[u][p] /\ fd_pointers'[v][q] = fd_pointers[v][q]
      BY <1>10, <1>16, <2>1
    <3> QED BY <1>1, <3>1 DEF PagesAreApart
  <2>2. CASE new
    <3>1. fd_pointers[u][p] \in used \cup {NoPage} /\ fd_pointers[v][q] \in used \cup {NoPage}
      BY <1>1 DEF PagesInv, PrefixOf
    <3>2. /\ (u = t /\ p = page) \/ fd_pointers'[u][p] = fd_pointers[u][p]
          /\ (v = t /\ q = page) \/ fd_pointers'[v][q] = fd_pointers[v][q]
      BY <1>16
    <3>3. CASE u = t /\ p = page
      BY <1>9, <1>11, <1>16, <2>2, <3>1, <3>2, <3>3
    <3>4. CASE v = t /\ q = page
      BY <1>9, <1>11, <1>16, <2>2, <3>1, <3>2, <3>4
    <3>5. CASE fd_pointers'[u][p] = fd_pointers[u][p] /\ fd_pointers'[v][q] = fd_pointers[v][q]
      BY <1>1, <3>5 DEF PagesAreApart
    <3> QED BY <3>2, <3>3, <3>4, <3>5
  <2> QED BY <2>1, <2>2
<1>24. PointersAreOwn'
  BY <1>1, <1>13, <1>15 DEF PointersAreOwn
<1>25. HeldInv'
  <2> SUFFICES ASSUME NEW u \in Task, NEW f \in Usable, opened'[u][f] # Nothing
               PROVE  Runs(u)' /\ Filled(u, f)'
    BY DEF HeldInv
  <2>1. CASE u = t /\ f = fd
    <3>1. page = PageOf(f) /\ place = <<table, f % PerPage>>
      BY <2>1 DEF page
    <3>2. get_fd_address(u, f)' = place
      BY <1>16, <2>1, <3>1 DEF get_fd_address, PageOf
    <3>3. opened'[u][f] = what
      BY <1>17, <2>1
    <3>4. PageOf(f) < fd_count'[u] \div PerPage
      <4>1. PagesOf(t) \in Nat
        BY <1>6, FileAssumption, SMT DEF PrefixOf, PagesOf
      <4>2. page \in Nat /\ page < fd_count'[t] \div PerPage
        BY <1>5, <1>7, <1>8, <1>20, <4>1, SMT
      <4> QED BY <2>1, <3>1, <4>2
    <3>5. Runs(u)'
      BY <1>21, <2>1
    <3>6. /\ slot'[place].name = name /\ slot'[place].start = start
          /\ stream => slot'[place].d_dirp = place
          /\ ~stream => slot'[place].d_dirp = NoDir
      BY <1>13, <1>15
    <3>7. Filled(u, f)'
      BY <1>14, <3>2, <3>3, <3>4, <3>6 DEF Filled, PagesOf
    <3> QED BY <3>5, <3>7
  <2>2. CASE ~(u = t /\ f = fd)
    <3>1. opened'[u][f] = opened[u][f] /\ Runs(u) /\ Filled(u, f)
      BY <1>1, <1>17, <2>2 DEF HeldInv
    <3>2. /\ get_fd_address(u, f) \in Place /\ fd_pointers[u][PageOf(f)] # NoPage
          /\ fd_pointers[u][PageOf(f)] \in used
          /\ get_fd_address(u, f) = <<fd_pointers[u][PageOf(f)], f % PerPage>>
      BY <1>1, <3>1, PlaceOfFd DEF Filled
    <3>3. PageOf(f) \in 0 .. Pages - 1
      <4>1. f \in Fd
        BY DEF Usable
      <4> QED BY <4>1, PageAndPlace
    <3>4. get_fd_address(u, f) # place
      <4>1. CASE new
        BY <1>9, <3>2, <4>1
      <4>2. CASE ~new
        <5>1. place = get_fd_address(t, fd) /\ PageOf(fd) < PagesOf(t)
          BY <1>8, <1>10, <4>2 DEF get_fd_address, PageOf, page
        <5> QED BY <1>1, <1>4, <2>2, <3>1, <5>1, PlacesAreApart DEF Filled
      <4> QED BY <4>1, <4>2
    <3>5. fd_pointers'[u][PageOf(f)] = fd_pointers[u][PageOf(f)]
      <4>1. CASE u = t /\ PageOf(f) = page
        <5>1. ~new
          BY <3>2, <4>1 DEF new
        <5> QED BY <1>10, <1>16, <4>1, <5>1
      <4> QED BY <1>16, <3>3, <4>1
    <3>6. get_fd_address(u, f)' = get_fd_address(u, f)
      BY <3>2, <3>5 DEF get_fd_address, PageOf
    <3>7. slot'[get_fd_address(u, f)] = slot[get_fd_address(u, f)]
      BY <1>15, <3>2, <3>4
    <3>8. PageOf(f) < PagesOf(u) => PageOf(f) < fd_count'[u] \div PerPage
      <4>1. CASE u # t
        BY <1>18, <4>1 DEF PagesOf
      <4>2. CASE u = t
        <5>1. PagesOf(t) \in Nat /\ PageOf(f) \in Nat
          BY <1>6, <3>3, FileAssumption, SMT DEF PrefixOf, PagesOf
        <5> QED BY <1>20, <4>2, <5>1, SMT
      <4> QED BY <4>1, <4>2
    <3> QED BY <1>21, <3>1, <3>6, <3>7, <3>8 DEF Filled, PagesOf
  <2> QED BY <2>1, <2>2
<1> QED BY <1>19, <1>22, <1>23, <1>24, <1>25 DEF FilesInv

\* open() and opendir() fill a free descriptor.
LEMMA StepOpen ==
    ASSUME FilesInv, NEW t \in Task, NEW path, openFile(t, path) \/ openDirectory(t, path)
    PROVE  FilesInv'
<1>1. CASE openFile(t, path)
  <2>1. Runs(t) /\ Fill(t, FileFound[cwd[t]][path][1], FileFound[cwd[t]][path][2], FALSE)
    BY <1>1 DEF openFile
  <2> QED BY <2>1, StepFill
<1>2. CASE openDirectory(t, path)
  <2>1. Runs(t) /\ Fill(t, DirectoryFound[cwd[t]][path][1], DirectoryFound[cwd[t]][path][2], TRUE)
    BY <1>2 DEF openDirectory
  <2> QED BY <2>1, StepFill
<1> QED BY <1>1, <1>2

-------------------------------------------------------------------------------
\* A program that does not run holds nothing.
LEMMA OthersHoldNothing ==
    ASSUME FilesInv, NEW v \in Task, ~Runs(v), NEW fd \in Usable
    PROVE  opened[v][fd] = Nothing
  BY DEF FilesInv, HeldInv

\* A child points to the pages of the shell, and makes no calls.
LEMMA StepFork ==
    ASSUME FilesInv, NEW t \in Task, fork(t)
    PROVE  FilesInv'
<1>1. PICK child \in Task \ live :
        /\ live' = live \cup {child}
        /\ forked' = forked \cup {child}
        /\ fd_pointers' = [fd_pointers EXCEPT ![child] = fd_pointers[t]]
        /\ fd_count' = [fd_count EXCEPT ![child] = fd_count[t]]
  BY DEF fork
<1>2. UNCHANGED <<slot, used, opened>>
  BY DEF fork
<1>3. ShapesInv'
  BY <1>1, <1>2 DEF FilesInv, ShapesInv
<1>4. ASSUME NEW v \in Task, Runs(v)'
      PROVE  Runs(v) /\ fd_pointers'[v] = fd_pointers[v] /\ fd_count'[v] = fd_count[v]
             /\ opened'[v] = opened[v]
  BY <1>1, <1>2, <1>4 DEF Runs, FilesInv, ShapesInv
<1>5. ASSUME NEW v \in Task, ~Runs(v)', NEW fd \in Usable
      PROVE  opened'[v][fd] = Nothing
  <2>1. ~Runs(v)
    BY <1>1, <1>5 DEF Runs
  <2> QED BY <1>2, <2>1, OthersHoldNothing
<1> QED BY <1>2, <1>3, <1>4, <1>5, FewerPrograms

\* A program that ends drops its pointers to pages.
LEMMA StepTerminate ==
    ASSUME FilesInv, NEW t \in Task, Terminate(t)
    PROVE  FilesInv'
<1>1. /\ live' = live \ {t} /\ forked' = forked \ {t}
      /\ fd_pointers' = [fd_pointers EXCEPT ![t] = EmptyPointers]
      /\ fd_count' = [fd_count EXCEPT ![t] = 0]
      /\ opened' = [opened EXCEPT ![t] = NothingOpened]
      /\ UNCHANGED <<slot, used>>
  BY DEF Terminate
<1>2. ShapesInv'
  <2>1. EmptyPointers \in [0 .. Pages - 1 -> Table \cup {NoPage}]
    BY DEF EmptyPointers
  <2>2. opened' = [v \in Task |-> [fd \in Usable |-> opened'[v][fd]]]
    BY <1>1 DEF FilesInv, ShapesInv, NothingOpened
  <2>3. \A p \in Place : IsSlot(slot'[p])
    BY <1>1 DEF FilesInv, ShapesInv
  <2> QED BY <1>1, <2>1, <2>2, <2>3 DEF FilesInv, ShapesInv
<1>3. ASSUME NEW v \in Task, Runs(v)'
      PROVE  Runs(v) /\ fd_pointers'[v] = fd_pointers[v] /\ fd_count'[v] = fd_count[v]
             /\ opened'[v] = opened[v]
  BY <1>1, <1>3 DEF Runs, FilesInv, ShapesInv
<1>4. ASSUME NEW v \in Task, ~Runs(v)', NEW fd \in Usable
      PROVE  opened'[v][fd] = Nothing
  <2>1. CASE v = t
    BY <1>1, <2>1 DEF FilesInv, ShapesInv, NothingOpened
  <2>2. CASE v # t
    <3>1. ~Runs(v) /\ opened'[v] = opened[v]
      BY <1>1, <1>4, <2>2 DEF Runs, FilesInv, ShapesInv
    <3> QED BY <3>1, OthersHoldNothing
  <2> QED BY <2>1, <2>2
<1> QED BY <1>1, <1>2, <1>3, <1>4, FewerPrograms

\* The program that exec starts has one page, which nobody has.
LEMMA StepExec ==
    ASSUME FilesInv, NEW t \in Task, exec(t)
    PROVE  FilesInv'
<1> DEFINE table == kmalloc(used)
<1>1. t \in forked /\ table \in Table /\ table \notin used /\ table # NoPage
  BY PageIsNew DEF exec
<1>2. PICK task \in Task \ live :
        /\ live' = (live \ {t}) \cup {task}
        /\ forked' = forked \ {t}
        /\ fd_pointers' = [fd_pointers EXCEPT ![t] = EmptyPointers, ![task] = FirstPage(table)]
        /\ fd_count' = [fd_count EXCEPT ![t] = 0, ![task] = PerPage]
        /\ opened' = [opened EXCEPT ![t] = NothingOpened]
  BY DEF exec, FreshPage
<1>3. used' = used \cup {table} /\ slot' = slot
  BY DEF exec
<1> HIDE DEF table
<1>4. ShapesInv /\ PagesInv /\ PagesAreApart /\ PointersAreOwn /\ HeldInv
  BY DEF FilesInv
<1>5. t \in live /\ task # t /\ task \notin forked
  BY <1>1, <1>2, <1>4 DEF ShapesInv
<1>6. PerPage \in Nat \ {0} /\ Pages \in Nat \ {0}
  BY FileAssumption
<1>7. /\ FirstPage(table) \in [0 .. Pages - 1 -> Table \cup {NoPage}]
      /\ EmptyPointers \in [0 .. Pages - 1 -> Table \cup {NoPage}]
      /\ FirstPage(table)[0] = table
      /\ \A p \in 0 .. Pages - 1 : p # 0 => FirstPage(table)[p] = NoPage
  BY <1>1, <1>6, SMT DEF FirstPage, EmptyPointers
<1>8. /\ fd_pointers' \in [Task -> [0 .. Pages - 1 -> Table \cup {NoPage}]]
      /\ fd_pointers'[task] = FirstPage(table)
      /\ \A v \in Task : v # t /\ v # task => fd_pointers'[v] = fd_pointers[v]
  BY <1>2, <1>4, <1>5, <1>7 DEF ShapesInv
<1>9. /\ fd_count' \in [Task -> Nat]
      /\ fd_count'[task] = PerPage
      /\ \A v \in Task : v # t /\ v # task => fd_count'[v] = fd_count[v]
  BY <1>2, <1>4, <1>5, <1>6 DEF ShapesInv
<1>10. \A v \in Task, fd \in Usable :
         opened'[v][fd] = IF v = t THEN Nothing ELSE opened[v][fd]
  BY <1>2, <1>4 DEF ShapesInv, NothingOpened
<1>11. ShapesInv'
  <2>1. opened' = [v \in Task |-> [fd \in Usable |-> opened'[v][fd]]]
    BY <1>2, <1>4 DEF ShapesInv, NothingOpened
  <2>2. forked' \subseteq live' /\ live' \subseteq Task
    BY <1>2, <1>4 DEF ShapesInv
  <2>3. slot' = [p \in Place |-> slot'[p]] /\ \A p \in Place : IsSlot(slot'[p])
    BY <1>3, <1>4 DEF ShapesInv
  <2>4. used' \subseteq Table
    BY <1>1, <1>3, <1>4 DEF ShapesInv
  <2> QED BY <1>8, <1>9, <2>1, <2>2, <2>3, <2>4 DEF ShapesInv
<1>12. /\ ~Runs(t)' /\ Runs(task)' /\ ~Runs(task) /\ ~Runs(t)
       /\ \A v \in Task : v # task /\ Runs(v)' => Runs(v) /\ v # t
       /\ \A v \in Task : v # t /\ Runs(v) => Runs(v)'
  BY <1>1, <1>2, <1>5 DEF Runs
<1>13. PagesInv'
  <2> SUFFICES ASSUME NEW v \in Task, Runs(v)'
               PROVE  PrefixOf(fd_pointers[v], fd_count[v])'
    BY DEF PagesInv
  <2>1. CASE v = task
    <3>1. PerPage \div PerPage = 1 /\ PerPage = PerPage * (PerPage \div PerPage)
      <4>1. PerPage * 1 = PerPage /\ 1 \in Nat
        BY <1>6, SMT
      <4> QED BY <4>1, WholePages
    <3>2. 1 \in 0 .. Pages
      BY <1>6, SMT
    <3>3. ASSUME NEW p \in 0 .. Pages - 1
          PROVE  /\ FirstPage(table)[p] \in used' \cup {NoPage}
                 /\ FirstPage(table)[p] # NoPage <=> p < 1
      <4>1. p < 1 <=> p = 0
        BY SMT
      <4> QED BY <1>1, <1>3, <1>7, <4>1
    <3> QED BY <1>8, <1>9, <2>1, <3>1, <3>2, <3>3 DEF PrefixOf
  <2>2. CASE v # task
    <3>1. Runs(v) /\ v # t
      BY <1>12, <2>2
    <3> QED BY <1>3, <1>4, <1>8, <1>9, <2>2, <3>1 DEF PagesInv, PrefixOf
  <2> QED BY <2>1, <2>2
<1>14. PagesAreApart'
  <2> SUFFICES ASSUME NEW u \in Task, NEW v \in Task,
                      NEW p \in 0 .. Pages - 1, NEW q \in 0 .. Pages - 1,
                      Runs(u)', Runs(v)', fd_pointers'[u][p] # NoPage,
                      fd_pointers'[u][p] = fd_pointers'[v][q]
               PROVE  u = v /\ p = q
    BY DEF PagesAreApart
  <2>1. ASSUME NEW w \in Task, Runs(w)', w # task, NEW r \in 0 .. Pages - 1
        PROVE  Runs(w) /\ fd_pointers'[w] = fd_pointers[w] /\ fd_pointers[w][r] # table
    <3>1. Runs(w) /\ w # t
      BY <1>12, <2>1
    <3>2. fd_pointers[w][r] \in used \cup {NoPage}
      BY <1>4, <3>1 DEF PagesInv, PrefixOf
    <3> QED BY <1>1, <1>8, <2>1, <3>1, <3>2
  <2>2. \A r \in 0 .. Pages - 1 : fd_pointers'[task][r] # NoPage => r = 0 /\ fd_pointers'[task][r] = table
    BY <1>7, <1>8
  <2>3. CASE u = task /\ v = task
    BY <2>2, <2>3
  <2>4. CASE u = task /\ v # task
    BY <2>1, <2>2, <2>4
  <2>5. CASE u # task /\ v = task
    BY <2>1, <2>2, <2>5
  <2>6. CASE u # task /\ v # task
    BY <1>4, <2>1, <2>6 DEF PagesAreApart
  <2> QED BY <2>3, <2>4, <2>5, <2>6
<1>15. PointersAreOwn'
  BY <1>3, <1>4 DEF PointersAreOwn
<1>16. HeldInv'
  <2> SUFFICES ASSUME NEW v \in Task, NEW fd \in Usable, opened'[v][fd] # Nothing
               PROVE  Runs(v)' /\ Filled(v, fd)'
    BY DEF HeldInv
  <2>1. v # t /\ opened'[v][fd] = opened[v][fd]
    BY <1>10
  <2>2. Runs(v) /\ Filled(v, fd)
    BY <1>4, <2>1 DEF HeldInv
  <2>3. v # task
    BY <1>12, <2>2
  <2>4. Runs(v)' /\ fd_pointers'[v] = fd_pointers[v] /\ fd_count'[v] = fd_count[v]
    BY <1>8, <1>9, <1>12, <2>1, <2>2, <2>3
  <2> QED BY <1>3, <2>1, <2>2, <2>4 DEF Filled, PagesOf, get_fd_address
<1> QED BY <1>11, <1>13, <1>14, <1>15, <1>16 DEF FilesInv

\* chdir() leaves the descriptors alone.
LEMMA SamePrograms ==
    ASSUME FilesInv, UNCHANGED <<live, forked, fd_pointers, fd_count, used, slot, opened>>
    PROVE  FilesInv'
<1>1. ShapesInv
  BY DEF FilesInv
<1>2. slot' = [p \in Place |-> slot'[p]] /\ \A p \in Place : IsSlot(slot'[p])
  BY <1>1 DEF ShapesInv
<1> QED BY <1>2, SlotsMoveOn

\* Every call keeps the invariant.
LEMMA FilesStep == FilesInv /\ [Next]_vars => FilesInv'
<1> SUFFICES ASSUME FilesInv, [Next]_vars PROVE FilesInv'
  OBVIOUS
<1>1. CASE UNCHANGED vars
  BY <1>1, SamePrograms DEF vars
<1>2. CASE Next
  <2>1. PICK t \in Task :
          \/ \E path \in OpenPaths : openFile(t, path)
          \/ \E path \in DirPaths : openDirectory(t, path)
          \/ \E path \in ChdirPaths : changeDirectory(t, path)
          \/ \E fd \in Usable :
              \/ \E count \in Counts : readFile(t, fd, count)
              \/ closeFile(t, fd)
              \/ readDir(t, fd)
              \/ closeDir(t, fd)
          \/ fork(t)
          \/ exec(t)
          \/ Terminate(t)
    BY <1>2, Zenon DEF Next
  <2>2. CASE \E path \in OpenPaths : openFile(t, path)
    BY <2>2, StepOpen
  <2>3. CASE \E path \in DirPaths : openDirectory(t, path)
    BY <2>3, StepOpen
  <2>4. CASE \E path \in ChdirPaths : changeDirectory(t, path)
    <3>1. UNCHANGED <<live, forked, fd_pointers, fd_count, used, slot, opened>>
      BY <2>4 DEF changeDirectory
    <3> QED BY <3>1, SamePrograms
  <2>5. CASE \E fd \in Usable, count \in Counts : readFile(t, fd, count)
    BY <2>5, StepRead
  <2>6. CASE \E fd \in Usable : closeFile(t, fd) \/ closeDir(t, fd)
    BY <2>6, StepClose
  <2>7. CASE \E fd \in Usable : readDir(t, fd)
    BY <2>7, StepReadDir
  <2>8. CASE fork(t)
    BY <2>8, StepFork
  <2>9. CASE exec(t)
    BY <2>9, StepExec
  <2>10. CASE Terminate(t)
    BY <2>10, StepTerminate
  <2> QED BY <2>1, <2>2, <2>3, <2>4, <2>5, <2>6, <2>7, <2>8, <2>9, <2>10, Zenon
<1> QED BY <1>1, <1>2

\* For any number of processes and pages, any archive and any paths: what a
\* program has opened and not closed stays what it opened, whatever its parent
\* and its children do, and a directory is found again by its pointer.
THEOREM OpenedStaysOpened == Spec => []DescriptorsStay
  BY FilesInit, FilesStep, HeldStays, PTL DEF Spec

\* For the same: open() and opendir() never give out a descriptor that the
\* program still holds, so that one changes hands only through its close.
THEOREM NoneTwice == Spec => NoneIsGivenTwice
<1> DEFINE Given == \A t \in Task, fd \in Usable :
        Holds(t, fd) /\ opened[t][fd].name # Nameless =>
            opened'[t][fd] \in {opened[t][fd], Nothing}
<1>1. FilesInv /\ [Next]_vars => [Given]_vars
  <2> SUFFICES ASSUME FilesInv, Next, NEW t \in Task, NEW fd \in Usable,
                      Holds(t, fd), opened[t][fd].name # Nameless
               PROVE  opened'[t][fd] \in {opened[t][fd], Nothing}
    OBVIOUS
  <2>1. opened = [u \in Task |-> [f \in Usable |-> opened[u][f]]]
    BY DEF FilesInv, ShapesInv
  <2>2. fd \notin FreeFds(t)
    <3>1. Runs(t) /\ Filled(t, fd)
      BY DEF Holds, FilesInv, HeldInv
    <3>2. slot[get_fd_address(t, fd)].name # Nameless
      BY <3>1 DEF Filled
    <3>3. fd_pointers[t][PageOf(fd)] # NoPage
      BY <3>1, PlaceOfFd DEF FilesInv, Filled
    <3> QED BY <3>2, <3>3 DEF FreeFds, PageOf
  <2>3. ASSUME NEW u \in Task, NEW name, NEW start, NEW stream, Fill(u, name, start, stream)
        PROVE  opened'[t][fd] = opened[t][fd]
    <3>1. FreeFds(u) # {} /\ opened' = [opened EXCEPT ![u][FirstFree(u)] =
                [name |-> name, start |-> start, stream |-> stream]]
      BY <2>3 DEF Fill, FirstFree
    <3>2. FirstFree(u) \in FreeFds(u)
      BY <3>1, FirstFreeFd
    <3> QED BY <2>1, <2>2, <3>1, <3>2
  <2>4. ASSUME NEW u \in Task, NEW f \in Usable, NEW place, Release(u, f, place)
        PROVE  opened'[t][fd] \in {opened[t][fd], Nothing}
    BY <2>1, <2>4 DEF Release
  <2>5. PICK u \in Task :
          \/ \E path \in OpenPaths : openFile(u, path)
          \/ \E path \in DirPaths : openDirectory(u, path)
          \/ \E path \in ChdirPaths : changeDirectory(u, path)
          \/ \E f \in Usable :
              \/ \E count \in Counts : readFile(u, f, count)
              \/ closeFile(u, f)
              \/ readDir(u, f)
              \/ closeDir(u, f)
          \/ fork(u)
          \/ exec(u)
          \/ Terminate(u)
    BY Zenon DEF Next
  <2>6. CASE \E path \in OpenPaths : openFile(u, path)
    <3>1. \E name, start : Fill(u, name, start, FALSE)
      BY <2>6 DEF openFile
    <3> QED BY <2>3, <3>1
  <2>7. CASE \E path \in DirPaths : openDirectory(u, path)
    <3>1. \E name, start : Fill(u, name, start, TRUE)
      BY <2>7 DEF openDirectory
    <3> QED BY <2>3, <3>1
  <2>8. CASE \E f \in Usable : closeFile(u, f) \/ closeDir(u, f)
    <3>1. \E f \in Usable : \E place : Release(u, f, place)
      BY <2>8 DEF closeFile, closeDir
    <3> QED BY <2>4, <3>1
  <2>9. CASE \/ \E path \in ChdirPaths : changeDirectory(u, path)
             \/ \E f \in Usable : readDir(u, f) \/ \E count \in Counts : readFile(u, f, count)
             \/ fork(u)
    BY <2>9 DEF changeDirectory, readDir, readFile, fork
  <2>10. CASE exec(u) \/ Terminate(u)
    <3>1. opened' = [opened EXCEPT ![u] = NothingOpened]
      BY <2>10 DEF exec, Terminate
    <3> QED BY <2>1, <3>1 DEF NothingOpened
  <2> QED BY <2>5, <2>6, <2>7, <2>8, <2>9, <2>10, Zenon
<1> QED BY FilesInit, FilesStep, <1>1, PTL DEF Spec, NoneIsGivenTwice

-------------------------------------------------------------------------------
\* Induction up to a number, over a set.
LEMMA Induction ==
    ASSUME NEW N \in Nat, NEW T, 0 \in T, \A n \in 0 .. N - 1 : n \in T => n + 1 \in T
    PROVE  \A n \in 0 .. N : n \in T
<1> DEFINE Out == {n \in 0 .. N : n \notin T}
<1>1. CASE Out # {}
  <2>1. PICK x \in Out : \A y \in Out : x <= y
    <3>1. Out \in SUBSET Nat
      OBVIOUS
    <3> QED BY <1>1, <3>1, LeastNumber
  <2>2. x \in Nat /\ x # 0 /\ x <= N /\ x \notin T
    OBVIOUS
  <2>3. x - 1 \in 0 .. N - 1 /\ (x - 1) + 1 = x /\ x - 1 \in 0 .. N /\ ~(x <= x - 1)
    BY <2>2, SMT
  <2>4. x - 1 \in T
    BY <2>1, <2>3
  <2> QED BY <2>2, <2>3, <2>4
<1> QED BY <1>1

\* A function that steps from each value to the next exists.
Iterates(f, N, S, base, step) ==
    /\ f \in [0 .. N -> S]
    /\ f[0] = base
    /\ \A n \in 1 .. N : f[n] = step[<<n, f[n - 1]>>]

\* The function that starts with base and goes on by step exists up to any number.
LEMMA Recursion ==
    ASSUME NEW N \in Nat, NEW S, NEW base \in S, NEW step \in [(1 .. N) \X S -> S]
    PROVE  \E f : Iterates(f, N, S, base, step)
<1> DEFINE T == {k \in 0 .. N : \E f : Iterates(f, k, S, base, step)}
<1>1. 0 \in T
  <2>1. Iterates([n \in 0 .. 0 |-> base], 0, S, base, step)
    BY SMT DEF Iterates
  <2> QED BY <2>1
<1>2. ASSUME NEW k \in 0 .. N - 1, k \in T PROVE k + 1 \in T
  <2>1. PICK f : Iterates(f, k, S, base, step)
    BY <1>2
  <2> DEFINE g == [n \in 0 .. k + 1 |-> IF n = k + 1 THEN step[<<n, f[k]>>] ELSE f[n]]
  <2>2. f[k] \in S /\ k + 1 \in 1 .. N
    BY <2>1 DEF Iterates
  <2>3. step[<<k + 1, f[k]>>] \in S
    BY <2>2
  <2>4. g \in [0 .. k + 1 -> S]
    <3>1. \A n \in 0 .. k + 1 : n # k + 1 => n \in 0 .. k
      BY SMT
    <3> QED BY <2>1, <2>3, <3>1 DEF Iterates
  <2>5. g[0] = base
    BY <2>1, SMT DEF Iterates
  <2>6. ASSUME NEW n \in 1 .. k + 1 PROVE g[n] = step[<<n, g[n - 1]>>]
    <3>1. n \in 0 .. k + 1 /\ n - 1 \in 0 .. k + 1 /\ n - 1 # k + 1
      BY SMT
    <3>2. g[n - 1] = f[n - 1]
      BY <3>1
    <3>3. CASE n = k + 1
      BY <3>1, <3>2, <3>3
    <3>4. CASE n # k + 1
      <4>1. n \in 1 .. k /\ n \in 0 .. k
        BY <3>4, SMT
      <4>2. f[n] = step[<<n, f[n - 1]>>]
        BY <2>1, <4>1 DEF Iterates
      <4> QED BY <3>1, <3>2, <3>4, <4>2
    <3> QED BY <3>3, <3>4
  <2> HIDE DEF g
  <2>7. Iterates(g, k + 1, S, base, step)
    BY <2>4, <2>5, <2>6 DEF Iterates
  <2>8. k + 1 \in 0 .. N
    BY SMT
  <2> QED BY <2>7, <2>8
<1> HIDE DEF T
<1>3. \A k \in 0 .. N : k \in T
  BY <1>1, <1>2, Induction
<1>4. N \in T
  BY <1>3, SMT
<1> QED BY <1>4 DEF T

-------------------------------------------------------------------------------
\* The headers are those of the entries and two empty ones.
LEMMA HeadersAre ==
    /\ Headers \in Seq([name : Seq(STRING), size : Nat])
    /\ DOMAIN Headers = 1 .. Len(Headers) /\ Len(Headers) = Len(Archive) + 2
    /\ DOMAIN Archive = 1 .. Len(Archive) /\ Len(Archive) \in Nat
    /\ \A n \in DOMAIN Archive : n \in DOMAIN Headers /\ Headers[n] = Archive[n]
    /\ \A n \in DOMAIN Headers : n \notin DOMAIN Archive => Headers[n] = ZeroBlock
    /\ \A n \in DOMAIN Headers : Headers[n].size \in Nat
<1> DEFINE H == [name : Seq(STRING), size : Nat]
           two == <<ZeroBlock, ZeroBlock>>
<1>1. ZeroBlock \in H
  BY DEF ZeroBlock, Nameless
<1>2. two \in Seq(H) /\ Len(two) = 2 /\ two[1] = ZeroBlock /\ two[2] = ZeroBlock
  BY <1>1
<1>3. Archive \in Seq(H)
  BY ArchiveAssumption
<1> HIDE DEF H, two
<1>4. /\ Archive \o two \in Seq(H)
      /\ Len(Archive \o two) = Len(Archive) + 2
      /\ \A i \in 1 .. Len(Archive) + 2 : (Archive \o two)[i] =
            IF i <= Len(Archive) THEN Archive[i] ELSE two[i - Len(Archive)]
  <2>1. Archive \o two \in Seq(H) /\ Len(Archive \o two) = Len(Archive) + Len(two)
    BY <1>2, <1>3, ConcatProperties, Zenon
  <2>2. \A i \in 1 .. Len(Archive) + Len(two) : (Archive \o two)[i] =
            IF i <= Len(Archive) THEN Archive[i] ELSE two[i - Len(Archive)]
    BY <1>2, <1>3, ConcatProperties, Zenon
  <2> QED BY <1>2, <2>1, <2>2
<1>5. Headers = Archive \o two
  BY DEF Headers, two
<1> HIDE DEF Headers
<1>6. /\ DOMAIN Headers = 1 .. Len(Headers) /\ DOMAIN Archive = 1 .. Len(Archive)
      /\ Len(Archive) \in Nat /\ \A n \in DOMAIN Headers : Headers[n] \in H
  <2>1. Headers \in Seq(H)
    BY <1>4, <1>5
  <2> QED BY <1>3, <2>1, LenProperties, ElementOfSeq
<1>7. \A n \in 1 .. Len(Archive) + 2 : ~(n <= Len(Archive)) => n - Len(Archive) \in {1, 2}
  BY <1>6, SMT
<1>8. \A n \in DOMAIN Headers : n \notin DOMAIN Archive => Headers[n] = ZeroBlock
  BY <1>2, <1>4, <1>5, <1>6, <1>7
<1>9. \A n \in DOMAIN Archive : n \in DOMAIN Headers /\ Headers[n] = Archive[n]
  BY <1>4, <1>5, <1>6
<1> QED BY <1>4, <1>5, <1>6, <1>8, <1>9 DEF H

\* A division into whole blocks has one result.
LEMMA WholeBlocks ==
    ASSUME NEW s \in Nat, NEW q \in Nat, s = q * Block
    PROVE  s % Block = 0
<1>1. Block \in Nat \ {0}
  BY ArchiveAssumption
<1>2. s = Block * (s \div Block) + (s % Block)
      /\ s % Block \in 0 .. Block - 1 /\ s \div Block \in Nat
  BY <1>1, SMT
<1> DEFINE p == s \div Block
           r == s % Block
<1>3. q * Block = Block * p + r /\ p \in Nat /\ r \in 0 .. Block - 1
  BY <1>2
<1> HIDE DEF p, r
<1>4. q < p => Block * (q + 1) <= Block * p
  BY <1>1, <1>3, SMT
<1>5. p < q => Block * (p + 1) <= Block * q
  BY <1>1, <1>3, SMT
<1>6. p = q
  BY <1>1, <1>3, <1>4, <1>5, SMT
<1>7. r = 0
  BY <1>1, <1>3, <1>6, SMT
<1> QED BY <1>7 DEF r

\* A header is followed by blocks that hold the data, and by a cell more unless the
\* data fills them.
LEMMA StepIsOver ==
    ASSUME NEW h, h.size \in Nat
    PROVE  /\ Step(h) \in Nat
           /\ Step(h) >= Block + h.size
           /\ h.size % Block # 0 => Step(h) > Block + h.size
<1> DEFINE d == h.size + Block - 1
           q == d \div Block
           r == d % Block
<1>1. Block \in Nat \ {0}
  BY ArchiveAssumption
<1>2. d \in Nat
  BY <1>1, SMT
<1>3. d = Block * q + r /\ r \in 0 .. Block - 1 /\ q \in Nat
  BY <1>1, <1>2, SMT
<1>4. Step(h) = Block + q * Block
  BY DEF Step
<1>5. h.size + Block - 1 = Block * q + r
  BY <1>3
<1> HIDE DEF d, q, r
<1>6. Block * q \in Nat /\ q * Block = Block * q
  BY <1>1, <1>3, SMT
<1>7. q * Block >= h.size
  BY <1>1, <1>3, <1>5, <1>6, SMT
<1>8. h.size % Block # 0 => q * Block # h.size
  BY <1>3, WholeBlocks
<1> QED BY <1>1, <1>4, <1>6, <1>7, <1>8, SMT

\* Each header is a step behind the one before it.
LEMMA AddressIs ==
    /\ Address \in [1 .. Len(Headers) + 1 -> Nat]
    /\ Address[1] = 1
    /\ \A n \in 1 .. Len(Headers) : Address[n + 1] = Address[n] + Step(Headers[n])
<1> DEFINE L == Len(Headers)
           step == [x \in (1 .. L) \X Nat |-> x[2] + Step(Headers[x[1]])]
<1>1. L \in Nat
  BY HeadersAre
<1>2. \A n \in 1 .. L : Step(Headers[n]) \in Nat
  BY HeadersAre, StepIsOver
<1>3. step \in [(1 .. L) \X Nat -> Nat]
  BY <1>2
<1>4. \A n \in 1 .. L, a \in Nat : step[<<n, a>>] = a + Step(Headers[n])
  OBVIOUS
<1> HIDE DEF L, step
<1>5. PICK f : Iterates(f, L, Nat, 1, step)
  BY <1>1, <1>3, Recursion
<1> DEFINE a == [n \in 1 .. L + 1 |-> f[n - 1]]
           P(b) == b = [n \in 1 .. L + 1 |-> IF n = 1 THEN 1 ELSE b[n - 1] + Step(Headers[n - 1])]
<1>6. a = [n \in 1 .. L + 1 |-> IF n = 1 THEN 1 ELSE a[n - 1] + Step(Headers[n - 1])]
  <2>1. ASSUME NEW n \in 1 .. L + 1
        PROVE  f[n - 1] = IF n = 1 THEN 1 ELSE a[n - 1] + Step(Headers[n - 1])
    <3>1. CASE n = 1
      BY <1>5, <3>1 DEF Iterates
    <3>2. CASE n # 1
      <4>1. n - 1 \in 1 .. L /\ n - 1 \in 1 .. L + 1 /\ (n - 1) - 1 \in 0 .. L
        BY <1>1, <3>2, SMT
      <4>2. f[n - 1] = step[<<n - 1, f[(n - 1) - 1]>>] /\ f[(n - 1) - 1] \in Nat
        BY <1>5, <4>1 DEF Iterates
      <4>3. f[n - 1] = f[(n - 1) - 1] + Step(Headers[n - 1])
        BY <1>4, <4>1, <4>2
      <4>4. a[n - 1] = f[(n - 1) - 1]
        BY <4>1
      <4> QED BY <3>2, <4>3, <4>4
    <3> QED BY <3>1, <3>2
  <2> QED BY <2>1
<1>7. P(a)
  BY <1>6
<1> DEFINE A == CHOOSE b : P(b)
<1>8. P(A)
  <2> HIDE DEF P, a
  <2> QED BY <1>7
<1>9. Address = A
  BY DEF Address, L
<1>10. A = [n \in 1 .. L + 1 |-> IF n = 1 THEN 1 ELSE A[n - 1] + Step(Headers[n - 1])]
  BY <1>8
<1> HIDE DEF A, P, a
<1>11. A[1] = 1
  BY <1>1, <1>10, SMT
<1>12. ASSUME NEW n \in 1 .. L PROVE A[n + 1] = A[n] + Step(Headers[n])
  <2>1. n + 1 \in 1 .. L + 1 /\ n + 1 # 1 /\ (n + 1) - 1 = n
    BY <1>1, SMT
  <2> QED BY <1>10, <2>1
<1>13. \A n \in 1 .. L + 1 : A[n] \in Nat
  <2> DEFINE T == {k \in 0 .. L : A[k + 1] \in Nat}
  <2>1. 0 \in T
    BY <1>1, <1>11, SMT
  <2>2. ASSUME NEW k \in 0 .. L - 1, k \in T PROVE k + 1 \in T
    <3>1. k + 1 \in 1 .. L /\ k + 1 \in 0 .. L /\ A[k + 1] \in Nat
      BY <1>1, <2>2, SMT
    <3>2. A[(k + 1) + 1] = A[k + 1] + Step(Headers[k + 1])
      BY <1>12, <3>1
    <3>3. Step(Headers[k + 1]) \in Nat
      BY <1>2, <3>1
    <3>4. A[(k + 1) + 1] \in Nat
      BY <3>1, <3>2, <3>3, SMT
    <3> QED BY <3>1, <3>4
  <2> HIDE DEF T
  <2>3. \A k \in 0 .. L : k \in T
    BY <1>1, <2>1, <2>2, Induction
  <2>4. ASSUME NEW n \in 1 .. L + 1 PROVE A[n] \in Nat
    <3>1. n - 1 \in 0 .. L /\ (n - 1) + 1 = n
      BY <1>1, SMT
    <3> QED BY <2>3, <3>1 DEF T
  <2> QED BY <2>4
<1>14. A \in [1 .. L + 1 -> Nat]
  BY <1>10, <1>13
<1> QED BY <1>9, <1>11, <1>12, <1>14 DEF L

\* Headers and data are one behind another.
LEMMA AddressGrows ==
    ASSUME NEW m \in 1 .. Len(Headers), NEW n \in m + 1 .. Len(Headers) + 1
    PROVE  /\ Address[m] \in Nat /\ Address[n] \in Nat
           /\ Address[m] + Step(Headers[m]) <= Address[n]
<1> DEFINE L == Len(Headers)
           T == {k \in 0 .. L - m : Address[m] + Step(Headers[m]) <= Address[m + 1 + k]}
<1>1. L \in Nat /\ m \in Nat /\ L - m \in Nat
  BY HeadersAre, SMT
<1>2. \A k \in 1 .. L : Step(Headers[k]) \in Nat
  BY HeadersAre, StepIsOver
<1>3. 0 \in T
  <2>1. Address[m + 1 + 0] = Address[m] + Step(Headers[m]) /\ Address[m] \in Nat
    BY <1>1, AddressIs, SMT
  <2> QED BY <1>1, <1>2, <2>1, SMT
<1>4. ASSUME NEW k \in 0 .. (L - m) - 1, k \in T PROVE k + 1 \in T
  <2>1. k + 1 \in 0 .. L - m /\ m + 1 + k \in 1 .. L /\ (m + 1 + k) + 1 = m + 1 + (k + 1)
        /\ m \in 1 .. L + 1 /\ m + 1 + k \in 1 .. L + 1
    BY <1>1, SMT
  <2>2. Address[m + 1 + (k + 1)] = Address[m + 1 + k] + Step(Headers[m + 1 + k])
    BY <2>1, AddressIs
  <2>3. Address[m] \in Nat /\ Address[m + 1 + k] \in Nat /\ Step(Headers[m]) \in Nat
        /\ Step(Headers[m + 1 + k]) \in Nat /\ Address[m] + Step(Headers[m]) <= Address[m + 1 + k]
    BY <1>2, <1>4, <2>1, AddressIs
  <2>4. Address[m] + Step(Headers[m]) <= Address[m + 1 + (k + 1)]
    BY <2>2, <2>3, SMT
  <2> QED BY <2>1, <2>4
<1> HIDE DEF T
<1>5. \A k \in 0 .. L - m : k \in T
  BY <1>1, <1>3, <1>4, Induction
<1>6. n - m - 1 \in 0 .. L - m /\ m + 1 + (n - m - 1) = n /\ m \in 1 .. L + 1 /\ n \in 1 .. L + 1
  BY <1>1, SMT
<1> QED BY <1>5, <1>6, AddressIs DEF T

-------------------------------------------------------------------------------
\* What a path is made of: strings.  The provers do not know of a literal that it
\* is one.
Element == STRING \cup {Slash, Colon, Nul}

\* The names that a resolved path can have.
PlainName == Element \ {Slash, ".", ".."}
Stack == Seq(PlainName)

\* What each element of a path does to the stack of names, and to the output.
StackStep(s, c) ==
    IF c \in {Slash, "."} THEN s
    ELSE IF c = ".." THEN (IF s = <<>> THEN <<>> ELSE Front(s))
    ELSE Append(s, c)
CopyStep(out, c) ==
    IF c = ".." THEN Back(out)
    ELSE IF c = "." THEN out
    ELSE IF c = Slash THEN Ended(out)
    ELSE Append(out, c)

\* A finite set of numbers has a greatest.
LEMMA GreatestNumber ==
    ASSUME NEW N \in Nat, NEW I \in SUBSET (1 .. N), I # {}
    PROVE  Max(I) \in I /\ \A i \in I : i <= Max(I)
<1> DEFINE D == {N - i : i \in I}
<1>1. D \in SUBSET Nat /\ D # {}
  <2>1. \A i \in I : N - i \in Nat
    BY SMT
  <2> QED BY <2>1
<1>2. PICK d \in D : \A y \in D : d <= y
  BY <1>1, LeastNumber
<1>3. PICK x \in I : d = N - x
  OBVIOUS
<1>4. \A y \in I : x >= y
  <2> TAKE y \in I
  <2>1. N - x <= N - y
    BY <1>2, <1>3
  <2> QED BY <2>1, SMT
<1>5. \E z \in I : \A y \in I : z >= y
  BY <1>4
<1>6. Max(I) \in I /\ \A y \in I : Max(I) >= y
  BY <1>5 DEF Max
<1> QED BY <1>6, SMT

\* The first cells of a sequence.
LEMMA FirstCells ==
    ASSUME NEW S, NEW s \in Seq(S), NEW k \in 0 .. Len(s)
    PROVE  /\ SubSeq(s, 1, k) \in Seq(S)
           /\ Len(SubSeq(s, 1, k)) = k
           /\ \A i \in 1 .. k : SubSeq(s, 1, k)[i] = s[i]
<1>1. Len(s) \in Nat
  BY LenProperties
<1>2. \A i \in 1 .. k : s[i] \in S
  BY <1>1, ElementOfSeq, SMT
<1> QED BY <1>1, <1>2, SMT

\* Sequences with the same cells.
LEMMA SameCells ==
    ASSUME NEW S, NEW T, NEW s \in Seq(S), NEW t \in Seq(T), Len(s) = Len(t),
           \A i \in 1 .. Len(s) : s[i] = t[i]
    PROVE  s = t
<1>1. s \in [1 .. Len(s) -> S] /\ t \in [1 .. Len(t) -> T]
  BY LenProperties
<1> QED BY <1>1

\* Without its last cell.
LEMMA FrontIs ==
    ASSUME NEW S, NEW s \in Seq(S), s # <<>>
    PROVE  /\ Front(s) \in Seq(S) /\ Len(Front(s)) = Len(s) - 1 /\ Len(s) \in Nat \ {0}
           /\ \A i \in 1 .. Len(s) - 1 : Front(s)[i] = s[i]
<1>1. Len(s) \in Nat \ {0}
  BY EmptySeq
<1>2. Len(s) - 1 \in 0 .. Len(s)
  BY <1>1, SMT
<1> QED BY <1>1, <1>2, FirstCells DEF Front

\* With one cell more.
LEMMA AppendIs ==
    ASSUME NEW S, NEW s \in Seq(S), NEW c \in S
    PROVE  /\ Append(s, c) \in Seq(S) /\ Len(Append(s, c)) = Len(s) + 1
           /\ Append(s, c)[Len(s) + 1] = c
           /\ \A i \in 1 .. Len(s) : Append(s, c)[i] = s[i]
  BY AppendProperties

\* The step of a stack gives a stack.
LEMMA StackStepIs ==
    ASSUME NEW s \in Stack, NEW c \in Element
    PROVE  StackStep(s, c) \in Stack
<1>1. CASE c \in {Slash, "."}
  BY <1>1 DEF StackStep
<1>2. CASE c = ".." /\ c \notin {Slash, "."}
  <2>1. s # <<>> => Front(s) \in Stack
    BY FrontIs DEF Stack
  <2>2. <<>> \in Stack
    BY EmptySeq DEF Stack
  <2> QED BY <1>2, <2>1, <2>2 DEF StackStep
<1>3. CASE c \notin {Slash, ".", ".."}
  <2>1. c \in PlainName
    BY <1>3 DEF PlainName
  <2>2. Append(s, c) \in Stack
    BY <2>1, AppendIs DEF Stack
  <2> QED BY <1>3, <2>2 DEF StackStep
<1> QED BY <1>1, <1>2, <1>3

-------------------------------------------------------------------------------
\* A stack, spelled: a slash first and last and in between.
LEMMA SpelledIs ==
    ASSUME NEW s \in Stack
    PROVE  /\ Spelled(s) \in Seq(Element) /\ Len(s) \in Nat
           /\ Len(Spelled(s)) = 2 * Len(s) + 1
           /\ \A n \in 1 .. 2 * Len(s) + 1 :
                Spelled(s)[n] = IF n % 2 = 1 THEN Slash ELSE s[n \div 2]
           /\ \A k \in 1 .. Len(s) : s[k] \in PlainName /\ Spelled(s)[2 * k] = s[k]
           /\ \A k \in 0 .. Len(s) : Spelled(s)[2 * k + 1] = Slash
<1> DEFINE m == 2 * Len(s) + 1
           f == [n \in 1 .. m |-> IF n % 2 = 1 THEN Slash ELSE s[n \div 2]]
<1>1. Len(s) \in Nat /\ m \in Nat
  BY LenProperties, SMT DEF Stack
<1>2. \A k \in 1 .. Len(s) : s[k] \in PlainName
  BY ElementOfSeq DEF Stack
<1>3. Slash \in Element /\ PlainName \subseteq Element
  BY DEF Element, PlainName
<1>4. \A n \in 1 .. m : n % 2 # 1 => n \div 2 \in 1 .. Len(s)
  BY <1>1, SMT
<1>5. f \in [1 .. m -> Element]
  BY <1>2, <1>3, <1>4
<1>6. f \in Seq(Element) /\ Len(f) = m
  BY <1>1, <1>5
<1>7. Spelled(s) = f
  BY DEF Spelled
<1>8. ASSUME NEW k \in 1 .. Len(s) PROVE Spelled(s)[2 * k] = s[k]
  <2>1. 2 * k \in 1 .. m /\ (2 * k) % 2 # 1 /\ (2 * k) \div 2 = k
    BY <1>1, SMT
  <2> QED BY <1>7, <2>1
<1>9. ASSUME NEW k \in 0 .. Len(s) PROVE Spelled(s)[2 * k + 1] = Slash
  <2>1. 2 * k + 1 \in 1 .. m /\ (2 * k + 1) % 2 = 1
    BY <1>1, SMT
  <2> QED BY <1>7, <2>1
<1> QED BY <1>1, <1>2, <1>6, <1>7, <1>8, <1>9

\* Spelled paths end in a slash, and an element behind one starts a new name.
LEMMA SpelledEnds ==
    ASSUME NEW s \in Stack
    PROVE  Last(Spelled(s)) = Slash /\ Ended(Spelled(s)) = Spelled(s)
<1>1. Len(s) \in 0 .. Len(s) /\ Len(Spelled(s)) = 2 * Len(s) + 1
  BY SpelledIs, SMT
<1>2. Spelled(s)[2 * Len(s) + 1] = Slash
  BY <1>1, SpelledIs
<1> QED BY <1>1, <1>2 DEF Last, Ended

\* A spelled stack and a name, ended: the stack with the name.
LEMMA SpelledAppend ==
    ASSUME NEW s \in Stack, NEW c \in PlainName
    PROVE  /\ Append(s, c) \in Stack
           /\ Ended(Append(Spelled(s), c)) = Spelled(Append(s, c))
           /\ Append(Spelled(s), c) = Front(Spelled(Append(s, c)))
<1> DEFINE t == Append(s, c)
           p == Append(Spelled(s), c)
<1>1. /\ t \in Stack /\ Len(t) = Len(s) + 1 /\ t[Len(s) + 1] = c
      /\ \A i \in 1 .. Len(s) : t[i] = s[i]
  BY AppendIs DEF Stack
<1>2. /\ Spelled(s) \in Seq(Element) /\ Len(s) \in Nat /\ Len(Spelled(s)) = 2 * Len(s) + 1
      /\ \A n \in 1 .. 2 * Len(s) + 1 :
                Spelled(s)[n] = IF n % 2 = 1 THEN Slash ELSE s[n \div 2]
  BY SpelledIs
<1>3. c \in Element /\ Slash \in Element /\ c # Slash
  BY DEF PlainName, Element
<1> HIDE DEF t
<1>4. /\ Spelled(t) \in Seq(Element) /\ Len(Spelled(t)) = 2 * Len(t) + 1
      /\ \A n \in 1 .. 2 * Len(t) + 1 :
                Spelled(t)[n] = IF n % 2 = 1 THEN Slash ELSE t[n \div 2]
  BY <1>1, SpelledIs
<1>5. /\ p \in Seq(Element) /\ Len(p) = 2 * Len(s) + 2 /\ p[2 * Len(s) + 2] = c
      /\ \A i \in 1 .. 2 * Len(s) + 1 : p[i] = Spelled(s)[i]
  <2>1. /\ p \in Seq(Element) /\ Len(p) = Len(Spelled(s)) + 1 /\ p[Len(Spelled(s)) + 1] = c
        /\ \A i \in 1 .. Len(Spelled(s)) : p[i] = Spelled(s)[i]
    BY <1>2, <1>3, AppendIs
  <2>2. (2 * Len(s) + 1) + 1 = 2 * Len(s) + 2
    BY <1>2, SMT
  <2> HIDE DEF p
  <2> QED BY <1>2, <2>1, <2>2
<1> HIDE DEF p
<1>6. ASSUME NEW i \in 1 .. 2 * Len(s) + 2 PROVE p[i] = Spelled(t)[i]
  <2>1. i \in 1 .. 2 * Len(t) + 1
    BY <1>1, <1>2, SMT
  <2>2. Spelled(t)[i] = IF i % 2 = 1 THEN Slash ELSE t[i \div 2]
    BY <1>4, <2>1
  <2>3. CASE i = 2 * Len(s) + 2
    <3>1. i % 2 # 1 /\ i \div 2 = Len(s) + 1
      BY <1>2, <2>3, SMT
    <3> QED BY <1>1, <1>5, <2>2, <2>3, <3>1
  <2>4. CASE i # 2 * Len(s) + 2
    <3>1. i \in 1 .. 2 * Len(s) + 1 /\ (i % 2 # 1 => i \div 2 \in 1 .. Len(s))
      BY <1>2, <2>4, SMT
    <3> QED BY <1>1, <1>2, <1>5, <2>2, <3>1
  <2> QED BY <2>3, <2>4
<1>7. /\ Len(Spelled(t)) = 2 * Len(s) + 3 /\ Spelled(t) # <<>>
      /\ Spelled(t)[2 * Len(s) + 3] = Slash
  <2>1. 2 * Len(t) + 1 = 2 * Len(s) + 3 /\ 2 * Len(s) + 3 \in 1 .. 2 * Len(t) + 1
        /\ (2 * Len(s) + 3) % 2 = 1 /\ 2 * Len(s) + 3 # 0
    BY <1>1, <1>2, SMT
  <2>2. Spelled(t) # <<>>
    BY <1>4, <2>1, EmptySeq
  <2> QED BY <1>4, <2>1, <2>2
<1>8. p = Front(Spelled(t))
  <2>1. /\ Front(Spelled(t)) \in Seq(Element) /\ Len(Front(Spelled(t))) = 2 * Len(s) + 2
        /\ \A i \in 1 .. 2 * Len(s) + 2 : Front(Spelled(t))[i] = Spelled(t)[i]
    <3>1. (2 * Len(s) + 3) - 1 = 2 * Len(s) + 2
      BY <1>2, SMT
    <3> QED BY <1>4, <1>7, <3>1, FrontIs
  <2> QED BY <1>5, <1>6, <2>1, SameCells
<1>9. Ended(p) = Spelled(t)
  <2>1. Last(p) # Slash
    BY <1>3, <1>5 DEF Last
  <2>2. Ended(p) = Append(p, Slash)
    BY <2>1 DEF Ended
  <2>3. /\ Append(p, Slash) \in Seq(Element) /\ Len(Append(p, Slash)) = 2 * Len(s) + 3
        /\ Append(p, Slash)[2 * Len(s) + 3] = Slash
        /\ \A i \in 1 .. 2 * Len(s) + 2 : Append(p, Slash)[i] = p[i]
    <3>1. (2 * Len(s) + 2) + 1 = 2 * Len(s) + 3
      BY <1>2, SMT
    <3> QED BY <1>3, <1>5, <3>1, AppendIs
  <2>4. ASSUME NEW i \in 1 .. 2 * Len(s) + 3 PROVE Append(p, Slash)[i] = Spelled(t)[i]
    <3>1. i = 2 * Len(s) + 3 \/ i \in 1 .. 2 * Len(s) + 2
      BY <1>2, SMT
    <3> QED BY <1>6, <1>7, <2>3, <3>1
  <2> QED BY <1>4, <1>7, <2>2, <2>3, <2>4, SameCells
<1> QED BY <1>1, <1>8, <1>9 DEF t, p

\* Whole numbers.
LEMMA Antisymmetry ==
    ASSUME NEW a \in Int, NEW b \in Int, a <= b, b <= a
    PROVE  a = b
  BY SMT

\* An index that is not the last is before it.
LEMMA NotLast ==
    ASSUME NEW n \in Int, NEW i \in 1 .. n, i # n
    PROVE  i <= n - 1
  BY SMT

\* The half of an even index.
LEMMA EvenHalf ==
    ASSUME NEW n \in Nat, NEW i \in 1 .. 2 * n + 1, i % 2 # 1
    PROVE  i \div 2 \in 1 .. n
  BY SMT

\* Going back in a spelled stack drops its last name, and nothing at the root.
LEMMA SpelledBack ==
    ASSUME NEW s \in Stack
    PROVE  Back(Spelled(s)) = Spelled(IF s = <<>> THEN <<>> ELSE Front(s))
<1> DEFINE o == Front(Spelled(s))
           I == {i \in 1 .. Len(o) : o[i] = Slash}
<1>1. /\ Spelled(s) \in Seq(Element) /\ Len(s) \in Nat /\ Len(Spelled(s)) = 2 * Len(s) + 1
      /\ \A n \in 1 .. 2 * Len(s) + 1 :
                Spelled(s)[n] = IF n % 2 = 1 THEN Slash ELSE s[n \div 2]
      /\ \A k \in 1 .. Len(s) : s[k] \in PlainName /\ Spelled(s)[2 * k] = s[k]
      /\ \A k \in 0 .. Len(s) : Spelled(s)[2 * k + 1] = Slash
  BY SpelledIs
<1>2. Spelled(s) # <<>>
  <2>1. 2 * Len(s) + 1 # 0
    BY <1>1, SMT
  <2> QED BY <1>1, <2>1, EmptySeq
<1>3. o \in Seq(Element) /\ Len(o) = 2 * Len(s) /\ \A i \in 1 .. 2 * Len(s) : o[i] = Spelled(s)[i]
  <2>1. (2 * Len(s) + 1) - 1 = 2 * Len(s)
    BY <1>1, SMT
  <2> QED BY <1>1, <1>2, <2>1, FrontIs
<1>4. CASE s = <<>>
  <2>1. Len(o) = 0
    BY <1>3, <1>4, EmptySeq, SMT
  <2>2. o = <<>>
    BY <1>3, <2>1, EmptySeq
  <2>3. Back(Spelled(s)) = Spelled(s)
    BY <2>2 DEF Back
  <2> QED BY <1>4, <2>3
<1>5. CASE s # <<>>
  <2>1. /\ Front(s) \in Stack /\ Len(Front(s)) = Len(s) - 1 /\ Len(s) \in Nat \ {0}
        /\ \A i \in 1 .. Len(s) - 1 : Front(s)[i] = s[i]
    BY <1>5, FrontIs DEF Stack
  <2>2. o # <<>>
    <3>1. 2 * Len(s) # 0
      BY <2>1, SMT
    <3> QED BY <1>3, <3>1, EmptySeq
  <2>3. Back(Spelled(s)) = SubSeq(o, 1, IF I # {} THEN Max(I) ELSE 0)
    BY <2>2 DEF Back, SelectLastInSeq
  <2> DEFINE k == 2 * Len(s) - 1
  <2>4. k \in I
    <3>1. k \in 1 .. 2 * Len(s) /\ k = 2 * (Len(s) - 1) + 1 /\ Len(s) - 1 \in 0 .. Len(s)
      BY <2>1, SMT
    <3> QED BY <1>1, <1>3, <3>1
  <2>5. \A i \in I : i <= k
    <3> TAKE i \in I
    <3>1. o[2 * Len(s)] # Slash
      <4>1. Len(s) \in 1 .. Len(s) /\ 2 * Len(s) \in 1 .. 2 * Len(s)
        BY <2>1, SMT
      <4> QED BY <1>1, <1>3, <4>1 DEF PlainName
    <3>2. i # 2 * Len(s) /\ i \in 1 .. 2 * Len(s)
      BY <1>3, <3>1
    <3>3. 2 * Len(s) \in Int
      BY <2>1, SMT
    <3> HIDE DEF I, o
    <3> QED BY <3>2, <3>3, NotLast
  <2>6. Max(I) = k
    <3>1. Max(I) \in I /\ \A i \in I : i <= Max(I)
      <4>1. I \in SUBSET (1 .. Len(o)) /\ Len(o) \in Nat
        BY <1>3, LenProperties
      <4> QED BY <2>4, <4>1, GreatestNumber
    <3>2. k <= Max(I) /\ Max(I) <= k /\ Max(I) \in Int
      BY <2>4, <2>5, <3>1
    <3>3. k \in Int
      BY <2>1, SMT
    <3> HIDE DEF I, o, k
    <3> QED BY <3>2, <3>3, Antisymmetry
  <2>7. Back(Spelled(s)) = SubSeq(o, 1, k)
    BY <2>3, <2>4, <2>6
  <2>8. k \in 0 .. Len(o) /\ k \in Nat /\ k <= 2 * Len(s)
    BY <1>3, <2>1, SMT
  <2>9. /\ SubSeq(o, 1, k) \in Seq(Element) /\ Len(SubSeq(o, 1, k)) = k
        /\ \A i \in 1 .. k : SubSeq(o, 1, k)[i] = o[i]
    <3> HIDE DEF o, k
    <3> QED BY <1>3, <2>8, FirstCells
  <2>10. /\ Spelled(Front(s)) \in Seq(Element) /\ Len(Spelled(Front(s))) = 2 * Len(Front(s)) + 1
         /\ \A n \in 1 .. 2 * Len(Front(s)) + 1 :
                Spelled(Front(s))[n] = IF n % 2 = 1 THEN Slash ELSE Front(s)[n \div 2]
    BY <2>1, SpelledIs
  <2>11. 2 * Len(Front(s)) + 1 = k
    BY <2>1, SMT
  <2> HIDE DEF k
  <2>12. ASSUME NEW i \in 1 .. k PROVE SubSeq(o, 1, k)[i] = Spelled(Front(s))[i]
    <3>1. i \in 1 .. 2 * Len(s) /\ i \in 1 .. 2 * Len(s) + 1
          /\ (i % 2 # 1 => i \div 2 \in 1 .. Len(s) - 1)
      <4>1. Len(s) - 1 \in Nat /\ i \in 1 .. 2 * (Len(s) - 1) + 1
        BY <2>1, <2>11
      <4>2. i % 2 # 1 => i \div 2 \in 1 .. Len(s) - 1
        BY <4>1, EvenHalf
      <4>3. i \in 1 .. 2 * Len(s) /\ i \in 1 .. 2 * Len(s) + 1
        BY <2>1, <4>1, SMT
      <4> QED BY <4>2, <4>3
    <3>2. SubSeq(o, 1, k)[i] = IF i % 2 = 1 THEN Slash ELSE s[i \div 2]
      BY <1>1, <1>3, <2>9, <3>1
    <3>3. Spelled(Front(s))[i] = IF i % 2 = 1 THEN Slash ELSE Front(s)[i \div 2]
      BY <2>10, <2>11
    <3> QED BY <2>1, <3>1, <3>2, <3>3
  <2>13. SubSeq(o, 1, k) = Spelled(Front(s))
    BY <2>9, <2>10, <2>11, <2>12, SameCells
  <2> QED BY <1>5, <2>7, <2>13
<1> QED BY <1>4, <1>5

-------------------------------------------------------------------------------
\* The stacks that the elements of a path lead through.
IsWalk(st, p, s) ==
    /\ st \in [0 .. Len(p) -> Stack]
    /\ st[0] = s
    /\ \A n \in 1 .. Len(p) : st[n] = StackStep(st[n - 1], p[n])
WalksTo(p, s) == p \in Seq(Element) /\ \E st : IsWalk(st, p, <<>>) /\ st[Len(p)] = s
AllOf(dir, path) == IF Head(path) = Slash THEN path ELSE dir \o Root \o path

\* Every path leads somewhere.
LEMMA WalkExists ==
    ASSUME NEW p \in Seq(Element), NEW s \in Stack
    PROVE  \E st : IsWalk(st, p, s)
<1> DEFINE N == Len(p)
           step == [x \in (1 .. N) \X Stack |-> StackStep(x[2], p[x[1]])]
<1>1. N \in Nat /\ \A n \in 1 .. N : p[n] \in Element
  BY LenProperties, ElementOfSeq
<1>2. \A n \in 1 .. N, x \in Stack : StackStep(x, p[n]) \in Stack
  BY <1>1, StackStepIs
<1>3. step \in [(1 .. N) \X Stack -> Stack]
  BY <1>2
<1>4. \A n \in 1 .. N, x \in Stack : step[<<n, x>>] = StackStep(x, p[n])
  OBVIOUS
<1> HIDE DEF step
<1>5. PICK f : Iterates(f, N, Stack, s, step)
  <2> HIDE DEF N
  <2> QED BY <1>1, <1>3, Recursion
<1>6. ASSUME NEW n \in 1 .. N PROVE f[n] = StackStep(f[n - 1], p[n])
  <2>1. n - 1 \in 0 .. N
    BY <1>1, SMT
  <2>2. f[n - 1] \in Stack /\ f[n] = step[<<n, f[n - 1]>>]
    BY <1>5, <2>1 DEF Iterates
  <2> QED BY <1>4, <2>2
<1> QED BY <1>5, <1>6 DEF IsWalk, Iterates

\* Two iterations with the same steps are the same.
GoTogether(f, g, N) ==
    f[0] = g[0] /\ \A n \in 1 .. N : f[n - 1] = g[n - 1] => f[n] = g[n]

LEMMA SameIteration ==
    ASSUME NEW N \in Nat, NEW f, NEW g, GoTogether(f, g, N)
    PROVE  \A n \in 0 .. N : f[n] = g[n]
<1> USE DEF GoTogether
<1> DEFINE T == {n \in 0 .. N : f[n] = g[n]}
<1>1. 0 \in T
  BY SMT
<1>2. ASSUME NEW n \in 0 .. N - 1, n \in T PROVE n + 1 \in T
  <2>1. n + 1 \in 1 .. N /\ n + 1 \in 0 .. N /\ (n + 1) - 1 = n
    BY SMT
  <2>2. f[(n + 1) - 1] = g[(n + 1) - 1]
    BY <1>2, <2>1
  <2>3. f[n + 1] = g[n + 1]
    BY <2>1, <2>2
  <2> QED BY <2>1, <2>3
<1> HIDE DEF T
<1>3. \A n \in 0 .. N : n \in T
  BY <1>1, <1>2, Induction
<1> QED BY <1>3 DEF T

\* One path behind another.
LEMMA ConcatIs ==
    ASSUME NEW S, NEW p \in Seq(S), NEW q \in Seq(S)
    PROVE  /\ p \o q \in Seq(S) /\ Len(p \o q) = Len(p) + Len(q)
           /\ Len(p) \in Nat /\ Len(q) \in Nat
           /\ \A i \in 1 .. Len(p) : (p \o q)[i] = p[i]
           /\ \A i \in 1 .. Len(q) : (p \o q)[Len(p) + i] = q[i]
<1>1. /\ p \o q \in Seq(S) /\ Len(p \o q) = Len(p) + Len(q)
      /\ \A i \in 1 .. Len(p) + Len(q) : (p \o q)[i] =
            IF i <= Len(p) THEN p[i] ELSE q[i - Len(p)]
  BY ConcatProperties
<1>2. Len(p) \in Nat /\ Len(q) \in Nat
  BY LenProperties
<1>3. ASSUME NEW i \in 1 .. Len(p) PROVE (p \o q)[i] = p[i]
  <2>1. i \in 1 .. Len(p) + Len(q) /\ i <= Len(p)
    BY <1>2, SMT
  <2> QED BY <1>1, <2>1
<1>4. ASSUME NEW i \in 1 .. Len(q) PROVE (p \o q)[Len(p) + i] = q[i]
  <2>1. Len(p) + i \in 1 .. Len(p) + Len(q) /\ ~(Len(p) + i <= Len(p)) /\ (Len(p) + i) - Len(p) = i
    BY <1>2, SMT
  <2> QED BY <1>1, <2>1
<1> QED BY <1>1, <1>2, <1>3, <1>4

\* Behind a path the next goes on from where it led.
LEMMA WalkOn ==
    ASSUME NEW p \in Seq(Element), NEW q \in Seq(Element), NEW s, NEW u, NEW v,
           IsWalk(u, p, s), IsWalk(v, q, u[Len(p)])
    PROVE  \E w : IsWalk(w, p \o q, s) /\ w[Len(p \o q)] = v[Len(q)]
<1> DEFINE a == Len(p)
           b == Len(q)
           w == [n \in 0 .. a + b |-> IF n <= a THEN u[n] ELSE v[n - a]]
<1>1. /\ Len(p \o q) = a + b /\ a \in Nat /\ b \in Nat
      /\ \A i \in 1 .. a : (p \o q)[i] = p[i]
      /\ \A i \in 1 .. b : (p \o q)[a + i] = q[i]
  BY ConcatIs
<1>2. /\ u \in [0 .. a -> Stack] /\ u[0] = s /\ \A n \in 1 .. a : u[n] = StackStep(u[n - 1], p[n])
      /\ v \in [0 .. b -> Stack] /\ v[0] = u[a] /\ \A n \in 1 .. b : v[n] = StackStep(v[n - 1], q[n])
  BY DEF IsWalk
<1> DEFINE r == p \o q
<1> HIDE DEF a, b, r
<1>3. /\ \A n \in 0 .. a + b : n <= a => n \in 0 .. a
      /\ \A n \in 0 .. a + b : ~(n <= a) => n - a \in 1 .. b /\ n - a \in 0 .. b
                                           /\ a + (n - a) = n /\ (n - 1) - a = (n - a) - 1
      /\ 0 \in 0 .. a + b /\ 0 <= a /\ a + b \in 0 .. a + b /\ (a + b) - a = b
      /\ a + b <= a => a + b = a /\ b = 0
  BY <1>1, SMT
<1>4. w \in [0 .. a + b -> Stack]
  BY <1>2, <1>3
<1>5. w[0] = s /\ w[a + b] = v[b]
  <2>1. w[a + b] = IF a + b <= a THEN u[a] ELSE v[b]
    BY <1>3
  <2> QED BY <1>2, <1>3, <2>1
<1>6. ASSUME NEW n \in 1 .. a + b PROVE w[n] = StackStep(w[n - 1], r[n])
  <2>1. n \in 0 .. a + b /\ n - 1 \in 0 .. a + b
    BY <1>1, SMT
  <2>2. CASE n <= a
    <3>1. n \in 1 .. a /\ n - 1 <= a
      BY <1>1, <2>2, SMT
    <3>2. w[n] = u[n] /\ w[n - 1] = u[n - 1]
      BY <2>1, <2>2, <3>1
    <3>3. r[n] = p[n]
      BY <1>1, <3>1 DEF r
    <3> HIDE DEF w
    <3> QED BY <1>2, <3>1, <3>2, <3>3
  <2>3. CASE ~(n <= a)
    <3>1. n - a \in 1 .. b /\ a + (n - a) = n /\ (n - 1) - a = (n - a) - 1
      BY <1>3, <2>1, <2>3
    <3>2. w[n] = v[n - a] /\ w[n - 1] = v[(n - a) - 1]
      <4>1. w[n] = v[n - a]
        BY <2>1, <2>3
      <4>2. CASE n - 1 <= a
        <5>1. n - 1 = a /\ (n - a) - 1 = 0
          BY <1>1, <2>3, <4>2, SMT
        <5>2. w[n - 1] = u[a]
          BY <2>1, <4>2, <5>1
        <5> QED BY <1>2, <4>1, <5>1, <5>2
      <4>3. CASE ~(n - 1 <= a)
        BY <2>1, <3>1, <4>1, <4>3
      <4> QED BY <4>2, <4>3
    <3>3. r[n] = q[n - a]
      BY <1>1, <3>1 DEF r
    <3> HIDE DEF w
    <3> QED BY <1>2, <3>1, <3>2, <3>3
  <2> QED BY <2>2, <2>3
<1> HIDE DEF w
<1>7. IsWalk(w, r, s)
  BY <1>1, <1>4, <1>5, <1>6 DEF IsWalk, r
<1>8. w[Len(r)] = v[b]
  BY <1>1, <1>5 DEF r
<1> QED BY <1>7, <1>8 DEF r, b

\* What a path means is where it leads.
LEMMA MeaningWalk ==
    ASSUME NEW d, NEW path, NEW st, AllOf(d, path) \in Seq(Element), IsWalk(st, AllOf(d, path), <<>>)
    PROVE  Meaning(d, path) = st[Len(AllOf(d, path))]
<1> DEFINE all == AllOf(d, path)
           P(b) == b = [n \in 0 .. Len(all) |->
                IF n = 0 THEN <<>>
                ELSE CASE all[n] \in {Slash, "."} -> b[n - 1]
                       [] all[n] = ".." ->
                            IF b[n - 1] = <<>> THEN <<>> ELSE Front(b[n - 1])
                       [] OTHER -> Append(b[n - 1], all[n])]
           m == CHOOSE b : P(b)
<1>1. Meaning(d, path) = m[Len(all)]
  BY DEF Meaning, AllOf
<1>2. Len(all) \in Nat
  BY LenProperties
<1>3. st \in [0 .. Len(all) -> Stack] /\ st[0] = <<>>
      /\ \A n \in 1 .. Len(all) : st[n] = StackStep(st[n - 1], all[n])
  BY DEF IsWalk
<1> HIDE DEF all
<1>4. \A b : P(b) <=> b = [n \in 0 .. Len(all) |->
                IF n = 0 THEN <<>> ELSE StackStep(b[n - 1], all[n])]
  <2> TAKE b
  <2>1. \A n \in 0 .. Len(all) :
            (CASE all[n] \in {Slash, "."} -> b[n - 1]
               [] all[n] = ".." -> IF b[n - 1] = <<>> THEN <<>> ELSE Front(b[n - 1])
               [] OTHER -> Append(b[n - 1], all[n]))
            = StackStep(b[n - 1], all[n])
    BY DEF StackStep, Slash
  <2> DEFINE F == [n \in 0 .. Len(all) |->
                IF n = 0 THEN <<>>
                ELSE CASE all[n] \in {Slash, "."} -> b[n - 1]
                       [] all[n] = ".." ->
                            IF b[n - 1] = <<>> THEN <<>> ELSE Front(b[n - 1])
                       [] OTHER -> Append(b[n - 1], all[n])]
             G == [n \in 0 .. Len(all) |-> IF n = 0 THEN <<>> ELSE StackStep(b[n - 1], all[n])]
  <2>2. ASSUME NEW n \in 0 .. Len(all) PROVE F[n] = G[n]
    <3>1. CASE n = 0
      BY <3>1
    <3>2. CASE n # 0
      <4>1. G[n] = StackStep(b[n - 1], all[n])
        BY <3>2
      <4>2. F[n] = CASE all[n] \in {Slash, "."} -> b[n - 1]
               [] all[n] = ".." -> IF b[n - 1] = <<>> THEN <<>> ELSE Front(b[n - 1])
               [] OTHER -> Append(b[n - 1], all[n])
        BY <3>2
      <4> QED BY <2>1, <4>1, <4>2
    <3> QED BY <3>1, <3>2
  <2>3. F = [n \in 0 .. Len(all) |-> F[n]] /\ G = [n \in 0 .. Len(all) |-> G[n]]
    OBVIOUS
  <2>4. P(b) <=> b = F
    OBVIOUS
  <2> HIDE DEF F, P
  <2>5. F = G
    <3> HIDE DEF G
    <3> QED BY <2>2, <2>3
  <2> HIDE DEF G
  <2>6. P(b) <=> b = G
    BY <2>4, <2>5
  <2> QED BY <2>6, Zenon DEF G
<1> HIDE DEF P
<1>5. P(st)
  <2>1. \A n \in 0 .. Len(all) : n # 0 => n \in 1 .. Len(all)
    BY <1>2, SMT
  <2>2. st = [n \in 0 .. Len(all) |-> IF n = 0 THEN <<>> ELSE StackStep(st[n - 1], all[n])]
    BY <1>2, <1>3, <2>1
  <2> QED BY <1>4, <2>2
<1>6. P(m)
  BY <1>5
<1> HIDE DEF m
<1>7. m[0] = <<>> /\ \A n \in 1 .. Len(all) : m[n] = StackStep(m[n - 1], all[n])
  <2>1. m = [n \in 0 .. Len(all) |-> IF n = 0 THEN <<>> ELSE StackStep(m[n - 1], all[n])]
    BY <1>4, <1>6
  <2>2. 0 \in 0 .. Len(all) /\ \A n \in 1 .. Len(all) : n \in 0 .. Len(all) /\ n # 0
    BY <1>2, SMT
  <2> QED BY <2>1, <2>2
<1>8. \A n \in 0 .. Len(all) : m[n] = st[n]
  <2>1. \A n \in 1 .. Len(all) : m[n - 1] = st[n - 1] => m[n] = st[n]
    BY <1>3, <1>7
  <2>2. m[0] = st[0]
    BY <1>3, <1>7
  <2>3. GoTogether(m, st, Len(all))
    BY <2>1, <2>2 DEF GoTogether
  <2> QED BY <1>2, <2>3, SameIteration
<1>9. Len(all) \in 0 .. Len(all)
  BY <1>2, SMT
<1> QED BY <1>1, <1>8, <1>9 DEF all

-------------------------------------------------------------------------------
\* The cells of a stack, one more.
LEMMA OneMore ==
    ASSUME NEW S, NEW s \in Seq(S), NEW k \in 1 .. Len(s)
    PROVE  Append(SubSeq(s, 1, k - 1), s[k]) = SubSeq(s, 1, k)
<1>1. Len(s) \in Nat /\ k - 1 \in 0 .. Len(s) /\ k \in 0 .. Len(s) /\ (k - 1) + 1 = k
      /\ \A i \in 1 .. k : i = k \/ i \in 1 .. k - 1
  <2>1. Len(s) \in Nat
    BY LenProperties
  <2> QED BY <2>1, SMT
<1>2. s[k] \in S
  BY ElementOfSeq
<1> DEFINE a == SubSeq(s, 1, k - 1)
           b == SubSeq(s, 1, k)
<1>3. /\ a \in Seq(S) /\ Len(a) = k - 1 /\ \A i \in 1 .. k - 1 : a[i] = s[i]
      /\ b \in Seq(S) /\ Len(b) = k /\ \A i \in 1 .. k : b[i] = s[i]
  BY <1>1, FirstCells
<1> HIDE DEF a, b
<1>4. /\ Append(a, s[k]) \in Seq(S) /\ Len(Append(a, s[k])) = k
      /\ Append(a, s[k])[k] = s[k] /\ \A i \in 1 .. k - 1 : Append(a, s[k])[i] = a[i]
  BY <1>1, <1>2, <1>3, AppendIs
<1>5. \A i \in 1 .. k : Append(a, s[k])[i] = b[i]
  BY <1>1, <1>3, <1>4
<1>6. Append(a, s[k]) = b
  BY <1>3, <1>4, <1>5, SameCells
<1> QED BY <1>6 DEF a, b

\* What a spelled stack leads to is that stack.
LEMMA SpelledWalk ==
    ASSUME NEW s \in Stack
    PROVE  WalksTo(Spelled(s), s)
<1> DEFINE m == 2 * Len(s) + 1
           w == [n \in 0 .. m |-> SubSeq(s, 1, n \div 2)]
<1>1. /\ Spelled(s) \in Seq(Element) /\ Len(s) \in Nat /\ Len(Spelled(s)) = m
      /\ \A n \in 1 .. m : Spelled(s)[n] = IF n % 2 = 1 THEN Slash ELSE s[n \div 2]
      /\ \A k \in 1 .. Len(s) : s[k] \in PlainName
  BY SpelledIs
<1>2. \A n \in 0 .. m : n \div 2 \in 0 .. Len(s)
  BY <1>1, SMT
<1>3. s \in Seq(PlainName)
  BY DEF Stack
<1>4. \A k \in 0 .. Len(s) : SubSeq(s, 1, k) \in Stack /\ Len(SubSeq(s, 1, k)) = k
  BY <1>3, FirstCells DEF Stack
<1>5. w \in [0 .. m -> Stack]
  BY <1>2, <1>4
<1>6. w[0] = <<>>
  <2>1. 0 \in 0 .. m /\ 0 \div 2 = 0 /\ 0 \in 0 .. Len(s)
    BY <1>1, SMT
  <2>2. w[0] = SubSeq(s, 1, 0)
    BY <2>1
  <2> QED BY <1>4, <2>1, <2>2, EmptySeq DEF Stack
<1>7. w[m] = s
  <2>1. m \in 0 .. m /\ m \div 2 = Len(s) /\ Len(s) \in 0 .. Len(s)
    BY <1>1, SMT
  <2>2. w[m] = SubSeq(s, 1, Len(s))
    BY <2>1
  <2>3. /\ SubSeq(s, 1, Len(s)) \in Seq(PlainName) /\ Len(SubSeq(s, 1, Len(s))) = Len(s)
        /\ \A i \in 1 .. Len(s) : SubSeq(s, 1, Len(s))[i] = s[i]
    BY <1>3, <2>1, FirstCells
  <2> HIDE DEF w
  <2> QED BY <1>3, <2>2, <2>3, SameCells
<1>8. ASSUME NEW n \in 1 .. m PROVE w[n] = StackStep(w[n - 1], Spelled(s)[n])
  <2>1. n \in 0 .. m /\ n - 1 \in 0 .. m
    BY <1>1, SMT
  <2>2. w[n] = SubSeq(s, 1, n \div 2) /\ w[n - 1] = SubSeq(s, 1, (n - 1) \div 2)
    BY <2>1
  <2>3. CASE n % 2 = 1
    <3>1. n \div 2 = (n - 1) \div 2
      BY <2>3, SMT
    <3> QED BY <1>1, <2>2, <2>3, <3>1 DEF StackStep
  <2>4. CASE n % 2 # 1
    <3>1. (n - 1) \div 2 = n \div 2 - 1
      BY <2>4, SMT
    <3>2. n \div 2 \in 1 .. Len(s)
      BY <1>1, <2>4, EvenHalf
    <3> DEFINE k == n \div 2
    <3>3. s[k] \notin {Slash, ".", ".."}
      BY <1>1, <3>2 DEF PlainName
    <3> HIDE DEF k
    <3>4. Append(SubSeq(s, 1, k - 1), s[k]) = SubSeq(s, 1, k)
      BY <1>3, <3>2, OneMore DEF k
    <3>5. StackStep(SubSeq(s, 1, k - 1), s[k]) = SubSeq(s, 1, k)
      BY <3>3, <3>4 DEF StackStep
    <3> HIDE DEF w
    <3> QED BY <1>1, <2>2, <2>4, <3>1, <3>5 DEF k
  <2> QED BY <2>3, <2>4
<1> HIDE DEF w
<1>9. IsWalk(w, Spelled(s), <<>>)
  BY <1>1, <1>5, <1>6, <1>8 DEF IsWalk
<1> QED BY <1>1, <1>7, <1>9 DEF WalksTo

\* The slash at the end of a path leads nowhere else.
LEMMA FrontWalk ==
    ASSUME NEW p, NEW s, WalksTo(p, s), p # <<>>, Last(p) = Slash
    PROVE  WalksTo(Front(p), s)
<1>1. p \in Seq(Element)
  BY DEF WalksTo
<1>2. PICK w : IsWalk(w, p, <<>>) /\ w[Len(p)] = s
  BY DEF WalksTo
<1> DEFINE N == Len(p) - 1
           v == [n \in 0 .. N |-> w[n]]
<1>3. /\ Front(p) \in Seq(Element) /\ Len(Front(p)) = N /\ Len(p) \in Nat \ {0}
      /\ \A i \in 1 .. N : Front(p)[i] = p[i]
  BY <1>1, FrontIs
<1>4. /\ w \in [0 .. Len(p) -> Stack] /\ w[0] = <<>>
      /\ \A n \in 1 .. Len(p) : w[n] = StackStep(w[n - 1], p[n])
  BY <1>2 DEF IsWalk
<1>5. /\ \A n \in 0 .. N : n \in 0 .. Len(p)
      /\ \A n \in 1 .. N : n \in 1 .. Len(p) /\ n \in 0 .. N /\ n - 1 \in 0 .. N
      /\ N \in 0 .. N /\ 0 \in 0 .. N /\ Len(p) \in 1 .. Len(p)
  BY <1>3, SMT
<1>6. v \in [0 .. N -> Stack] /\ v[0] = <<>> /\ \A n \in 0 .. N : v[n] = w[n]
  BY <1>4, <1>5
<1> HIDE DEF v
<1>7. \A n \in 1 .. N : v[n] = StackStep(v[n - 1], Front(p)[n])
  BY <1>3, <1>4, <1>5, <1>6
<1>8. IsWalk(v, Front(p), <<>>)
  BY <1>3, <1>6, <1>7 DEF IsWalk
<1>9. v[N] = s
  <2>1. p[Len(p)] = Slash
    BY DEF Last
  <2>2. w[Len(p)] = w[N]
    BY <1>4, <1>5, <2>1 DEF StackStep
  <2> QED BY <1>2, <1>5, <1>6, <2>2
<1> QED BY <1>3, <1>8, <1>9 DEF WalksTo

\* A path starts at the root or in the directory.
Base(path, s) == IF Head(path) = Slash THEN <<>> ELSE s

\* Behind a path the next goes on, again.
LEMMA WalksOn ==
    ASSUME NEW p, NEW s, WalksTo(p, s), NEW q \in Seq(Element), NEW v, IsWalk(v, q, s)
    PROVE  WalksTo(p \o q, v[Len(q)])
<1>1. PICK u : IsWalk(u, p, <<>>) /\ u[Len(p)] = s
  BY DEF WalksTo
<1>2. p \in Seq(Element)
  BY DEF WalksTo
<1>3. IsWalk(v, q, u[Len(p)]) /\ IsWalk(u, p, <<>>)
  BY <1>1
<1>4. \E w : IsWalk(w, p \o q, <<>>) /\ w[Len(p \o q)] = v[Len(q)]
  BY <1>2, <1>3, WalkOn
<1>5. p \o q \in Seq(Element)
  BY <1>2, ConcatIs
<1> QED BY <1>4, <1>5 DEF WalksTo

\* What a path means is where it leads from there.
LEMMA MeaningIs ==
    ASSUME NEW d, NEW s \in Stack, WalksTo(d, s), NEW path \in Seq(Element),
           NEW st, IsWalk(st, path, Base(path, s))
    PROVE  Meaning(d, path) = st[Len(path)]
<1>1. CASE Head(path) = Slash
  <2>1. AllOf(d, path) = path /\ Base(path, s) = <<>>
    BY <1>1 DEF AllOf, Base
  <2> QED BY <2>1, MeaningWalk
<1>2. CASE Head(path) # Slash
  <2>1. AllOf(d, path) = (d \o Root) \o path /\ Base(path, s) = s
    BY <1>2 DEF AllOf, Base
  <2>2. Root \in Seq(Element) /\ Len(Root) = 1 /\ Root[1] = Slash
    <3>1. Slash \in Element
      BY DEF Element
    <3> QED BY <3>1 DEF Root
  <2>3. PICK v : IsWalk(v, Root, s)
    BY <2>2, WalkExists
  <2>4. v[1] = s
    <3>1. v[1] = StackStep(v[1 - 1], Slash) /\ v[0] = s
      BY <2>2, <2>3, SMT DEF IsWalk
    <3> QED BY <3>1 DEF StackStep
  <2>5. WalksTo(d \o Root, s)
    BY <2>2, <2>3, <2>4, WalksOn
  <2> DEFINE p == d \o Root
           q == p \o path
  <2>6. WalksTo(p, s) /\ AllOf(d, path) = q
    BY <2>1, <2>5
  <2> HIDE DEF p
  <2>7. WalksTo(q, st[Len(path)])
    BY <2>1, <2>6, WalksOn
  <2> HIDE DEF q
  <2>8. q \in Seq(Element) /\ \E x : IsWalk(x, q, <<>>) /\ x[Len(q)] = st[Len(path)]
    BY <2>7 DEF WalksTo
  <2> QED BY <2>6, <2>8, MeaningWalk
<1> QED BY <1>1, <1>2

-------------------------------------------------------------------------------
\* Elements of a path that are not names.
Marks == {Slash, ".", ".."}

\* The output of remove_dotslash() behind n elements: the stack, spelled, and behind
\* a name without its last slash.
OutputOf(st, path, n) ==
    IF n = 0 \/ path[n] \in Marks THEN Spelled(st[n]) ELSE Append(Spelled(st[n - 1]), path[n])

\* With a slash at its end the output is the stack, spelled.
LEMMA OutputEnds ==
    ASSUME NEW path \in Seq(Element), NEW s, NEW st, IsWalk(st, path, s), NEW n \in 0 .. Len(path)
    PROVE  Ended(OutputOf(st, path, n)) = Spelled(st[n]) /\ st[n] \in Stack
<1>1. Len(path) \in Nat
  BY LenProperties
<1>2. st[n] \in Stack
  BY DEF IsWalk
<1>3. CASE n = 0 \/ path[n] \in Marks
  <2>1. OutputOf(st, path, n) = Spelled(st[n])
    BY <1>3 DEF OutputOf
  <2> QED BY <1>2, <2>1, SpelledEnds
<1>4. CASE n # 0 /\ path[n] \notin Marks
  <2>1. n \in 1 .. Len(path) /\ n - 1 \in 0 .. Len(path)
    BY <1>1, <1>4, SMT
  <2>2. path[n] \in Element
    BY <2>1, ElementOfSeq
  <2>3. path[n] \in PlainName
    BY <1>4, <2>2 DEF Marks, PlainName
  <2>4. st[n] = Append(st[n - 1], path[n]) /\ st[n - 1] \in Stack
    <3>1. st[n] = StackStep(st[n - 1], path[n]) /\ st[n - 1] \in Stack
      BY <2>1 DEF IsWalk
    <3> QED BY <1>4, <3>1 DEF StackStep, Marks
  <2>5. OutputOf(st, path, n) = Append(Spelled(st[n - 1]), path[n])
    BY <1>4 DEF OutputOf
  <2> QED BY <1>2, <2>3, <2>4, <2>5, SpelledAppend
<1> QED BY <1>3, <1>4

\* An element of the path takes the output behind the ones before it to the next.
LEMMA OutputStep ==
    ASSUME NEW path \in Seq(Element), IsPath(path), NEW s, NEW st, IsWalk(st, path, s),
           NEW n \in 1 .. Len(path)
    PROVE  CopyStep(OutputOf(st, path, n - 1), path[n]) = OutputOf(st, path, n)
<1>1. Len(path) \in Nat /\ n - 1 \in 0 .. Len(path) /\ n \in 0 .. Len(path) /\ n # 0
  BY LenProperties, SMT
<1>2. st[n] = StackStep(st[n - 1], path[n]) /\ st[n - 1] \in Stack
  BY <1>1 DEF IsWalk
<1>3. CASE path[n] = Slash
  <2>1. st[n] = st[n - 1]
    BY <1>2, <1>3 DEF StackStep
  <2>2. CopyStep(OutputOf(st, path, n - 1), path[n]) = Ended(OutputOf(st, path, n - 1))
    BY <1>3 DEF CopyStep, Slash
  <2>3. Ended(OutputOf(st, path, n - 1)) = Spelled(st[n - 1])
    BY <1>1, OutputEnds
  <2>4. OutputOf(st, path, n) = Spelled(st[n])
    BY <1>3 DEF OutputOf, Marks
  <2> QED BY <2>1, <2>2, <2>3, <2>4
<1>4. CASE path[n] # Slash
  <2>1. OutputOf(st, path, n - 1) = Spelled(st[n - 1])
    <3>1. CASE n - 1 = 0
      BY <3>1 DEF OutputOf
    <3>2. CASE n - 1 # 0
      <4>1. n - 1 \in 1 .. Len(path) - 1 /\ (n - 1) + 1 = n
        BY <1>1, <3>2, SMT
      <4>2. path[n - 1] = Slash \/ path[(n - 1) + 1] = Slash
        BY <4>1 DEF IsPath
      <4>3. path[n - 1] = Slash
        BY <1>4, <4>1, <4>2
      <4> QED BY <4>3 DEF OutputOf, Marks
    <3> QED BY <3>1, <3>2
  <2>2. CASE path[n] = ".."
    <3>1. OutputOf(st, path, n) = Spelled(st[n])
      BY <2>2 DEF OutputOf, Marks
    <3>2. CopyStep(OutputOf(st, path, n - 1), path[n]) = Back(Spelled(st[n - 1]))
      BY <2>1, <2>2 DEF CopyStep
    <3>3. st[n] = IF st[n - 1] = <<>> THEN <<>> ELSE Front(st[n - 1])
      BY <1>2, <2>2 DEF StackStep, Slash
    <3> QED BY <1>2, <3>1, <3>2, <3>3, SpelledBack
  <2>3. CASE path[n] = "."
    <3>1. OutputOf(st, path, n) = Spelled(st[n])
      BY <2>3 DEF OutputOf, Marks
    <3>2. CopyStep(OutputOf(st, path, n - 1), path[n]) = OutputOf(st, path, n - 1)
      BY <2>3 DEF CopyStep
    <3>3. st[n] = st[n - 1]
      BY <1>2, <2>3 DEF StackStep
    <3> QED BY <2>1, <3>1, <3>2, <3>3
  <2>4. CASE path[n] \notin {".", ".."}
    <3>1. OutputOf(st, path, n) = Append(Spelled(st[n - 1]), path[n])
      BY <1>1, <1>4, <2>4 DEF OutputOf, Marks
    <3>2. CopyStep(OutputOf(st, path, n - 1), path[n]) = Append(Spelled(st[n - 1]), path[n])
      BY <1>4, <2>1, <2>4 DEF CopyStep
    <3> QED BY <3>1, <3>2
  <2> QED BY <2>2, <2>3, <2>4
<1> QED BY <1>3, <1>4

\* The root is the empty stack, spelled.
LEMMA RootSpelled == Spelled(<<>>) = Root /\ <<>> \in Stack
<1>1. Len(<<>>) = 0 /\ <<>> \in Stack
  BY EmptySeq DEF Stack
<1>2. Spelled(<<>>) \in Seq(Element) /\ Len(Spelled(<<>>)) = 1 /\ Spelled(<<>>)[1] = Slash
  <2>1. 2 * 0 + 1 = 1 /\ 0 \in 0 .. 0
    BY SMT
  <2>2. /\ Spelled(<<>>) \in Seq(Element) /\ Len(Spelled(<<>>)) = 2 * Len(<<>>) + 1
        /\ \A k \in 0 .. Len(<<>>) : Spelled(<<>>)[2 * k + 1] = Slash
    BY <1>1, SpelledIs, Zenon
  <2> QED BY <1>1, <2>1, <2>2
<1>3. Root \in Seq({Slash}) /\ Len(Root) = 1 /\ Root[1] = Slash
  BY DEF Root
<1> DEFINE x == Spelled(<<>>)
<1> HIDE DEF x
<1>4. x \in Seq(Element) /\ Len(x) = 1 /\ x[1] = Slash
  BY <1>2 DEF x
<1>5. x = Root
  <2>1. \A i \in 1 .. Len(x) : x[i] = Root[i]
    BY <1>3, <1>4, SMT
  <2> QED BY <1>3, <1>4, <2>1, SameCells
<1> QED BY <1>1, <1>5 DEF x

\* remove_dotslash() gives what the path leads to.
LEMMA OutputIs ==
    ASSUME NEW d, NEW s \in Stack, Ended(d) = Spelled(s),
           NEW path \in Seq(Element), IsPath(path),
           NEW st, IsWalk(st, path, Base(path, s))
    PROVE  /\ remove_dotslash(d, path, 0) = OutputOf(st, path, Len(path))
           /\ remove_dotslash(d, path, 1) = Spelled(st[Len(path)])
           /\ Ended(remove_dotslash(d, path, 0)) = Spelled(st[Len(path)])
<1> DEFINE N == Len(path)
           start == IF Head(path) = Slash THEN Root ELSE Ended(d)
           P(b) == b = [n \in 0 .. N |->
                IF n = 0 THEN start
                ELSE CASE path[n] = ".."  -> Back(b[n - 1])
                       [] path[n] = "."   -> b[n - 1]
                       [] path[n] = Slash -> Ended(b[n - 1])
                       [] OTHER           -> Append(b[n - 1], path[n])]
           all == (CHOOSE b : P(b))[N]
<1>1. \A k \in {0, 1} : remove_dotslash(d, path, k) = IF k = 1 THEN Ended(all) ELSE all
  BY DEF remove_dotslash
<1>2. N \in Nat /\ N \in 0 .. N /\ \A n \in 0 .. N : n # 0 => n \in 1 .. N
  <2>1. N \in Nat
    BY LenProperties
  <2> QED BY <2>1, SMT
<1>3. start = OutputOf(st, path, 0)
  <2>1. Spelled(<<>>) = Root
    BY RootSpelled
  <2>2. st[0] = Base(path, s)
    BY DEF IsWalk
  <2>3. OutputOf(st, path, 0) = Spelled(Base(path, s))
    BY <2>2 DEF OutputOf
  <2> QED BY <2>1, <2>3 DEF Base
<1>4. \A b : P(b) <=> b = [n \in 0 .. N |->
                IF n = 0 THEN start ELSE CopyStep(b[n - 1], path[n])]
  <2> TAKE b
  <2> HIDE DEF start, N
  <2>1. \A n \in 0 .. N :
            (CASE path[n] = ".."  -> Back(b[n - 1])
               [] path[n] = "."   -> b[n - 1]
               [] path[n] = Slash -> Ended(b[n - 1])
               [] OTHER           -> Append(b[n - 1], path[n]))
            = CopyStep(b[n - 1], path[n])
    BY DEF CopyStep, Slash
  <2> DEFINE F == [n \in 0 .. N |->
                IF n = 0 THEN start
                ELSE CASE path[n] = ".."  -> Back(b[n - 1])
                       [] path[n] = "."   -> b[n - 1]
                       [] path[n] = Slash -> Ended(b[n - 1])
                       [] OTHER           -> Append(b[n - 1], path[n])]
             G == [n \in 0 .. N |-> IF n = 0 THEN start ELSE CopyStep(b[n - 1], path[n])]
  <2>2. ASSUME NEW n \in 0 .. N PROVE F[n] = G[n]
    <3>1. CASE n = 0
      BY <3>1
    <3>2. CASE n # 0
      <4>1. G[n] = CopyStep(b[n - 1], path[n])
        BY <3>2
      <4>2. F[n] = CASE path[n] = ".."  -> Back(b[n - 1])
               [] path[n] = "."   -> b[n - 1]
               [] path[n] = Slash -> Ended(b[n - 1])
               [] OTHER           -> Append(b[n - 1], path[n])
        BY <3>2
      <4> QED BY <2>1, <4>1, <4>2
    <3> QED BY <3>1, <3>2
  <2>3. F = [n \in 0 .. N |-> F[n]] /\ G = [n \in 0 .. N |-> G[n]]
    OBVIOUS
  <2>4. P(b) <=> b = F
    OBVIOUS
  <2> HIDE DEF F, P
  <2>5. F = G
    <3> HIDE DEF G
    <3> QED BY <2>2, <2>3
  <2> HIDE DEF G
  <2>6. P(b) <=> b = G
    BY <2>4, <2>5
  <2> QED BY <2>6, Zenon DEF G
<1> HIDE DEF P, start, N
<1> DEFINE g == [n \in 0 .. N |-> OutputOf(st, path, n)]
<1>5. P(g)
  <2>1. ASSUME NEW n \in 0 .. N
        PROVE  OutputOf(st, path, n) = IF n = 0 THEN start ELSE CopyStep(g[n - 1], path[n])
    <3>1. CASE n = 0
      BY <1>3, <3>1
    <3>2. CASE n # 0
      <4>1. n \in 1 .. N /\ n - 1 \in 0 .. N
        BY <1>2, <3>2, SMT
      <4>2. CopyStep(OutputOf(st, path, n - 1), path[n]) = OutputOf(st, path, n)
        BY <4>1, OutputStep DEF N
      <4>3. g[n - 1] = OutputOf(st, path, n - 1)
        BY <4>1
      <4> HIDE DEF g
      <4> QED BY <3>2, <4>2, <4>3
    <3> QED BY <3>1, <3>2
  <2>2. g = [n \in 0 .. N |-> IF n = 0 THEN start ELSE CopyStep(g[n - 1], path[n])]
    BY <2>1
  <2> HIDE DEF g
  <2> QED BY <1>4, <2>2
<1> DEFINE m == CHOOSE b : P(b)
<1>6. P(m)
  <2> HIDE DEF g
  <2> QED BY <1>5
<1> HIDE DEF m
<1>7. m[0] = start /\ \A n \in 1 .. N : m[n] = CopyStep(m[n - 1], path[n])
  <2>1. m = [n \in 0 .. N |-> IF n = 0 THEN start ELSE CopyStep(m[n - 1], path[n])]
    BY <1>4, <1>6
  <2>2. 0 \in 0 .. N /\ \A n \in 1 .. N : n \in 0 .. N /\ n # 0
    BY <1>2, SMT
  <2> QED BY <2>1, <2>2
<1>8. m[N] = OutputOf(st, path, N)
  <2>1. g[0] = start /\ \A n \in 1 .. N : g[n] = CopyStep(g[n - 1], path[n])
    <3> DEFINE h == g
    <3>1. h = [n \in 0 .. N |-> IF n = 0 THEN start ELSE CopyStep(h[n - 1], path[n])]
      <4> HIDE DEF g
      <4> QED BY <1>4, <1>5
    <3>2. 0 \in 0 .. N /\ \A n \in 1 .. N : n \in 0 .. N /\ n # 0
      BY <1>2, SMT
    <3> HIDE DEF g
    <3> QED BY <3>1, <3>2
  <2>2. g[N] = OutputOf(st, path, N)
    BY <1>2
  <2> HIDE DEF g
  <2>3. \A n \in 1 .. N : m[n - 1] = g[n - 1] => m[n] = g[n]
    BY <1>7, <2>1
  <2>4. m[0] = g[0]
    BY <1>7, <2>1
  <2>5. \A n \in 0 .. N : m[n] = g[n]
    <3>1. GoTogether(m, g, N)
      BY <2>3, <2>4 DEF GoTogether
    <3> QED BY <1>2, <3>1, SameIteration
  <2> QED BY <1>2, <2>2, <2>5
<1>9. all = m[N]
  BY DEF m
<1>10. Ended(OutputOf(st, path, N)) = Spelled(st[N])
  BY <1>2, OutputEnds DEF N
<1> QED BY <1>1, <1>8, <1>9, <1>10 DEF N

-------------------------------------------------------------------------------
\* Every string is an element of a path.
LEMMA Wider ==
    ASSUME NEW p \in Seq(STRING)
    PROVE  p \in Seq(Element)
<1>1. p \in [1 .. Len(p) -> STRING] /\ Len(p) \in Nat
  BY LenProperties
<1>2. STRING \subseteq Element
  BY DEF Element
<1>3. p \in [1 .. Len(p) -> Element]
  BY <1>1, <1>2
<1> QED BY <1>1, <1>3, IsASeq

\* A directory that is a stack of names.
Spells(d, s) == s \in Stack /\ Ended(d) = Spelled(s) /\ WalksTo(d, s)

\* A stack, spelled, is such a directory, and without its last slash too.
LEMMA SpelledSpells ==
    ASSUME NEW s \in Stack
    PROVE  Spells(Spelled(s), s) /\ (s # <<>> => Spells(Front(Spelled(s)), s))
<1>1. Ended(Spelled(s)) = Spelled(s) /\ Last(Spelled(s)) = Slash
  BY SpelledEnds
<1>2. WalksTo(Spelled(s), s)
  BY SpelledWalk
<1>3. ASSUME s # <<>> PROVE Spells(Front(Spelled(s)), s)
  <2> DEFINE r == Front(s)
             c == s[Len(s)]
  <2>1. /\ r \in Seq(PlainName) /\ Len(r) = Len(s) - 1 /\ Len(s) \in Nat \ {0}
        /\ \A i \in 1 .. Len(s) - 1 : r[i] = s[i]
    BY <1>3, FrontIs DEF Stack
  <2>2. c \in PlainName
    BY <2>1, ElementOfSeq DEF Stack
  <2> HIDE DEF r, c
  <2>3. Append(r, c) = s
    <3>1. /\ Append(r, c) \in Seq(PlainName) /\ Len(Append(r, c)) = Len(r) + 1
          /\ Append(r, c)[Len(r) + 1] = c /\ \A i \in 1 .. Len(r) : Append(r, c)[i] = r[i]
      BY <2>1, <2>2, AppendIs
    <3>2. Len(r) + 1 = Len(s) /\ \A i \in 1 .. Len(s) : i = Len(s) \/ i \in 1 .. Len(r)
      BY <2>1, SMT
    <3>3. \A i \in 1 .. Len(s) : Append(r, c)[i] = s[i]
      BY <2>1, <3>1, <3>2 DEF c
    <3> QED BY <3>1, <3>2, <3>3, SameCells DEF Stack
  <2>4. r \in Stack
    BY <2>1 DEF Stack
  <2>5. Ended(Append(Spelled(r), c)) = Spelled(s) /\ Append(Spelled(r), c) = Front(Spelled(s))
    BY <2>2, <2>3, <2>4, SpelledAppend
  <2>6. Spelled(s) # <<>>
    <3>1. Spelled(s) \in Seq(Element) /\ Len(Spelled(s)) = 2 * Len(s) + 1 /\ Len(s) \in Nat
      BY SpelledIs
    <3>2. Len(Spelled(s)) # 0
      BY <3>1, SMT
    <3> QED BY <3>1, <3>2, EmptySeq
  <2>7. WalksTo(Front(Spelled(s)), s)
    BY <1>1, <1>2, <2>6, FrontWalk
  <2> QED BY <2>5, <2>7 DEF Spells
<1> QED BY <1>1, <1>2, <1>3 DEF Spells

\* The stack of a plain name.
StackOf(name) == [k \in 1 .. (Len(name) + 1) \div 2 |-> name[2 * k - 1]]

\* Whole numbers.
LEMMA Halves ==
    ASSUME NEW n \in Nat
    PROVE  /\ (n + 1) \div 2 \in Nat
           /\ n % 2 = 0 => 2 * ((n + 1) \div 2) = n
           /\ n % 2 # 0 => 2 * ((n + 1) \div 2) = n + 1
           /\ \A k \in 1 .. (n + 1) \div 2 : 2 * k - 1 \in 1 .. n /\ (2 * k - 1) % 2 # 0
           /\ \A i \in 1 .. n : i % 2 = 0 \/ (i % 2 # 0 /\ 2 * ((i + 1) \div 2) - 1 = i
                                              /\ (i + 1) \div 2 \in 1 .. (n + 1) \div 2
                                              /\ i + 1 = 2 * ((i + 1) \div 2))
           /\ \A i \in 1 .. n : i % 2 = 0 => (i + 1) % 2 = 1
           /\ \A i \in 1 .. n : i % 2 # 0 => (i + 1) % 2 # 1
  BY SMT

\* A plain name behind the root is its stack, spelled.
LEMMA PlainSpells ==
    ASSUME NEW name, IsPlain(name)
    PROVE  /\ Spells(Root \o name, StackOf(name)) /\ StackOf(name) # <<>>
           /\ Last(name) = Slash => Root \o name = Spelled(StackOf(name))
<1> DEFINE s == StackOf(name)
           L == Len(name)
           h == (L + 1) \div 2
           p == Root \o name
<1>1. /\ name \in Seq(Element) /\ name \in Seq(STRING) /\ L \in Nat \ {0} /\ DOMAIN name = 1 .. L
      /\ \A k \in 1 .. L : IF k % 2 = 0 THEN name[k] = Slash ELSE name[k] \notin Marks
  <2>1. name \in Seq(STRING) /\ name # <<>>
    BY DEF IsPlain
  <2>2. name \in Seq(Element)
    BY <2>1, Wider
  <2>3. L \in Nat \ {0}
    BY <2>1, EmptySeq
  <2>4. DOMAIN name = 1 .. L
    BY <2>1
  <2> QED BY <2>1, <2>2, <2>3, <2>4 DEF IsPlain, Marks
<1>2. /\ h \in Nat /\ \A k \in 1 .. h : 2 * k - 1 \in 1 .. L /\ (2 * k - 1) % 2 # 0
      /\ \A i \in 1 .. L : i % 2 = 0 \/ (i % 2 # 0 /\ 2 * ((i + 1) \div 2) - 1 = i
                                         /\ (i + 1) \div 2 \in 1 .. h
                                         /\ i + 1 = 2 * ((i + 1) \div 2))
      /\ \A i \in 1 .. L : i % 2 = 0 => (i + 1) % 2 = 1
      /\ \A i \in 1 .. L : i % 2 # 0 => (i + 1) % 2 # 1
      /\ L % 2 = 0 => 2 * h = L
      /\ L % 2 # 0 => 2 * h = L + 1
  BY <1>1, Halves
<1>3. \A k \in 1 .. h : name[2 * k - 1] \in PlainName
  <2>1. \A k \in 1 .. L : name[k] \in Element
    BY <1>1, ElementOfSeq
  <2> HIDE DEF h, L
  <2> QED BY <1>1, <1>2, <2>1 DEF PlainName, Marks
<1>4. /\ s \in Stack /\ Len(s) = h /\ h # 0
      /\ \A k \in 1 .. h : s[k] = name[2 * k - 1]
  <2>1. s = [k \in 1 .. h |-> name[2 * k - 1]]
    BY DEF StackOf
  <2> HIDE DEF s, h, L
  <2>2. s \in [1 .. h -> PlainName]
    BY <1>3, <2>1
  <2>3. s \in Seq(PlainName) /\ Len(s) = h
    BY <1>2, <2>2, IsASeq, LenProperties
  <2>4. h # 0
    BY <1>1, <1>2, SMT
  <2> QED BY <2>1, <2>3, <2>4 DEF Stack
<1>5. /\ Spelled(s) \in Seq(Element) /\ Len(Spelled(s)) = 2 * h + 1
      /\ \A k \in 1 .. h : Spelled(s)[2 * k] = s[k]
      /\ \A n \in 1 .. 2 * h + 1 : n % 2 = 1 => Spelled(s)[n] = Slash
      /\ Spelled(s) # <<>>
  <2> HIDE DEF s, h
  <2>1. /\ Spelled(s) \in Seq(Element) /\ Len(Spelled(s)) = 2 * h + 1
        /\ \A k \in 1 .. h : Spelled(s)[2 * k] = s[k]
        /\ \A n \in 1 .. 2 * h + 1 : Spelled(s)[n] = IF n % 2 = 1 THEN Slash ELSE s[n \div 2]
    BY <1>4, SpelledIs
  <2>2. 2 * h + 1 # 0
    BY <1>2, SMT
  <2> QED BY <2>1, <2>2, EmptySeq
<1>6. /\ p \in Seq(Element) /\ Len(p) = L + 1 /\ p[1] = Slash
      /\ \A i \in 1 .. L : p[i + 1] = name[i]
  <2>1. Root \in Seq(Element) /\ Len(Root) = 1 /\ Root[1] = Slash
    <3>1. Slash \in Element
      BY DEF Element
    <3> QED BY <3>1 DEF Root
  <2>2. /\ p \in Seq(Element) /\ Len(p) = 1 + L
        /\ p[1] = Root[1]
        /\ \A i \in 1 .. L : p[1 + i] = name[i]
    <3>1. /\ p \in Seq(Element) /\ Len(p) = Len(Root) + L
          /\ \A i \in 1 .. Len(Root) : p[i] = Root[i]
          /\ \A i \in 1 .. L : p[Len(Root) + i] = name[i]
      <4> DEFINE r == Root
      <4>1. r \in Seq(Element) /\ name \in Seq(Element)
        BY <1>1, <2>1
      <4>2. p = r \o name
        OBVIOUS
      <4> HIDE DEF r, p, L
      <4>3. /\ r \o name \in Seq(Element) /\ Len(r \o name) = Len(r) + Len(name)
            /\ \A i \in 1 .. Len(r) : (r \o name)[i] = r[i]
            /\ \A i \in 1 .. Len(name) : (r \o name)[Len(r) + i] = name[i]
        BY <4>1, ConcatIs
      <4> QED BY <4>2, <4>3 DEF r, L
    <3>2. 1 \in 1 .. Len(Root)
      BY <2>1, SMT
    <3> HIDE DEF p, L
    <3> QED BY <2>1, <3>1, <3>2
  <2>3. \A i \in 1 .. L : 1 + i = i + 1
    BY <1>1, SMT
  <2> HIDE DEF p, L
  <2> QED BY <1>1, <2>1, <2>2, <2>3, SMT
<1> HIDE DEF s, h, p, L
<1>7. ASSUME NEW i \in 1 .. L + 1, i <= 2 * h + 1 PROVE p[i] = Spelled(s)[i]
  <2>1. CASE i = 1
    <3>1. 1 \in 1 .. 2 * h + 1 /\ 1 % 2 = 1
      BY <1>2, SMT
    <3> QED BY <1>5, <1>6, <2>1, <3>1
  <2>2. CASE i # 1
    <3> DEFINE j == i - 1
    <3>1. j \in 1 .. L /\ i = j + 1 /\ i \in 1 .. 2 * h + 1
      BY <1>1, <1>2, <1>7, <2>2, SMT
    <3> HIDE DEF j
    <3>2. CASE j % 2 = 0
      <4>1. i % 2 = 1
        BY <1>2, <3>1, <3>2
      <4> QED BY <1>1, <1>5, <1>6, <3>1, <3>2, <4>1
    <3>3. CASE j % 2 # 0
      <4> DEFINE k == (j + 1) \div 2
      <4>1. 2 * k - 1 = j /\ k \in 1 .. h /\ i = 2 * k
        BY <1>2, <3>1, <3>3
      <4> HIDE DEF k
      <4>2. Spelled(s)[i] = s[k]
        BY <1>5, <4>1
      <4>3. s[k] = name[j]
        BY <1>4, <4>1
      <4> QED BY <1>6, <3>1, <4>2, <4>3
    <3> QED BY <3>2, <3>3
  <2> QED BY <2>1, <2>2
<1>8. Last(name) = Slash <=> L % 2 = 0
  <2>1. L \in 1 .. L
    BY <1>1, SMT
  <2>2. Last(name) = name[L]
    BY DEF Last, L
  <2> QED BY <1>1, <2>1, <2>2 DEF Marks
<1>9. s # <<>>
  BY <1>4, EmptySeq DEF Stack
<1>10. CASE L % 2 = 0
  <2>1. L + 1 = 2 * h + 1 /\ \A i \in 1 .. L + 1 : i <= 2 * h + 1
    BY <1>1, <1>2, <1>10, SMT
  <2>2. p = Spelled(s)
    BY <1>5, <1>6, <1>7, <2>1, SameCells
  <2> QED BY <1>4, <1>9, <2>2, SpelledSpells DEF p, s
<1>11. CASE L % 2 # 0
  <2>1. L + 1 = (2 * h + 1) - 1 /\ \A i \in 1 .. L + 1 : i <= 2 * h + 1
    BY <1>1, <1>2, <1>11, SMT
  <2>2. /\ Front(Spelled(s)) \in Seq(Element) /\ Len(Front(Spelled(s))) = L + 1
        /\ \A i \in 1 .. L + 1 : Front(Spelled(s))[i] = Spelled(s)[i]
    BY <1>5, <2>1, FrontIs
  <2>3. \A i \in 1 .. L + 1 : p[i] = Front(Spelled(s))[i]
    BY <1>7, <2>1, <2>2
  <2>4. p = Front(Spelled(s))
    BY <1>6, <2>2, <2>3, SameCells
  <2> QED BY <1>4, <1>8, <1>9, <1>11, <2>4, SpelledSpells DEF p, s
<1> QED BY <1>10, <1>11

-------------------------------------------------------------------------------
\* The first of some numbers.
LEMMA FirstIs ==
    ASSUME NEW S \in SUBSET Nat, S # {}
    PROVE  FirstOf(S) \in S /\ \A m \in S : FirstOf(S) <= m
<1>1. \E n \in S : \A m \in S : n <= m
  BY LeastNumber
<1> QED BY <1>1 DEF FirstOf

\* A sequence without its first cell.
LEMMA TailIs ==
    ASSUME NEW S, NEW p \in Seq(S), p # <<>>
    PROVE  /\ Tail(p) \in Seq(S) /\ Len(p) \in Nat \ {0} /\ Len(Tail(p)) = Len(p) - 1
           /\ Head(p) = p[1]
           /\ \A i \in 1 .. Len(p) - 1 : Tail(p)[i] = p[i + 1]
<1>1. Len(p) \in Nat \ {0}
  BY EmptySeq
<1> QED BY <1>1, HeadTailProperties

\* A path that starts with a slash.
LEMMA RootAndTail ==
    ASSUME NEW p \in Seq(Element), p # <<>>, Head(p) = Slash
    PROVE  Root \o Tail(p) = p
<1>1. /\ Tail(p) \in Seq(Element) /\ Len(p) \in Nat \ {0} /\ Len(Tail(p)) = Len(p) - 1
      /\ p[1] = Slash
      /\ \A i \in 1 .. Len(p) - 1 : Tail(p)[i] = p[i + 1]
  BY TailIs
<1> DEFINE r == Root
           q == Tail(p)
<1>2. r \in Seq(Element) /\ Len(r) = 1 /\ r[1] = Slash
  <2>1. Slash \in Element
    BY DEF Element
  <2> QED BY <2>1 DEF Root
<1>3. q \in Seq(Element) /\ Len(q) = Len(p) - 1 /\ \A i \in 1 .. Len(p) - 1 : q[i] = p[i + 1]
  BY <1>1
<1> HIDE DEF r, q
<1>4. /\ r \o q \in Seq(Element) /\ Len(r \o q) = Len(r) + Len(q)
      /\ \A i \in 1 .. Len(r) : (r \o q)[i] = r[i]
      /\ \A i \in 1 .. Len(q) : (r \o q)[Len(r) + i] = q[i]
  <2>1. r \in Seq(Element) /\ q \in Seq(Element)
    BY <1>2, <1>3
  <2> QED BY <2>1, ConcatIs
<1>5. 1 + (Len(p) - 1) = Len(p) /\ 1 \in 1 .. 1
      /\ \A i \in 1 .. Len(p) : i = 1 \/ (i - 1 \in 1 .. Len(p) - 1 /\ 1 + (i - 1) = i /\ (i - 1) + 1 = i)
  <2> DEFINE N == Len(p)
  <2>1. N \in Nat \ {0}
    BY <1>1
  <2> HIDE DEF N
  <2>2. 1 + (N - 1) = N /\ 1 \in 1 .. 1
        /\ \A i \in 1 .. N : i = 1 \/ (i - 1 \in 1 .. N - 1 /\ 1 + (i - 1) = i /\ (i - 1) + 1 = i)
    BY <2>1, SMT
  <2> QED BY <2>2 DEF N
<1> DEFINE x == r \o q
<1>6. x \in Seq(Element) /\ Len(x) = Len(p)
  BY <1>2, <1>3, <1>4, <1>5
<1>7. ASSUME NEW i \in 1 .. Len(p) PROVE x[i] = p[i]
  <2>1. CASE i = 1
    BY <1>1, <1>2, <1>4, <1>5, <2>1
  <2>2. CASE i # 1
    <3>1. i - 1 \in 1 .. Len(p) - 1 /\ 1 + (i - 1) = i /\ (i - 1) + 1 = i
      BY <1>5, <2>2
    <3>2. (r \o q)[1 + (i - 1)] = q[i - 1]
      BY <1>2, <1>3, <1>4, <3>1
    <3> QED BY <1>3, <3>1, <3>2
  <2> QED BY <2>1, <2>2
<1> HIDE DEF x
<1>8. x = p
  BY <1>6, <1>7, SameCells
<1> QED BY <1>8 DEF x, r, q

\* A directory of the archive is a stack of names.
LEMMA DirectorySpells ==
    ASSUME NEW d \in Directory
    PROVE  \E s : Spells(d, s) /\ d = Spelled(s)
<1>1. CASE d = Root
  <2>1. Spelled(<<>>) = Root /\ <<>> \in Stack
    BY RootSpelled
  <2>2. Spells(Spelled(<<>>), <<>>)
    BY <2>1, SpelledSpells
  <2> QED BY <1>1, <2>1, <2>2
<1>2. CASE d # Root
  <2>1. PICK n \in DOMAIN Archive : d = Root \o Archive[n].name /\ IsDirectory(Archive[n])
    BY <1>2 DEF Directory, ToSet
  <2>2. IsPlain(Archive[n].name) /\ Last(Archive[n].name) = Slash
    BY <2>1, ArchiveAssumption
  <2> DEFINE name == Archive[n].name
  <2> HIDE DEF name
  <2>3. Spells(Root \o name, StackOf(name)) /\ Root \o name = Spelled(StackOf(name))
    BY <2>2, PlainSpells DEF name
  <2> QED BY <2>1, <2>3 DEF name
<1> QED BY <1>1, <1>2

\* So is a directory of PATH.
LEMMA SearchSpells ==
    ASSUME NEW dirs \in SearchPaths, NEW k \in DOMAIN dirs
    PROVE  \E s : Spells(dirs[k], s)
<1> DEFINE d == dirs[k]
<1>1. dirs \in Seq(Seq(STRING)) /\ d # <<>> /\ Head(d) = Slash /\ (d = Root \/ IsPlain(Tail(d)))
  BY FileAssumption
<1>2. d \in Seq(STRING)
  <2>1. k \in 1 .. Len(dirs)
    BY <1>1
  <2> QED BY <1>1, <2>1, ElementOfSeq
<1> HIDE DEF d
<1>3. d \in Seq(Element)
  BY <1>2, Wider
<1>4. CASE d = Root
  BY <1>4, DirectorySpells DEF Directory, d
<1>5. CASE IsPlain(Tail(d))
  <2> DEFINE name == Tail(d)
  <2>1. Root \o name = d
    BY <1>1, <1>3, RootAndTail
  <2> HIDE DEF name
  <2>2. Spells(Root \o name, StackOf(name))
    BY <1>5, PlainSpells DEF name
  <2> QED BY <2>1, <2>2 DEF d
<1> QED BY <1>1, <1>4, <1>5

\* remove_dotslash() gives what the path means.
LEMMA Resolves ==
    ASSUME NEW d, NEW s, Spells(d, s), NEW path, IsPath(path)
    PROVE  /\ Meaning(d, path) \in Stack
           /\ remove_dotslash(d, path, 1) = Spelled(Meaning(d, path))
           /\ Ended(remove_dotslash(d, path, 0)) = Spelled(Meaning(d, path))
<1>1. s \in Stack /\ Ended(d) = Spelled(s) /\ WalksTo(d, s)
  BY DEF Spells
<1>2. path \in Seq(Element)
  BY Wider DEF IsPath
<1>3. Base(path, s) \in Stack
  BY <1>1, RootSpelled DEF Base
<1>4. PICK st : IsWalk(st, path, Base(path, s))
  BY <1>2, <1>3, WalkExists
<1>5. Meaning(d, path) = st[Len(path)]
  BY <1>1, <1>2, <1>4, MeaningIs
<1>6. /\ remove_dotslash(d, path, 1) = Spelled(st[Len(path)])
      /\ Ended(remove_dotslash(d, path, 0)) = Spelled(st[Len(path)])
  BY <1>1, <1>2, <1>4, OutputIs
<1>7. st[Len(path)] \in Stack
  <2>1. Len(path) \in 0 .. Len(path)
    <3>1. Len(path) \in Nat
      BY <1>2, LenProperties
    <3> QED BY <3>1, SMT
  <2> QED BY <1>4, <2>1 DEF IsWalk
<1> QED BY <1>5, <1>6, <1>7

\* chdir() goes to a directory of the archive.
LEMMA StaysInDirectory ==
    ASSUME NEW d \in Directory, NEW path, IsPath(path),
           get_dir_address(Tail(remove_dotslash(d, path, 1))) # NotFound
    PROVE  remove_dotslash(d, path, 1) \in Directory
<1> DEFINE p == remove_dotslash(d, path, 1)
           name == Tail(p)
           S == Named(name)
           n == FirstOf(S)
<1>1. \E s : Spells(d, s)
  BY DirectorySpells
<1>2. Meaning(d, path) \in Stack /\ p = Spelled(Meaning(d, path))
  BY <1>1, Resolves
<1> HIDE DEF p
<1>3. p \in Seq(Element) /\ p # <<>> /\ Head(p) = Slash
  <2> DEFINE m == Meaning(d, path)
  <2>1. m \in Stack /\ p = Spelled(m)
    BY <1>2
  <2> HIDE DEF m
  <2>2. /\ p \in Seq(Element) /\ Len(m) \in Nat /\ Len(p) = 2 * Len(m) + 1
        /\ \A k \in 0 .. Len(m) : p[2 * k + 1] = Slash
    BY <2>1, SpelledIs
  <2>3. Len(p) # 0 /\ 0 \in 0 .. Len(m) /\ 2 * 0 + 1 = 1
    BY <2>2, SMT
  <2>4. p # <<>>
    BY <2>2, <2>3, EmptySeq
  <2>5. p[1] = Slash
    BY <2>2, <2>3
  <2>6. Head(p) = p[1]
    BY <2>2, <2>4, TailIs
  <2> QED BY <2>2, <2>4, <2>5, <2>6
<1>4. Root \o name = p
  BY <1>3, RootAndTail
<1> HIDE DEF name
<1>5. S # {} /\ ~(Headers[n].size > 0)
  BY DEF get_dir_address, name, p
<1>6. S \in SUBSET Nat
  BY HeadersAre DEF Named
<1>7. n \in S
  BY <1>5, <1>6, FirstIs
<1>8. n \in DOMAIN Headers /\ Headers[n].name = name
  BY <1>7 DEF Named
<1> HIDE DEF S, n
<1>9. Headers[n].size = 0
  <2>1. Headers[n].size \in Nat
    BY <1>8, HeadersAre
  <2> QED BY <1>5, <2>1, SMT
<1>10. CASE n \in DOMAIN Archive
  <2>1. Headers[n] = Archive[n] /\ IsPlain(Archive[n].name)
    BY <1>10, HeadersAre, ArchiveAssumption
  <2>2. IsDirectory(Archive[n])
    BY <1>9, <2>1 DEF IsDirectory, IsPlain, Nameless
  <2>3. p = Root \o Archive[n].name
    BY <1>4, <1>8, <2>1
  <2> QED BY <1>10, <2>2, <2>3 DEF Directory, ToSet, p
<1>11. CASE n \notin DOMAIN Archive
  <2>1. name = <<>>
    BY <1>8, <1>11, HeadersAre DEF ZeroBlock, Nameless
  <2>2. Len(p) = 1
    <3>1. Tail(p) \in Seq(Element) /\ Len(Tail(p)) = Len(p) - 1 /\ Len(p) \in Nat
      BY <1>3, TailIs
    <3>2. Len(Tail(p)) = 0
      BY <2>1, <3>1, EmptySeq DEF name
    <3>3. \A m \in Nat : m - 1 = 0 => m = 1
      BY SMT
    <3> QED BY <3>1, <3>2, <3>3
  <2>3. p = Root
    <3>1. Root \in Seq({Slash}) /\ Len(Root) = 1 /\ Root[1] = Slash
      BY DEF Root
    <3>2. p[1] = Slash
      BY <1>3, TailIs
    <3>3. \A i \in 1 .. Len(p) : p[i] = Root[i]
      BY <2>2, <3>1, <3>2, SMT
    <3> QED BY <1>3, <2>2, <3>1, <3>3, SameCells
  <2> QED BY <2>3 DEF Directory, p
<1> QED BY <1>10, <1>11

-------------------------------------------------------------------------------
\* memread() stops at the first NUL.
LEMMA ReadStops ==
    ASSUME NEW a \in Nat, NEW count \in Nat, NEW k \in Nat, IsNul(a + k)
    PROVE  memread(a, count) \in 0 .. count /\ memread(a, count) <= k
<1> DEFINE Stops == {i \in 0 .. count : i = count \/ IsNul(a + i)}
           Good(i) == (\A j \in 0 .. i - 1 : ~IsNul(a + j)) /\ (i = count \/ IsNul(a + i))
<1>1. PICK i \in Stops : \A j \in Stops : i <= j
  <2>1. Stops \in SUBSET Nat
    OBVIOUS
  <2>2. count \in Stops
    BY SMT
  <2> QED BY <2>1, <2>2, LeastNumber
<1>2. i \in 0 .. count /\ Good(i)
  <2>1. ASSUME NEW j \in 0 .. i - 1 PROVE ~IsNul(a + j)
    <3>1. j \in 0 .. count /\ ~(i <= j)
      BY <1>1, SMT
    <3> QED BY <1>1, <3>1
  <2> QED BY <1>1, <2>1
<1>3. memread(a, count) = CHOOSE x \in 0 .. count : Good(x)
  BY DEF memread
<1> DEFINE m == CHOOSE x \in 0 .. count : Good(x)
<1>4. m \in 0 .. count /\ Good(m)
  <2> HIDE DEF Good
  <2> QED BY <1>2
<1> HIDE DEF m
<1>5. ~(k \in 0 .. m - 1)
  BY <1>4
<1>6. m <= k
  BY <1>4, <1>5, SMT
<1> QED BY <1>3, <1>4, <1>6 DEF m

\* Entries have different addresses, and what one holds is before the next.
LEMMA EntryEnds ==
    ASSUME NEW n \in DOMAIN Archive
    PROVE  /\ Archive[n].size \in Nat /\ Block \in Nat \ {0} /\ n \in 1 .. Len(Headers)
           /\ Address[n] \in Nat /\ Address[n] + Step(Archive[n]) <= Address[n + 1]
           /\ Step(Archive[n]) \in Nat /\ Step(Archive[n]) >= Block + Archive[n].size
           /\ Archive[n].size % Block # 0 => Step(Archive[n]) > Block + Archive[n].size
<1>1. n \in 1 .. Len(Headers) /\ Headers[n] = Archive[n] /\ Headers[n].size \in Nat
      /\ Len(Headers) \in Nat
  BY HeadersAre
<1>2. n \in 1 .. Len(Headers) + 1 /\ n + 1 \in 1 .. Len(Headers) + 1
  BY <1>1, SMT
<1>3. Address[n] \in Nat /\ Address[n + 1] = Address[n] + Step(Headers[n])
  BY <1>1, <1>2, AddressIs
<1>4. Block \in Nat \ {0}
  BY ArchiveAssumption
<1> DEFINE h == Archive[n]
<1>5. h.size \in Nat
  BY <1>1
<1> HIDE DEF h
<1>6. /\ Step(h) \in Nat /\ Step(h) >= Block + h.size
      /\ h.size % Block # 0 => Step(h) > Block + h.size
  BY <1>5, StepIsOver
<1>7. Address[n] + Step(h) <= Address[n + 1]
  BY <1>1, <1>3, <1>6, SMT DEF h
<1> QED BY <1>1, <1>3, <1>4, <1>5, <1>6, <1>7 DEF h

\* A cell of an entry is between its header and its end, so that one behind the data
\* of another entry is not.
LEMMA InCells ==
    ASSUME NEW a \in Nat, NEW b \in Nat \ {0}, NEW z \in Nat, NEW x,
           x = a \/ x \in a + b .. a + b + z - 1
    PROVE  x >= a /\ x < a + b + z
  BY SMT

\* No cell of a file's data or of the NUL behind it is in another entry.
LEMMA CellsApart ==
    ASSUME NEW b \in Nat \ {0}, NEW a \in Nat, NEW z \in Nat, NEW s \in Nat,
           NEW c \in Nat, NEW y \in Nat, NEW r \in Nat,
           s > b + z, r >= b + y, a + b + z >= c, a + b + z < c + b + y,
           c + r <= a \/ a + s <= c
    PROVE  FALSE
  BY SMT

\* Data that does not fill its last block ends in a NUL.
LEMMA NulBehind ==
    ASSUME NEW n \in DOMAIN Archive, Archive[n].size % Block # 0
    PROVE  IsNul(Address[n] + Block + Archive[n].size)
<1> DEFINE x == Address[n] + Block + Archive[n].size
<1> SUFFICES ASSUME NEW m \in DOMAIN Archive,
                    x = Address[m] \/ x \in Address[m] + Block .. Address[m] + Block + Archive[m].size - 1
             PROVE  FALSE
  BY DEF IsNul
<1>2. /\ Archive[n].size \in Nat /\ Block \in Nat \ {0} /\ n \in 1 .. Len(Headers)
      /\ Address[n] \in Nat /\ Step(Archive[n]) \in Nat /\ Step(Archive[n]) > Block + Archive[n].size
  BY EntryEnds
<1>3. /\ Archive[m].size \in Nat /\ m \in 1 .. Len(Headers)
      /\ Address[m] \in Nat /\ Step(Archive[m]) \in Nat
      /\ Step(Archive[m]) >= Block + Archive[m].size
  BY EntryEnds
<1>5. x >= Address[m] /\ x < Address[m] + Block + Archive[m].size
  BY <1>2, <1>3, InCells
<1>6. Headers[n] = Archive[n] /\ Headers[m] = Archive[m] /\ Len(Headers) \in Nat
  BY HeadersAre
<1>7. CASE m < n
  <2>1. n \in m + 1 .. Len(Headers) + 1
    BY <1>2, <1>3, <1>6, <1>7, SMT
  <2>2. Address[m] + Step(Headers[m]) <= Address[n]
    BY <1>3, <2>1, AddressGrows
  <2> QED BY <1>2, <1>3, <1>5, <1>6, <2>2, CellsApart
<1>8. CASE m > n
  <2>1. m \in n + 1 .. Len(Headers) + 1
    BY <1>2, <1>3, <1>6, <1>8, SMT
  <2>2. Address[n] + Step(Headers[n]) <= Address[m]
    BY <1>2, <2>1, AddressGrows
  <2> QED BY <1>2, <1>3, <1>5, <1>6, <2>2, CellsApart
<1>9. CASE m = n
  BY <1>2, <1>3, <1>5, <1>9, SMT
<1> QED BY <1>2, <1>3, <1>7, <1>8, <1>9, SMT

-------------------------------------------------------------------------------
\* The header of an entry is found by its name.
LEMMA EntryIsFound ==
    ASSUME NEW n \in DOMAIN Archive
    PROVE  Named(Archive[n].name) # {} /\ FirstOf(Named(Archive[n].name)) = n
           /\ Headers[n] = Archive[n]
<1> DEFINE S == Named(Archive[n].name)
           f == FirstOf(S)
<1>1. n \in S /\ Headers[n] = Archive[n]
  BY HeadersAre DEF Named
<1>2. S \in SUBSET Nat
  BY HeadersAre DEF Named
<1>3. f \in S
  BY <1>1, <1>2, FirstIs
<1>4. f \in DOMAIN Headers /\ Headers[f].name = Archive[n].name
  BY <1>3 DEF Named
<1> HIDE DEF f
<1>5. f \in DOMAIN Archive
  <2>1. Archive[n].name # <<>>
    BY ArchiveAssumption DEF IsPlain
  <2>2. f \notin DOMAIN Archive => Headers[f].name = <<>>
    BY <1>4, HeadersAre DEF ZeroBlock, Nameless
  <2> QED BY <1>4, <2>1, <2>2
<1>6. Headers[f] = Archive[f]
  BY <1>5, HeadersAre
<1>7. f = n
  <2>1. \A k, m \in DOMAIN Archive : Archive[k].name = Archive[m].name => k = m
    BY ArchiveAssumption
  <2> QED BY <1>4, <1>5, <1>6, <2>1
<1> QED BY <1>1, <1>7 DEF f

\* The pointers of a descriptor are in the data of the file it is open for.
Inside(s) ==
    \A n \in DOMAIN Archive :
        s.name = Archive[n].name =>
            /\ Archive[n].size % Block # 0 =>
                /\ s.start = Address[n] + Block
                /\ s.offset \in s.start .. s.start + Archive[n].size
            /\ s.d_dirp # NoDir => Archive[n].size = 0

InsideInv == \A p \in Place : Inside(slot[p])

\* The working directories are directories of the archive.
CwdInv == cwd = [t \in Task |-> cwd[t]] /\ \A t \in Task : cwd[t] \in Directory

\* A name that does not name an entry.
LEMMA RootIsNoName ==
    ASSUME NEW n \in DOMAIN Archive
    PROVE  Archive[n].name # Root /\ Archive[n].name # Nameless
<1>1. IsPlain(Archive[n].name)
  BY ArchiveAssumption
<1>2. Archive[n].name # <<>>
  BY <1>1 DEF IsPlain
<1>3. Archive[n].name # Root
  <2> SUFFICES ASSUME Archive[n].name = Root PROVE FALSE
    OBVIOUS
  <2>1. IsPlain(Root)
    BY <1>1
  <2>2. 1 \in DOMAIN Root /\ Root[1] = Slash
    BY DEF Root
  <2>3. 1 % 2 # 0
    BY SMT
  <2> QED BY <2>1, <2>2, <2>3 DEF IsPlain
<1> QED BY <1>2, <1>3 DEF Nameless

\* What open() finds is the start of the data.
LEMMA FileIsInside ==
    ASSUME NEW d \in Directory, NEW path \in OpenPaths, NEW n \in DOMAIN Archive,
           FileFound[d][path][1] = Archive[n].name, Archive[n].size % Block # 0
    PROVE  FileFound[d][path][2] = Address[n] + Block
<1> DEFINE plain == Resolved[d][path][0]
           directory == Resolved[d][path][1]
           found == FileFound[d][path]
<1>1. found = CASE path = Root -> <<Root, BINARY_TARFS_START>>
                [] path # Root /\ get_file_address(plain) # NotFound
                        -> <<plain, get_file_address(plain)>>
                [] OTHER -> <<directory, get_file_address(directory)>>
  BY DEF FileFound
<1> HIDE DEF plain, directory
<1>2. \/ found = <<Root, BINARY_TARFS_START>>
      \/ found = <<plain, get_file_address(plain)>>
      \/ found = <<directory, get_file_address(directory)>>
  BY <1>1
<1>3. found # <<Root, BINARY_TARFS_START>>
  BY RootIsNoName
<1>4. found = <<Archive[n].name, get_file_address(Archive[n].name)>>
  BY <1>2, <1>3
<1>5. Archive[n].size > 0
  <2>1. Archive[n].size \in Nat /\ Block \in Nat \ {0}
    BY EntryEnds
  <2>2. 0 % Block = 0
    BY <2>1, SMT
  <2> QED BY <2>1, <2>2, SMT
<1>6. get_file_address(Archive[n].name) = Address[n] + Block
  BY <1>5, EntryIsFound DEF get_file_address
<1> QED BY <1>4, <1>6

\* What opendir() finds has no data.
LEMMA DirectoryIsInside ==
    ASSUME NEW d \in Directory, NEW path \in DirPaths, NEW n \in DOMAIN Archive,
           DirectoryFound[d][path][1] = Archive[n].name, DirectoryFound[d][path][2] # NotFound
    PROVE  Archive[n].size = 0
<1> DEFINE directory == Resolved[d][path][1]
           found == DirectoryFound[d][path]
<1>1. found = IF path = Root THEN <<Root, BINARY_TARFS_START>>
              ELSE <<directory, get_dir_address(directory)>>
  BY DEF DirectoryFound
<1> HIDE DEF directory
<1>2. found # <<Root, BINARY_TARFS_START>>
  BY RootIsNoName
<1>3. found = <<Archive[n].name, get_dir_address(Archive[n].name)>>
  BY <1>1, <1>2
<1>4. ~(Archive[n].size > 0)
  BY <1>3, EntryIsFound DEF get_dir_address
<1>5. Archive[n].size \in Nat
  BY EntryEnds
<1> QED BY <1>4, <1>5, SMT

-------------------------------------------------------------------------------
\* A call that fills or changes one descriptor leaves the others inside.
LEMMA OthersInside ==
    ASSUME ShapesInv, InsideInv, NEW place, NEW s, Inside(s), slot' = [slot EXCEPT ![place] = s]
    PROVE  InsideInv'
<1>1. ASSUME NEW p \in Place PROVE slot'[p] = s \/ slot'[p] = slot[p]
  BY DEF ShapesInv
<1>2. ASSUME NEW p \in Place PROVE Inside(slot'[p])
  BY <1>1 DEF InsideInv
<1> QED BY <1>2 DEF InsideInv

\* What an open() that stays inside fills a descriptor with.
FitsIn(name, start, stream) ==
    \A n \in DOMAIN Archive :
        name = Archive[n].name =>
            /\ Archive[n].size % Block # 0 => start = Address[n] + Block
            /\ stream = TRUE => Archive[n].size = 0

\* What open() and opendir() fill in starts inside.
LEMMA FillInside ==
    ASSUME FilesInv, InsideInv, NEW t \in Task, NEW name, NEW start, NEW stream \in BOOLEAN,
           Fill(t, name, start, stream), FitsIn(name, start, stream)
    PROVE  InsideInv'
<1>1. PICK place, s :
        /\ slot' = [slot EXCEPT ![place] = s]
        /\ s = [name |-> name, start |-> start, offset |-> start, d_prev_dir |-> Nameless,
                d_dirp |-> IF stream THEN place ELSE NoDir]
  <2> DEFINE fd == FirstFree(t)
             page == PageOf(fd)
             table == IF fd_pointers[t][page] = NoPage THEN kmalloc(used) ELSE fd_pointers[t][page]
             p == <<table, fd % PerPage>>
  <2>1. slot' = [slot EXCEPT ![p] =
            [name |-> name, start |-> start, offset |-> start, d_prev_dir |-> Nameless,
             d_dirp |-> IF stream THEN p ELSE NoDir]]
    BY DEF Fill, FirstFree, PageOf
  <2> HIDE DEF p
  <2> QED BY <2>1
<1>2. Inside(s)
  <2> SUFFICES ASSUME NEW n \in DOMAIN Archive, s.name = Archive[n].name
               PROVE  /\ Archive[n].size % Block # 0 =>
                            /\ s.start = Address[n] + Block
                            /\ s.offset \in s.start .. s.start + Archive[n].size
                      /\ s.d_dirp # NoDir => Archive[n].size = 0
    BY DEF Inside
  <2>1. s.name = name /\ s.start = start /\ s.offset = start /\ (s.d_dirp # NoDir => stream = TRUE)
    BY <1>1
  <2>2. Archive[n].size \in Nat /\ Block \in Nat /\ Address[n] \in Nat
    BY EntryEnds
  <2>3. Archive[n].size % Block # 0 => start = Address[n] + Block
    BY <2>1 DEF FitsIn
  <2>4. Archive[n].size % Block # 0 => start \in start .. start + Archive[n].size
    <3> DEFINE z == Archive[n].size
               a == Address[n]
    <3>1. z \in Nat /\ a \in Nat /\ (z % Block # 0 => start = a + Block)
      BY <2>2, <2>3
    <3> HIDE DEF z, a
    <3>2. z % Block # 0 => start \in start .. start + z
      BY <2>2, <3>1, SMT
    <3> QED BY <3>2 DEF z
  <2>5. stream = TRUE => Archive[n].size = 0
    BY <2>1 DEF FitsIn
  <2> QED BY <2>1, <2>3, <2>4, <2>5
<1> QED BY <1>1, <1>2, OthersInside DEF FilesInv

\* What they find is an entry with its address.
LEMMA OpenInside ==
    ASSUME FilesInv, CwdInv, InsideInv, NEW t \in Task,
           \/ \E path \in OpenPaths : openFile(t, path)
           \/ \E path \in DirPaths : openDirectory(t, path)
    PROVE  InsideInv'
<1>1. cwd[t] \in Directory
  BY DEF CwdInv
<1>2. ASSUME NEW path \in OpenPaths, openFile(t, path) PROVE InsideInv'
  <2> DEFINE found == FileFound[cwd[t]][path]
  <2>1. Fill(t, found[1], found[2], FALSE)
    BY <1>2 DEF openFile
  <2>2. FitsIn(found[1], found[2], FALSE)
    BY <1>1, FileIsInside DEF FitsIn
  <2> HIDE DEF found
  <2> QED BY <2>1, <2>2, FillInside
<1>3. ASSUME NEW path \in DirPaths, openDirectory(t, path) PROVE InsideInv'
  <2> DEFINE found == DirectoryFound[cwd[t]][path]
  <2>1. Fill(t, found[1], found[2], TRUE) /\ found[2] # NotFound
    BY <1>3 DEF openDirectory
  <2>2. \A n \in DOMAIN Archive : found[1] = Archive[n].name => Archive[n].size = 0
    BY <1>1, <2>1, DirectoryIsInside
  <2>3. 0 % Block = 0
    <3>1. Block \in Nat \ {0}
      BY ArchiveAssumption
    <3> QED BY <3>1, SMT
  <2> HIDE DEF found
  <2>4. FitsIn(found[1], found[2], TRUE)
    BY <2>2, <2>3 DEF FitsIn
  <2> QED BY <2>1, <2>4, FillInside
<1> QED BY <1>2, <1>3

\* A read goes on in the data, up to the NUL behind it.
LEMMA ReadInside ==
    ASSUME FilesInv, InsideInv, NEW t \in Task, NEW fd \in Usable, NEW count \in Counts,
           readFile(t, fd, count)
    PROVE  InsideInv'
<1> DEFINE place == get_fd_address(t, fd)
           old == slot[place]
           x == old.offset + memread(old.offset, count)
           s == [old EXCEPT !.offset = x]
<1>1. Runs(t) /\ PageOf(fd) < PagesOf(t)
  BY DEF readFile, Holds, FilesInv, HeldInv, Filled
<1>2. place \in Place /\ ShapesInv
  BY <1>1, PlaceOfFd DEF FilesInv
<1>3. IsSlot(old) /\ Inside(old)
  BY <1>2 DEF ShapesInv, InsideInv
<1>4. slot' = [slot EXCEPT ![place] = s]
  BY DEF readFile
<1> HIDE DEF place, old
<1>5. s.name = old.name /\ s.start = old.start /\ s.d_dirp = old.d_dirp /\ s.offset = x
  <2> HIDE DEF x
  <2> QED BY <1>3, Offsets DEF IsSlot
<1> HIDE DEF s
<1>6. count \in Nat
  BY FileAssumption
<1>7. Inside(s)
  <2> SUFFICES ASSUME NEW n \in DOMAIN Archive, s.name = Archive[n].name
               PROVE  /\ Archive[n].size % Block # 0 =>
                            /\ s.start = Address[n] + Block
                            /\ s.offset \in s.start .. s.start + Archive[n].size
                      /\ s.d_dirp # NoDir => Archive[n].size = 0
    BY DEF Inside
  <2>1. s.d_dirp # NoDir => Archive[n].size = 0
    BY <1>3, <1>5 DEF Inside
  <2>2. ASSUME Archive[n].size % Block # 0
        PROVE  /\ s.start = Address[n] + Block
               /\ s.offset \in s.start .. s.start + Archive[n].size
    <3> DEFINE z == Archive[n].size
               a == Address[n]
               o == old.offset
               k == a + Block + z - o
    <3>1. old.start = a + Block /\ o \in old.start .. old.start + z
      BY <1>3, <1>5, <2>2 DEF Inside
    <3>2. z \in Nat /\ Block \in Nat /\ a \in Nat
      BY EntryEnds
    <3>3. IsNul(a + Block + z)
      BY <2>2, NulBehind
    <3> HIDE DEF z, a, o
    <3>4. o \in Nat /\ k \in Nat /\ o + k = a + Block + z /\ old.start \in Nat
      BY <3>1, <3>2, SMT
    <3> DEFINE m == memread(o, count)
    <3>5. m \in 0 .. count /\ m <= k
      <4> HIDE DEF k
      <4>1. IsNul(o + k)
        BY <3>3, <3>4
      <4> QED BY <1>6, <3>4, <4>1, ReadStops
    <3> HIDE DEF m
    <3>6. o + m \in old.start .. old.start + z
      BY <1>6, <3>1, <3>2, <3>4, <3>5, SMT
    <3>7. s.offset = o + m
      BY <1>5 DEF o, m
    <3> QED BY <1>5, <3>1, <3>6, <3>7 DEF z, a
  <2> QED BY <2>1, <2>2
<1> QED BY <1>2, <1>4, <1>7, OthersInside

\* readdir() moves on in a directory, which has no data.
LEMMA ReadDirInside ==
    ASSUME FilesInv, InsideInv, NEW t \in Task, NEW fd \in Usable, readDir(t, fd)
    PROVE  InsideInv'
<1> DEFINE place == get_fd_address(t, fd)
           n == FirstOf(NextEntries(slot[place]))
           x == Entry(slot[place], n)
           y == IF slot[place].name = Root THEN Address[n + 1] ELSE Address[n]
           old == slot[place]
           s == [old EXCEPT !.d_prev_dir = x, !.offset = y]
<1>1. place \in Place /\ ShapesInv /\ get_fd(t, place) = fd
  BY FoundAgain DEF readDir, FilesInv
<1>2. IsSlot(old) /\ Inside(old)
  BY <1>1 DEF ShapesInv, InsideInv
<1>3. slot' = [slot EXCEPT ![place].d_prev_dir = x, ![place].offset = y]
  BY <1>1 DEF readDir
<1>4. old.d_dirp # NoDir
  <2>1. old.d_dirp = place
    BY DEF readDir, Holds, FilesInv, HeldInv, Filled
  <2> QED BY <1>1, <2>1, FileAssumption DEF Place, NoDir, NoPage
<1> HIDE DEF x, y
<1>5. slot' = [slot EXCEPT ![place] = s]
  BY <1>1, <1>2, <1>3 DEF IsSlot, ShapesInv
<1> HIDE DEF old, place
<1>6. s.name = old.name /\ s.d_dirp = old.d_dirp
  BY <1>2 DEF IsSlot
<1> HIDE DEF s
<1>7. Inside(s)
  <2> SUFFICES ASSUME NEW k \in DOMAIN Archive, s.name = Archive[k].name
               PROVE  Archive[k].size = 0 /\ Archive[k].size % Block = 0
    BY DEF Inside
  <2>1. Archive[k].size = 0
    BY <1>2, <1>4, <1>6 DEF Inside
  <2>2. 0 % Block = 0
    <3>1. Block \in Nat \ {0}
      BY ArchiveAssumption
    <3> QED BY <3>1, SMT
  <2> QED BY <2>1, <2>2
<1> QED BY <1>1, <1>5, <1>7, OthersInside

\* A descriptor without a name is for no entry.
LEMMA ReleaseInside ==
    ASSUME FilesInv, InsideInv, NEW t \in Task, NEW fd \in Usable, NEW place \in Place,
           Release(t, fd, place)
    PROVE  InsideInv'
<1> DEFINE s == [slot[place] EXCEPT !.name = Nameless]
<1>1. slot' = [slot EXCEPT ![place] = s] /\ ShapesInv
  BY DEF Release, FilesInv
<1>2. s.name = Nameless
  <2>1. IsSlot(slot[place])
    BY <1>1 DEF ShapesInv
  <2> QED BY <2>1 DEF IsSlot
<1> HIDE DEF s
<1>3. Inside(s)
  BY <1>2, RootIsNoName DEF Inside
<1> QED BY <1>1, <1>3, OthersInside

\* close() and closedir() empty a name.
LEMMA CloseInside ==
    ASSUME FilesInv, InsideInv, NEW t \in Task, NEW fd \in Usable, closeFile(t, fd) \/ closeDir(t, fd)
    PROVE  InsideInv'
<1>1. CASE closeFile(t, fd)
  <2>1. Runs(t) /\ PageOf(fd) < PagesOf(t)
    BY <1>1 DEF closeFile, Holds, FilesInv, HeldInv, Filled
  <2>2. get_fd_address(t, fd) \in Place
    BY <2>1, PlaceOfFd DEF FilesInv
  <2> QED BY <1>1, <2>2, ReleaseInside DEF closeFile
<1>2. CASE closeDir(t, fd)
  <2>1. get_fd_address(t, fd) \in Place /\ get_fd(t, get_fd_address(t, fd)) = fd
    BY <1>2, FoundAgain DEF closeDir
  <2> QED BY <1>2, <2>1, ReleaseInside DEF closeDir
<1> QED BY <1>1, <1>2

-------------------------------------------------------------------------------
\* At the start no descriptor is open and the working directory is the root.
LEMMA InsideInit == Init => CwdInv /\ InsideInv
<1> SUFFICES ASSUME Init PROVE CwdInv /\ InsideInv
  OBVIOUS
<1>1. CwdInv
  BY DEF Init, CwdInv, Directory
<1>2. \A p \in Place : slot[p].name = Nameless
  BY DEF Init, Free
<1> QED BY <1>1, <1>2, RootIsNoName DEF InsideInv, Inside

\* The working directory changes to one of the archive, or is the parent's.
LEMMA CwdStep == CwdInv /\ [Next]_vars => CwdInv'
<1> SUFFICES ASSUME CwdInv, [Next]_vars PROVE CwdInv'
  OBVIOUS
<1>1. cwd = [t \in Task |-> cwd[t]] /\ \A t \in Task : cwd[t] \in Directory
  BY DEF CwdInv
<1>2. ASSUME NEW t, NEW d \in Directory, cwd' = [cwd EXCEPT ![t] = d] PROVE CwdInv'
  BY <1>1, <1>2 DEF CwdInv
<1>3. Root \in Directory
  BY DEF Directory
<1>4. CASE cwd' = cwd
  BY <1>1, <1>4 DEF CwdInv
<1>5. ASSUME Next PROVE CwdInv'
  <2>1. PICK t \in Task :
          \/ \E path \in OpenPaths : openFile(t, path)
          \/ \E path \in DirPaths : openDirectory(t, path)
          \/ \E path \in ChdirPaths : changeDirectory(t, path)
          \/ \E fd \in Usable :
              \/ \E count \in Counts : readFile(t, fd, count)
              \/ closeFile(t, fd)
              \/ readDir(t, fd)
              \/ closeDir(t, fd)
          \/ fork(t)
          \/ exec(t)
          \/ Terminate(t)
    BY <1>5, Zenon DEF Next
  <2>2. CASE \/ \E path \in OpenPaths : openFile(t, path)
             \/ \E path \in DirPaths : openDirectory(t, path)
    <3>1. cwd' = cwd
      BY <2>2 DEF openFile, openDirectory, Fill
    <3> QED BY <1>4, <3>1
  <2>3. CASE \E path \in ChdirPaths : changeDirectory(t, path)
    <3>1. PICK path \in ChdirPaths : changeDirectory(t, path)
      BY <2>3
    <3>2. path \in Paths /\ IsPath(path) /\ cwd[t] \in Directory
      BY <1>1, FileAssumption DEF Paths
    <3>3. Resolved[cwd[t]][path][1] = Tail(remove_dotslash(cwd[t], path, 1))
      BY <3>2 DEF Resolved
    <3> DEFINE d == remove_dotslash(cwd[t], path, 1)
    <3>4. get_dir_address(Tail(d)) # NotFound /\ cwd' = [cwd EXCEPT ![t] = d]
      BY <3>1, <3>3 DEF changeDirectory
    <3>5. d \in Directory
      BY <3>2, <3>4, StaysInDirectory
    <3> HIDE DEF d
    <3> QED BY <1>2, <3>4, <3>5
  <2>4. CASE \E fd \in Usable :
              \/ \E count \in Counts : readFile(t, fd, count)
              \/ closeFile(t, fd) \/ readDir(t, fd) \/ closeDir(t, fd)
    <3>1. cwd' = cwd
      BY <2>4 DEF readFile, closeFile, readDir, closeDir, Release
    <3> QED BY <1>4, <3>1
  <2>5. CASE fork(t)
    <3>1. PICK child \in Task \ live : cwd' = [cwd EXCEPT ![child] = cwd[t]]
      BY <2>5 DEF fork
    <3>2. cwd[t] \in Directory
      BY <1>1
    <3> QED BY <1>2, <3>1, <3>2
  <2>6. CASE exec(t)
    <3>1. PICK task \in Task \ live : cwd' = [cwd EXCEPT ![t] = Root, ![task] = cwd[t]]
      BY <2>6 DEF exec
    <3>2. cwd[t] \in Directory
      BY <1>1
    <3> QED BY <1>1, <1>3, <3>1, <3>2 DEF CwdInv
  <2>7. CASE Terminate(t)
    BY <1>2, <1>3, <2>7 DEF Terminate
  <2> QED BY <2>1, <2>2, <2>3, <2>4, <2>5, <2>6, <2>7, Zenon
<1> QED BY <1>4, <1>5 DEF vars

\* Every call keeps the offsets inside.
LEMMA InsideStep == FilesInv /\ CwdInv /\ InsideInv /\ [Next]_vars => InsideInv'
<1> SUFFICES ASSUME FilesInv, CwdInv, InsideInv, [Next]_vars PROVE InsideInv'
  OBVIOUS
<1>1. CASE slot' = slot
  BY <1>1 DEF InsideInv
<1>2. ASSUME Next PROVE InsideInv'
  <2>1. PICK t \in Task :
          \/ \E path \in OpenPaths : openFile(t, path)
          \/ \E path \in DirPaths : openDirectory(t, path)
          \/ \E path \in ChdirPaths : changeDirectory(t, path)
          \/ \E fd \in Usable :
              \/ \E count \in Counts : readFile(t, fd, count)
              \/ closeFile(t, fd)
              \/ readDir(t, fd)
              \/ closeDir(t, fd)
          \/ fork(t)
          \/ exec(t)
          \/ Terminate(t)
    BY <1>2, Zenon DEF Next
  <2>2. CASE \/ \E path \in OpenPaths : openFile(t, path)
             \/ \E path \in DirPaths : openDirectory(t, path)
    BY <2>2, OpenInside
  <2>3. CASE \E fd \in Usable : \E count \in Counts : readFile(t, fd, count)
    BY <2>3, ReadInside
  <2>4. CASE \E fd \in Usable : readDir(t, fd)
    BY <2>4, ReadDirInside
  <2>5. CASE \E fd \in Usable : closeFile(t, fd) \/ closeDir(t, fd)
    BY <2>5, CloseInside
  <2>6. CASE \/ \E path \in ChdirPaths : changeDirectory(t, path)
             \/ fork(t) \/ exec(t) \/ Terminate(t)
    <3>1. slot' = slot
      BY <2>6 DEF changeDirectory, fork, exec, Terminate
    <3> QED BY <1>1, <3>1
  <2> QED BY <2>1, <2>2, <2>3, <2>4, <2>5, <2>6, Zenon
<1> QED BY <1>1, <1>2 DEF vars

\* For any archive, any paths and buffers, and any number of programs: a read stays
\* in the data of the file whose last block is not full, because it stops at the
\* first NUL and nothing but a read of the same file moves the offset.
THEOREM ReadsEndWithData == Spec => []ReadsStayInside
<1>1. FilesInv /\ InsideInv => ReadsStayInside
  <2> SUFFICES ASSUME FilesInv, InsideInv, NEW t \in live, NEW fd \in Usable,
                      NEW n \in DOMAIN Archive, HoldsNamed(t, fd, FALSE),
                      slot[get_fd_address(t, fd)].name = Archive[n].name,
                      Archive[n].size % Block # 0
               PROVE  slot[get_fd_address(t, fd)].offset
                        <= slot[get_fd_address(t, fd)].start + Archive[n].size
    BY DEF ReadsStayInside
  <2>1. t \in Task /\ Runs(t) /\ PageOf(fd) < PagesOf(t)
    BY DEF HoldsNamed, Holds, FilesInv, ShapesInv, HeldInv, Filled
  <2> DEFINE s == slot[get_fd_address(t, fd)]
  <2>2. Inside(s)
    BY <2>1, PlaceOfFd DEF FilesInv, InsideInv
  <2>3. s.offset \in s.start .. s.start + Archive[n].size
    BY <2>2 DEF Inside
  <2>4. s.start = Address[n] + Block /\ Archive[n].size \in Nat /\ Block \in Nat /\ Address[n] \in Nat
    BY <2>2, EntryEnds DEF Inside
  <2> HIDE DEF s
  <2>5. s.offset <= s.start + Archive[n].size
    BY <2>3, <2>4, SMT
  <2> QED BY <2>5 DEF s
<1> QED BY FilesInit, FilesStep, InsideInit, CwdStep, InsideStep, <1>1, PTL DEF Spec

-------------------------------------------------------------------------------
\* A plain name is a path that starts in the directory, and is made of names and
\* slashes by turns.
LEMMA PlainIs ==
    ASSUME NEW c, IsPlain(c)
    PROVE  /\ IsPath(c) /\ c \in Seq(Element) /\ Len(c) \in Nat \ {0}
           /\ \A k \in 1 .. Len(c) : IF k % 2 = 0 THEN c[k] = Slash ELSE c[k] \notin Marks
           /\ \A k \in 1 .. Len(c) : c[k] \notin {Colon, Nul}
           /\ Head(c) # Slash
<1>1. c \in Seq(STRING) /\ c # <<>>
  BY DEF IsPlain
<1>2. c \in Seq(Element) /\ Len(c) \in Nat \ {0} /\ DOMAIN c = 1 .. Len(c)
  <2>1. c \in Seq(Element)
    BY <1>1, Wider
  <2>2. Len(c) \in Nat \ {0} /\ DOMAIN c = 1 .. Len(c)
    BY <1>1, EmptySeq
  <2> QED BY <2>1, <2>2
<1>3. \A k \in 1 .. Len(c) : IF k % 2 = 0 THEN c[k] = Slash ELSE c[k] \notin Marks
  BY <1>2 DEF IsPlain, Marks
<1>4. \A k \in 1 .. Len(c) : c[k] \notin {Colon, Nul}
  BY <1>2 DEF IsPlain, Slash, Colon, Nul
<1>5. Slash \in Marks
  BY DEF Marks
<1>6. ASSUME NEW k \in 1 .. Len(c) - 1 PROVE c[k] = Slash \/ c[k + 1] = Slash
  <2>1. k \in 1 .. Len(c) /\ k + 1 \in 1 .. Len(c) /\ (k % 2 = 0 \/ (k + 1) % 2 = 0)
    <3> DEFINE N == Len(c)
    <3>1. N \in Nat
      BY <1>2
    <3> HIDE DEF N
    <3>2. \A j \in 1 .. N - 1 : j \in 1 .. N /\ j + 1 \in 1 .. N /\ (j % 2 = 0 \/ (j + 1) % 2 = 0)
      BY <3>1, SMT
    <3> QED BY <3>2 DEF N
  <2> QED BY <1>3, <2>1
<1>7. Head(c) # Slash
  <2>1. 1 \in 1 .. Len(c) /\ 1 % 2 # 0
    BY <1>2, SMT
  <2>2. c[1] \notin Marks
    BY <1>3, <2>1
  <2>3. Head(c) = c[1]
    BY <1>1, <1>2, TailIs
  <2> QED BY <1>5, <2>2, <2>3
<1> QED BY <1>1, <1>2, <1>3, <1>4, <1>6, <1>7 DEF IsPath

\* A cell behind two sequences is one behind the second.
Both(p, q) == p \o q
Longer(p, x) == Append(p, x)

\* Append() moves through a concatenation.
LEMMA ConcatAppend ==
    ASSUME NEW S, NEW p \in Seq(S), NEW q \in Seq(S), NEW x \in S
    PROVE  Longer(Both(p, q), x) = Both(p, Longer(q, x))
<1> DEFINE r == p \o q
           t == Append(q, x)
           u == Append(r, x)
           v == p \o t
<1>1. /\ r \in Seq(S) /\ Len(r) = Len(p) + Len(q) /\ Len(p) \in Nat /\ Len(q) \in Nat
      /\ \A i \in 1 .. Len(p) : r[i] = p[i]
      /\ \A i \in 1 .. Len(q) : r[Len(p) + i] = q[i]
  BY ConcatIs
<1>2. /\ t \in Seq(S) /\ Len(t) = Len(q) + 1 /\ t[Len(q) + 1] = x
      /\ \A i \in 1 .. Len(q) : t[i] = q[i]
  BY AppendIs
<1> HIDE DEF r, t
<1>3. /\ u \in Seq(S) /\ Len(u) = Len(r) + 1 /\ u[Len(r) + 1] = x
      /\ \A i \in 1 .. Len(r) : u[i] = r[i]
  BY <1>1, AppendIs
<1>4. /\ v \in Seq(S) /\ Len(v) = Len(p) + Len(t)
      /\ \A i \in 1 .. Len(p) : v[i] = p[i]
      /\ \A i \in 1 .. Len(t) : v[Len(p) + i] = t[i]
  <2>1. t \in Seq(S)
    BY <1>2
  <2> QED BY <2>1, ConcatIs
<1> HIDE DEF u, v
<1> DEFINE a == Len(p)
           b == Len(q)
<1>5. a \in Nat /\ b \in Nat /\ Len(u) = a + b + 1 /\ Len(v) = a + b + 1 /\ Len(r) = a + b /\ Len(t) = b + 1
  <2>1. a \in Nat /\ b \in Nat /\ Len(r) = a + b /\ Len(t) = b + 1
    BY <1>1, <1>2
  <2>2. Len(u) = Len(r) + 1 /\ Len(v) = a + Len(t)
    BY <1>3, <1>4
  <2> HIDE DEF a, b
  <2>3. Len(u) = (a + b) + 1 /\ Len(v) = a + (b + 1)
    BY <2>1, <2>2
  <2>4. a + (b + 1) = a + b + 1
    BY <2>1, SMT
  <2> QED BY <2>1, <2>3, <2>4
<1> HIDE DEF a, b
<1>6. \A i \in 1 .. a + b + 1 :
        \/ i \in 1 .. a /\ i \in 1 .. a + b
        \/ i - a \in 1 .. b /\ i - a \in 1 .. b + 1 /\ a + (i - a) = i /\ i \in 1 .. a + b
        \/ i = a + b + 1
  BY <1>5, SMT
<1>7. b + 1 \in 1 .. b + 1 /\ a + (b + 1) = a + b + 1
  BY <1>5, SMT
<1>8. ASSUME NEW i \in 1 .. a + b + 1 PROVE u[i] = v[i]
  <2>1. CASE i \in 1 .. a /\ i \in 1 .. a + b
    BY <1>1, <1>3, <1>4, <1>5, <2>1 DEF a
  <2>2. CASE i - a \in 1 .. b /\ i - a \in 1 .. b + 1 /\ a + (i - a) = i /\ i \in 1 .. a + b
    <3>1. u[i] = r[i]
      BY <1>3, <1>5, <2>2
    <3>2. r[a + (i - a)] = q[i - a]
      BY <1>1, <2>2 DEF a, b
    <3>3. v[a + (i - a)] = t[i - a]
      BY <1>4, <1>5, <2>2 DEF a
    <3>4. t[i - a] = q[i - a]
      BY <1>2, <2>2 DEF b
    <3> QED BY <2>2, <3>1, <3>2, <3>3, <3>4
  <2>3. CASE i = a + b + 1
    <3>1. u[a + b + 1] = x
      BY <1>3, <1>5
    <3>2. v[a + (b + 1)] = t[b + 1]
      BY <1>4, <1>5, <1>7 DEF a
    <3>3. t[b + 1] = x
      BY <1>2 DEF b
    <3> QED BY <1>7, <2>3, <3>1, <3>2, <3>3
  <2> QED BY <1>6, <2>1, <2>2, <2>3
<1>9. u = v
  BY <1>3, <1>4, <1>5, <1>8, SameCells
<1> QED BY <1>9 DEF u, v, r, t, Both, Longer

\* Without the first cell and the last.
LEMMA FrontOfTail ==
    ASSUME NEW S, NEW p \in Seq(S), Len(p) > 1
    PROVE  Tail(Front(p)) = Front(Tail(p))
<1> DEFINE n == Len(p)
           f == Front(p)
           g == Tail(p)
<1>1. n \in Nat /\ n > 1
  BY LenProperties
<1>2. p # <<>>
  BY <1>1, EmptySeq, SMT
<1> HIDE DEF n
<1>3. f \in Seq(S) /\ Len(f) = n - 1 /\ \A i \in 1 .. n - 1 : f[i] = p[i]
  BY <1>2, FrontIs DEF n
<1>4. g \in Seq(S) /\ Len(g) = n - 1 /\ \A i \in 1 .. n - 1 : g[i] = p[i + 1]
  BY <1>2, TailIs DEF n
<1> HIDE DEF f, g
<1>5. /\ n - 1 \in Nat /\ n - 1 # 0 /\ (n - 1) - 1 = n - 2
      /\ \A i \in 1 .. n - 2 : i + 1 \in 1 .. n - 1 /\ i \in 1 .. n - 1
  BY <1>1, SMT
<1>6. f # <<>> /\ g # <<>>
  BY <1>3, <1>4, <1>5, EmptySeq
<1> DEFINE x == Tail(f)
           y == Front(g)
<1>7. x \in Seq(S) /\ Len(x) = n - 2 /\ \A i \in 1 .. n - 2 : x[i] = f[i + 1]
  BY <1>3, <1>5, <1>6, TailIs
<1>8. y \in Seq(S) /\ Len(y) = n - 2 /\ \A i \in 1 .. n - 2 : y[i] = g[i]
  BY <1>4, <1>5, <1>6, FrontIs
<1> HIDE DEF x, y
<1>9. \A i \in 1 .. n - 2 : x[i] = y[i]
  BY <1>3, <1>4, <1>5, <1>7, <1>8
<1>10. x = y
  BY <1>7, <1>8, <1>9, SameCells
<1> QED BY <1>10 DEF x, y, f, g

\* What remove_dotslash() makes of a plain name in a directory.
LEMMA CommandIs ==
    ASSUME NEW d, NEW s, Spells(d, s), NEW c, IsPlain(c), Last(c) # Slash
    PROVE  /\ remove_dotslash(d, c, 0) = Spelled(s) \o c
           /\ Spelled(s) \o c = Front(Spelled(Meaning(d, c)))
           /\ Meaning(d, c) \in Stack /\ Meaning(d, c) # <<>>
<1> DEFINE N == Len(c)
<1>1. s \in Stack /\ Ended(d) = Spelled(s) /\ WalksTo(d, s)
  BY DEF Spells
<1>2. /\ IsPath(c) /\ c \in Seq(Element) /\ N \in Nat \ {0}
      /\ \A k \in 1 .. N : IF k % 2 = 0 THEN c[k] = Slash ELSE c[k] \notin Marks
      /\ Base(c, s) = s
  BY PlainIs DEF Base
<1>3. PICK st : IsWalk(st, c, s)
  BY <1>1, <1>2, WalkExists
<1>4. Meaning(d, c) = st[N]
  BY <1>1, <1>2, <1>3, MeaningIs
<1>5. remove_dotslash(d, c, 0) = OutputOf(st, c, N)
  BY <1>1, <1>2, <1>3, OutputIs
<1>6. /\ st \in [0 .. N -> Stack] /\ st[0] = s
      /\ \A n \in 1 .. N : st[n] = StackStep(st[n - 1], c[n])
  BY <1>3 DEF IsWalk
<1>7. \A n \in 1 .. N : c[n] \in Element
  BY <1>2, ElementOfSeq
<1> HIDE DEF N
<1>8. /\ OutputOf(st, c, N) = Front(Spelled(st[N])) /\ st[N] \in Stack /\ st[N] # <<>>
  <2>1. N \in 1 .. N /\ N - 1 \in 0 .. N /\ N # 0 /\ N \in 0 .. N
    BY <1>2, SMT
  <2>2. c[N] \notin Marks
    <3>1. c[N] # Slash
      BY DEF Last, N
    <3> QED BY <1>2, <2>1, <3>1
  <2>3. OutputOf(st, c, N) = Append(Spelled(st[N - 1]), c[N])
    BY <2>1, <2>2 DEF OutputOf
  <2>4. st[N] = Append(st[N - 1], c[N]) /\ st[N - 1] \in Stack
    BY <1>6, <2>1, <2>2 DEF StackStep, Marks
  <2>5. c[N] \in PlainName
    BY <1>7, <2>1, <2>2 DEF PlainName, Marks
  <2>6. Append(Spelled(st[N - 1]), c[N]) = Front(Spelled(st[N]))
    BY <2>4, <2>5, SpelledAppend
  <2>7. st[N] # <<>>
    <3>1. Len(Append(st[N - 1], c[N])) = Len(st[N - 1]) + 1 /\ Len(st[N - 1]) \in Nat
      BY <2>4, <2>5, AppendIs, LenProperties DEF Stack
    <3>2. Len(st[N]) # 0
      BY <2>4, <3>1, SMT
    <3> QED BY <3>2, EmptySeq
  <2> QED BY <1>6, <2>1, <2>3, <2>6, <2>7
<1> DEFINE P == Spelled(s)
           T == {n \in 0 .. N : OutputOf(st, c, n) = P \o SubSeq(c, 1, n)}
<1>9. P \in Seq(Element)
  BY <1>1, SpelledIs
<1>10. \A n \in 0 .. N : SubSeq(c, 1, n) \in Seq(Element) /\ Len(SubSeq(c, 1, n)) = n
  BY <1>2, FirstCells DEF N
<1>11. 0 \in T
  <2>1. 0 \in 0 .. N
    BY <1>2, SMT
  <2>2. SubSeq(c, 1, 0) = <<>>
    BY <1>10, <2>1, EmptySeq
  <2>3. P \o <<>> = P
    <3> HIDE DEF P
    <3> QED BY <1>9, ConcatEmptySeq
  <2>4. OutputOf(st, c, 0) = P
    BY <1>6 DEF OutputOf
  <2> HIDE DEF P
  <2> QED BY <2>1, <2>2, <2>3, <2>4
<1> HIDE DEF P
<1>12. ASSUME NEW n \in 0 .. N - 1, n \in T PROVE n + 1 \in T
  <2> DEFINE m == n + 1
             o == OutputOf(st, c, n)
             q == SubSeq(c, 1, n)
  <2>1. m \in 1 .. N /\ m \in 0 .. N /\ m - 1 = n /\ n \in 0 .. N
    BY <1>2, SMT
  <2>2. o = P \o q
    BY <1>12
  <2>3. CopyStep(OutputOf(st, c, m - 1), c[m]) = OutputOf(st, c, m)
    <3> HIDE DEF m
    <3> QED BY <1>2, <1>3, <2>1, OutputStep DEF N
  <2> HIDE DEF m
  <2>4. CopyStep(o, c[m]) = OutputOf(st, c, m)
    BY <2>1, <2>3
  <2> HIDE DEF o
  <2>5. CopyStep(o, c[m]) = Append(o, c[m])
    <3>1. CASE m % 2 # 0
      BY <1>2, <2>1, <3>1 DEF CopyStep, Marks
    <3>2. CASE m % 2 = 0
      <4>1. c[m] = Slash
        BY <1>2, <2>1, <3>2
      <4>2. n \in 1 .. N /\ n # 0 /\ n % 2 # 0
        <5>1. m = n + 1
          BY DEF m
        <5> QED BY <1>2, <2>1, <3>2, <5>1, SMT
      <4>3. c[n] \notin Marks /\ st[n - 1] \in Stack /\ c[n] \in Element
        <5>1. n - 1 \in 0 .. N
          BY <1>2, <4>2, SMT
        <5> QED BY <1>2, <1>6, <1>7, <4>2, <5>1
      <4>4. o = Append(Spelled(st[n - 1]), c[n])
        BY <4>2, <4>3 DEF OutputOf, o
      <4>5. Spelled(st[n - 1]) \in Seq(Element)
        BY <4>3, SpelledIs
      <4> DEFINE z == Spelled(st[n - 1])
      <4>6. z \in Seq(Element) /\ o = Append(z, c[n])
        BY <4>4, <4>5
      <4> HIDE DEF z
      <4>7. Len(o) = Len(z) + 1 /\ o[Len(z) + 1] = c[n]
        BY <4>3, <4>6, AppendIs
      <4>8. Last(o) # Slash
        BY <4>3, <4>7 DEF Last, Marks
      <4>9. Ended(o) = Append(o, Slash)
        BY <4>8 DEF Ended
      <4> QED BY <4>1, <4>9 DEF CopyStep, Slash
    <3> QED BY <3>1, <3>2
  <2>6. q \in Seq(Element) /\ c[m] \in Element
    BY <1>7, <1>10, <2>1
  <2>7. Append(q, c[m]) = SubSeq(c, 1, m)
    BY <1>2, <2>1, OneMore DEF N
  <2> HIDE DEF q
  <2>8. Longer(Both(P, q), c[m]) = Both(P, Longer(q, c[m]))
    <3>1. q \in Seq(Element)
      BY <2>6
    <3>2. c[m] \in Element
      BY <2>6
    <3> QED BY <1>9, <3>1, <3>2, ConcatAppend
  <2>9. OutputOf(st, c, m) = P \o SubSeq(c, 1, m)
    BY <2>2, <2>4, <2>5, <2>7, <2>8 DEF Both, Longer
  <2> QED BY <2>1, <2>9 DEF m
<1> HIDE DEF T
<1>13. \A n \in 0 .. N : n \in T
  BY <1>2, <1>11, <1>12, Induction
<1>14. OutputOf(st, c, N) = P \o c
  <2>1. N \in 0 .. N
    BY <1>2, SMT
  <2>2. SubSeq(c, 1, N) = c
    <3>1. /\ SubSeq(c, 1, N) \in Seq(Element) /\ Len(SubSeq(c, 1, N)) = N
          /\ \A i \in 1 .. N : SubSeq(c, 1, N)[i] = c[i]
      BY <1>2, <2>1, FirstCells DEF N
    <3> QED BY <1>2, <3>1, SameCells DEF N
  <2> QED BY <1>13, <2>1, <2>2 DEF T
<1> QED BY <1>4, <1>5, <1>8, <1>14 DEF P

\* The name of a command in a directory, without the first slash.
In(d, c) == Front(Tail(Spelled(Meaning(d, c))))

\* It is what open() looks for in the working directory, and what the search
\* looks for in one of PATH.
LEMMA InIs ==
    ASSUME NEW d, NEW s, Spells(d, s), NEW c, IsPlain(c), Last(c) # Slash
    PROVE  Tail(remove_dotslash(d, c, 0)) = In(d, c) /\ InDirectory(d, c) = In(d, c)
<1> DEFINE m == Meaning(d, c)
           p == Spelled(m)
<1>1. /\ remove_dotslash(d, c, 0) = Spelled(s) \o c
      /\ Spelled(s) \o c = Front(p) /\ m \in Stack /\ m # <<>>
  BY CommandIs
<1> HIDE DEF m
<1>2. p \in Seq(Element) /\ Len(p) > 1
  <2>1. p \in Seq(Element) /\ Len(m) \in Nat /\ Len(p) = 2 * Len(m) + 1
    BY <1>1, SpelledIs
  <2>2. Len(m) # 0
    BY <1>1, EmptySeq DEF Stack
  <2> QED BY <2>1, <2>2, SMT
<1> HIDE DEF p
<1>3. Tail(Front(p)) = Front(Tail(p))
  BY <1>2, FrontOfTail
<1>4. In(d, c) = Front(Tail(p))
  BY DEF In, p, m
<1>5. Ended(d) = Spelled(s)
  BY DEF Spells
<1> QED BY <1>1, <1>3, <1>4, <1>5 DEF InDirectory

\* A name is found where a header has it.
LEMMA FoundIfNamed ==
    ASSUME NEW name
    PROVE  get_file_address(name) # NotFound <=> Named(name) # {}
<1>1. CASE Named(name) = {}
  BY <1>1 DEF get_file_address
<1>2. CASE Named(name) # {}
  <2> DEFINE n == FirstOf(Named(name))
  <2>1. n \in DOMAIN Headers
    <3>1. Named(name) \in SUBSET Nat
      BY HeadersAre DEF Named
    <3>2. n \in Named(name)
      BY <1>2, <3>1, FirstIs
    <3> QED BY <3>2 DEF Named
  <2>2. get_file_address(name) \in {Address[n] + Block, Address[n]}
    BY <1>2 DEF get_file_address
  <2> HIDE DEF n
  <2>3. n \in 1 .. Len(Headers) /\ Len(Headers) \in Nat /\ Headers[1].size \in Nat
    <3>1. Len(Headers) \in Nat /\ DOMAIN Headers = 1 .. Len(Headers) /\ Len(Archive) \in Nat
          /\ Len(Headers) = Len(Archive) + 2
      BY HeadersAre
    <3>2. 1 \in DOMAIN Headers
      BY <3>1, SMT
    <3> QED BY <2>1, <3>1, <3>2, HeadersAre
  <2>4. Address[n] \in Nat /\ Address[n] > 0
    <3>1. CASE n = 1
      BY <3>1, AddressIs, SMT
    <3>2. CASE n # 1
      <4>1. 1 \in 1 .. Len(Headers) /\ n \in 1 + 1 .. Len(Headers) + 1
        BY <2>3, <3>2, SMT
      <4>2. Address[1] + Step(Headers[1]) <= Address[n] /\ Address[n] \in Nat
        BY <4>1, AddressGrows
      <4>3. Step(Headers[1]) \in Nat /\ Address[1] = 1
        BY <2>3, StepIsOver, AddressIs
      <4> QED BY <4>2, <4>3, SMT
    <3> QED BY <3>1, <3>2
  <2>5. Block \in Nat
    BY ArchiveAssumption
  <2>6. Address[n] + Block # 0 /\ Address[n] # 0
    BY <2>4, <2>5, SMT
  <2> QED BY <1>2, <2>2, <2>6 DEF NotFound
<1> QED BY <1>1, <1>2

-------------------------------------------------------------------------------
\* PATH and the cells it lies in.

\* The cells that end a directory of PATH.
Ends == {Colon, Nul}

\* Directories as PATH has them: not empty, and without the cells that end one.
Directories(dirs) ==
    /\ dirs \in Seq(Seq(Element))
    /\ \A k \in 1 .. Len(dirs) :
        /\ Len(dirs[k]) \in Nat \ {0}
        /\ \A x \in 1 .. Len(dirs[k]) : dirs[k][x] \notin Ends

\* Where each one ends, if they follow each other with a cell between them.
Places(pos, dirs) ==
    /\ pos \in [0 .. Len(dirs) -> Nat]
    /\ pos[0] = 0
    /\ \A k \in 1 .. Len(dirs) : pos[k] = pos[k - 1] + Len(dirs[k]) + 1

\* The first k of them lie there.
Lie(F, dirs, pos, k) ==
    /\ F \in Seq(Element)
    /\ \A l \in 1 .. k :
        /\ pos[l] \in 1 .. Len(F)
        /\ F[pos[l]] \in Ends
        /\ \A x \in 1 .. Len(dirs[l]) :
            pos[l - 1] + x \in 1 .. Len(F) /\ F[pos[l - 1] + x] = dirs[l][x]

\* A longer text that has a NUL instead of a colon at most.
Keeps(F, G) ==
    /\ G \in Seq(Element)
    /\ \A i \in 1 .. Len(F) :
        i \in 1 .. Len(G) /\ (G[i] = F[i] \/ (F[i] = Colon /\ G[i] = Nul))

\* The directories that PATH can hold are such directories.
LEMMA SearchDirectories ==
    ASSUME NEW dirs \in SearchPaths
    PROVE  Directories(dirs)
<1>1. dirs \in Seq(Seq(STRING)) /\ DOMAIN dirs = 1 .. Len(dirs) /\ Len(dirs) \in Nat
  <2>1. dirs \in Seq(Seq(STRING))
    BY FileAssumption
  <2> QED BY <2>1, LenProperties
<1>2. ASSUME NEW k \in 1 .. Len(dirs)
      PROVE  /\ dirs[k] \in Seq(Element) /\ Len(dirs[k]) \in Nat \ {0}
             /\ \A x \in 1 .. Len(dirs[k]) : dirs[k][x] \notin Ends
  <2> DEFINE d == dirs[k]
             t == Tail(d)
  <2>1. d # <<>> /\ Head(d) = Slash /\ (d = Root \/ IsPlain(t))
    BY <1>1, FileAssumption
  <2>2. d \in Seq(STRING)
    BY <1>1, ElementOfSeq
  <2> HIDE DEF d
  <2>3. d \in Seq(Element)
    BY <2>2, Wider
  <2>4. /\ Len(d) \in Nat \ {0} /\ Len(t) = Len(d) - 1 /\ d[1] = Slash
        /\ \A i \in 1 .. Len(d) - 1 : t[i] = d[i + 1]
    <3>1. Head(d) = d[1]
      BY <2>1, <2>3, TailIs
    <3> QED BY <2>1, <2>3, <3>1, TailIs
  <2> HIDE DEF t
  <2>5. ASSUME NEW x \in 1 .. Len(d) PROVE d[x] \notin Ends
    <3>1. CASE x = 1
      BY <2>4, <3>1 DEF Ends, Slash, Colon, Nul
    <3>2. CASE x # 1
      <4>1. d # Root
        <5>1. ASSUME d = Root PROVE FALSE
          <6>1. Len(d) = 1
            BY <5>1 DEF Root
          <6> QED BY <3>2, <6>1, SMT
        <5> QED BY <5>1
      <4>2. \A i \in 1 .. Len(t) : t[i] \notin Ends
        BY <2>1, <4>1, PlainIs DEF Ends
      <4>3. \A n \in Nat : \A y \in 1 .. n : y # 1 => y - 1 \in 1 .. n - 1 /\ (y - 1) + 1 = y
        BY SMT
      <4>4. x - 1 \in 1 .. Len(d) - 1 /\ (x - 1) + 1 = x
        BY <2>4, <3>2, <4>3
      <4>5. t[x - 1] = d[x] /\ t[x - 1] \notin Ends
        BY <2>4, <4>2, <4>4
      <4> QED BY <4>5
    <3> QED BY <3>1, <3>2
  <2> QED BY <2>3, <2>4, <2>5 DEF d
<1>3. dirs \in Seq(Seq(Element))
  <2>1. \A k \in 1 .. Len(dirs) : dirs[k] \in Seq(Element)
    BY <1>2
  <2>2. dirs = [k \in 1 .. Len(dirs) |-> dirs[k]]
    BY <1>1
  <2>3. dirs \in [1 .. Len(dirs) -> Seq(Element)]
    BY <2>1, <2>2
  <2> QED BY <1>1, <2>3, IsASeq
<1> QED BY <1>2, <1>3 DEF Directories

\* They lie where they lay.
LEMMA LieOn ==
    ASSUME NEW dirs, Directories(dirs), NEW pos, NEW k \in 0 .. Len(dirs),
           NEW F, Lie(F, dirs, pos, k), NEW G, Keeps(F, G)
    PROVE  Lie(G, dirs, pos, k)
<1>1. G \in Seq(Element) /\ \A i \in 1 .. Len(F) :
        i \in 1 .. Len(G) /\ (G[i] = F[i] \/ (F[i] = Colon /\ G[i] = Nul))
  BY DEF Keeps
<1>2. ASSUME NEW l \in 1 .. k
      PROVE  /\ pos[l] \in 1 .. Len(G)
             /\ G[pos[l]] \in Ends
             /\ \A x \in 1 .. Len(dirs[l]) :
                  pos[l - 1] + x \in 1 .. Len(G) /\ G[pos[l - 1] + x] = dirs[l][x]
  <2>1. pos[l] \in 1 .. Len(F) /\ F[pos[l]] \in Ends
    BY DEF Lie
  <2>2. \A x \in 1 .. Len(dirs[l]) :
          pos[l - 1] + x \in 1 .. Len(F) /\ F[pos[l - 1] + x] = dirs[l][x]
    BY DEF Lie
  <2>3. \A x \in 1 .. Len(dirs[l]) : dirs[l][x] \notin Ends
    <3>1. l \in 1 .. Len(dirs)
      <4>1. Len(dirs) \in Nat
        BY LenProperties DEF Directories
      <4>2. \A n \in Nat : \A m \in 0 .. n : \A i \in 1 .. m : i \in 1 .. n
        BY SMT
      <4> QED BY <4>1, <4>2
    <3> QED BY <3>1 DEF Directories
  <2>4. G[pos[l]] \in Ends
    BY <1>1, <2>1 DEF Ends
  <2>5. ASSUME NEW x \in 1 .. Len(dirs[l])
        PROVE  pos[l - 1] + x \in 1 .. Len(G) /\ G[pos[l - 1] + x] = dirs[l][x]
    BY <1>1, <2>2, <2>3 DEF Ends
  <2> QED BY <1>1, <2>1, <2>4, <2>5
<1> QED BY <1>1, <1>2 DEF Lie

\* A text with a directory more, and its colon.
OneMoreDirectory(p, d, r) ==
    /\ r \in Seq(Element) /\ Len(p) \in Nat /\ Len(d) \in Nat
    /\ Len(r) = Len(p) + Len(d) + 1
    /\ \A i \in 1 .. Len(p) : i \in 1 .. Len(r) /\ r[i] = p[i]
    /\ \A x \in 1 .. Len(d) : Len(p) + x \in 1 .. Len(r) /\ r[Len(p) + x] = d[x]
    /\ r[Len(r)] = Colon

\* One directory more, with its colon.
LEMMA JoinedIs ==
    ASSUME NEW p \in Seq(Element), NEW d \in Seq(Element), NEW r, r = p \o d \o <<Colon>>
    PROVE  OneMoreDirectory(p, d, r)
<1> DEFINE q == p \o d
           c == <<Colon>>
           a == Len(p)
           b == Len(d)
<1>1. /\ q \in Seq(Element) /\ Len(q) = a + b /\ a \in Nat /\ b \in Nat
      /\ \A i \in 1 .. a : q[i] = p[i]
      /\ \A x \in 1 .. b : q[a + x] = d[x]
  BY ConcatIs
<1>2. c \in Seq(Element) /\ Len(c) = 1 /\ c[1] = Colon
  <2>1. Colon \in Element
    BY DEF Element
  <2> QED BY <2>1
<1>3. r = q \o c
  OBVIOUS
<1> HIDE DEF q, c
<1>4. q \in Seq(Element) /\ c \in Seq(Element)
  BY <1>1, <1>2
<1>5. /\ r \in Seq(Element) /\ Len(r) = Len(q) + Len(c)
      /\ \A i \in 1 .. Len(q) : r[i] = q[i]
      /\ \A i \in 1 .. Len(c) : r[Len(q) + i] = c[i]
  <2> DEFINE w == q \o c
  <2>1. q \in Seq(Element)
    BY <1>4
  <2>2. c \in Seq(Element)
    BY <1>4
  <2>3. /\ w \in Seq(Element) /\ Len(w) = Len(q) + Len(c)
        /\ \A i \in 1 .. Len(q) : w[i] = q[i]
        /\ \A i \in 1 .. Len(c) : w[Len(q) + i] = c[i]
    BY <2>1, <2>2, ConcatIs
  <2>4. r = w
    BY <1>3
  <2> HIDE DEF w
  <2> QED BY <2>3, <2>4
<1>6. Len(r) = a + b + 1 /\ a \in Nat /\ b \in Nat
  <2>1. Len(q) = a + b
    BY <1>1
  <2>2. Len(r) = Len(q) + 1
    BY <1>2, <1>5
  <2> QED BY <1>1, <2>1, <2>2
<1> HIDE DEF a, b
<1>7. /\ \A i \in 1 .. a : i \in 1 .. a + b /\ i \in 1 .. a + b + 1
      /\ \A x \in 1 .. b : a + x \in 1 .. a + b /\ a + x \in 1 .. a + b + 1
      /\ 1 \in 1 .. 1
  BY <1>6, SMT
<1>8. r[Len(r)] = Colon
  <2>1. r[Len(q) + 1] = c[1]
    BY <1>2, <1>5, <1>7
  <2> QED BY <1>1, <1>2, <1>6, <2>1
<1>9. \A i \in 1 .. a : i \in 1 .. Len(r) /\ r[i] = p[i]
  BY <1>1, <1>5, <1>6, <1>7
<1>10. \A x \in 1 .. b : a + x \in 1 .. Len(r) /\ r[a + x] = d[x]
  BY <1>1, <1>5, <1>6, <1>7
<1> QED BY <1>5, <1>6, <1>8, <1>9, <1>10 DEF a, b, OneMoreDirectory

\* The directories of PATH lie in it, and it ends with a colon.
LEMMA JoinLies ==
    ASSUME NEW dirs, Directories(dirs)
    PROVE  \E pos :
            /\ Places(pos, dirs) /\ Lie(Join(dirs), dirs, pos, Len(dirs))
            /\ pos[Len(dirs)] = Len(Join(dirs))
            /\ dirs # <<>> => Join(dirs)[Len(Join(dirs))] = Colon
<1> DEFINE m == Len(dirs)
           step == [z \in (1 .. m) \X Seq(Element) |-> z[2] \o dirs[z[1]] \o <<Colon>>]
           P(b) == b = [k \in 0 .. m |->
                IF k = 0 THEN <<>> ELSE b[k - 1] \o dirs[k] \o <<Colon>>]
           join == CHOOSE b : P(b)
<1>1. Join(dirs) = join[m]
  BY DEF Join
<1>2. m \in Nat /\ \A k \in 1 .. m : dirs[k] \in Seq(Element) /\ k - 1 \in 0 .. m
  <2>1. m \in Nat /\ \A k \in 1 .. m : dirs[k] \in Seq(Element)
    BY LenProperties, ElementOfSeq DEF Directories
  <2> HIDE DEF m
  <2>2. \A k \in 1 .. m : k - 1 \in 0 .. m
    BY <2>1, SMT
  <2> QED BY <2>1, <2>2
<1>3. dirs # <<>> => m \in 1 .. m
  <2>1. dirs # <<>> => m # 0
    BY EmptySeq DEF Directories
  <2> HIDE DEF m
  <2> QED BY <1>2, <2>1, SMT
<1> HIDE DEF m
<1>4. \A k \in 1 .. m, p \in Seq(Element) : p \o dirs[k] \o <<Colon>> \in Seq(Element)
  BY <1>2, JoinedIs DEF OneMoreDirectory
<1>5. step \in [(1 .. m) \X Seq(Element) -> Seq(Element)]
  BY <1>4
<1>6. \A k \in 1 .. m, p \in Seq(Element) : step[<<k, p>>] = p \o dirs[k] \o <<Colon>>
  OBVIOUS
<1> HIDE DEF step
<1>7. <<>> \in Seq(Element)
  BY EmptySeq
<1>8. PICK j : Iterates(j, m, Seq(Element), <<>>, step)
  <2> DEFINE e == <<>>
  <2>1. e \in Seq(Element)
    BY <1>7
  <2> HIDE DEF e
  <2>2. \E j : Iterates(j, m, Seq(Element), e, step)
    BY <1>2, <1>5, <2>1, Recursion
  <2> QED BY <2>2 DEF e
<1>9. j \in [0 .. m -> Seq(Element)] /\ j[0] = <<>>
      /\ \A k \in 1 .. m : j[k] = j[k - 1] \o dirs[k] \o <<Colon>>
  BY <1>2, <1>6, <1>8 DEF Iterates
<1>10. P(j)
  <2>1. \A k \in 0 .. m : k # 0 => k \in 1 .. m
    BY <1>2, SMT
  <2> QED BY <1>9, <2>1
<1>11. P(join)
  <2> HIDE DEF P
  <2> QED BY <1>10
<1> HIDE DEF join
<1>12. join[m] = j[m]
  <2>1. join[0] = <<>> /\ \A k \in 1 .. m : join[k] = join[k - 1] \o dirs[k] \o <<Colon>>
    <3>1. 0 \in 0 .. m /\ \A k \in 1 .. m : k \in 0 .. m /\ k # 0
      BY <1>2, SMT
    <3> QED BY <1>11, <3>1
  <2>2. \A k \in 1 .. m : join[k - 1] = j[k - 1] => join[k] = j[k]
    BY <1>9, <2>1
  <2>3. \A k \in 0 .. m : join[k] = j[k]
    <3>1. join[0] = j[0]
      BY <1>9, <2>1
    <3>2. GoTogether(join, j, m)
      BY <2>2, <3>1 DEF GoTogether
    <3> QED BY <1>2, <3>2, SameIteration
  <2> QED BY <1>2, <2>3, SMT
<1> HIDE DEF P
<1> DEFINE pos == [k \in 0 .. m |-> Len(j[k])]
<1>13. \A k \in 0 .. m : pos[k] = Len(j[k]) /\ j[k] \in Seq(Element) /\ Len(j[k]) \in Nat
  BY <1>9, LenProperties
<1>14. pos \in [0 .. m -> Nat]
  BY <1>13
<1> HIDE DEF pos
<1>15. ASSUME NEW k \in 1 .. m
       PROVE  OneMoreDirectory(j[k - 1], dirs[k], j[k])
  <2> DEFINE p == j[k - 1]
             d == dirs[k]
             r == j[k]
  <2>1. p \in Seq(Element)
    BY <1>2, <1>9
  <2>2. d \in Seq(Element)
    BY <1>2
  <2>3. r = p \o d \o <<Colon>>
    BY <1>9
  <2> HIDE DEF p, d, r
  <2>4. OneMoreDirectory(p, d, r)
    BY <2>1, <2>2, <2>3, JoinedIs
  <2> QED BY <2>4 DEF p, d, r
<1>16. Places(pos, dirs)
  <2>1. 0 \in 0 .. m /\ \A k \in 1 .. m : k \in 0 .. m
    BY <1>2, SMT
  <2>2. pos[0] = 0
    BY <1>9, <1>13, <2>1, EmptySeq
  <2>3. \A k \in 1 .. m : pos[k] = pos[k - 1] + Len(dirs[k]) + 1
    <3> TAKE k \in 1 .. m
    <3>1. Len(j[k]) = Len(j[k - 1]) + Len(dirs[k]) + 1
      BY <1>15 DEF OneMoreDirectory
    <3>2. pos[k] = Len(j[k]) /\ pos[k - 1] = Len(j[k - 1])
      BY <1>2, <1>13, <2>1
    <3> QED BY <3>1, <3>2
  <2> QED BY <1>14, <2>2, <2>3 DEF Places, m
<1> DEFINE T == {k \in 0 .. m : Lie(j[k], dirs, pos, k)}
<1>17. 0 \in T
  <2>1. 0 \in 0 .. m /\ 1 .. 0 = {}
    BY <1>2, SMT
  <2>2. Lie(j[0], dirs, pos, 0)
    BY <1>9, <2>1 DEF Lie
  <2> QED BY <2>1, <2>2
<1>18. ASSUME NEW k \in 0 .. m - 1, k \in T PROVE k + 1 \in T
  <2> DEFINE n == k + 1
             p == j[k]
             r == j[n]
             d == dirs[n]
  <2>1. n \in 1 .. m /\ n \in 0 .. m /\ n - 1 = k /\ k \in 0 .. m
    BY <1>2, SMT
  <2>2. \A l \in 1 .. n : l \in 1 .. k \/ l = n
    BY <2>1, SMT
  <2> HIDE DEF n
  <2>3. Lie(p, dirs, pos, k)
    BY <1>18
  <2>4. /\ r \in Seq(Element) /\ Len(p) \in Nat /\ Len(d) \in Nat
        /\ Len(r) = Len(p) + Len(d) + 1
        /\ \A i \in 1 .. Len(p) : i \in 1 .. Len(r) /\ r[i] = p[i]
        /\ \A x \in 1 .. Len(d) : Len(p) + x \in 1 .. Len(r) /\ r[Len(p) + x] = d[x]
        /\ r[Len(r)] = Colon
    <3>1. OneMoreDirectory(p, d, r)
      BY <1>15, <2>1
    <3> HIDE DEF p, d, r
    <3> QED BY <3>1 DEF OneMoreDirectory
  <2>5. pos[k] = Len(p) /\ pos[n] = Len(r)
    BY <1>13, <2>1
  <2> HIDE DEF p, r
  <2>6. Keeps(p, r)
    BY <2>4 DEF Keeps
  <2>7. Lie(r, dirs, pos, k)
    BY <2>1, <2>3, <2>6, LieOn DEF m
  <2>8. pos[n] \in 1 .. Len(r) /\ r[pos[n]] \in Ends
    <3>1. \A a, b \in Nat : a + b + 1 \in 1 .. a + b + 1
      BY SMT
    <3>2. Len(r) \in 1 .. Len(r)
      BY <2>4, <3>1
    <3> QED BY <2>4, <2>5, <3>2 DEF Ends
  <2>9. \A x \in 1 .. Len(d) : pos[n - 1] + x \in 1 .. Len(r) /\ r[pos[n - 1] + x] = d[x]
    BY <2>1, <2>4, <2>5
  <2> HIDE DEF d
  <2>10. Lie(r, dirs, pos, n)
    BY <2>2, <2>7, <2>8, <2>9 DEF Lie, d
  <2> QED BY <2>1, <2>10 DEF r, n
<1> HIDE DEF T
<1>19. \A k \in 0 .. m : k \in T
  BY <1>2, <1>17, <1>18, Induction
<1>20. m \in 0 .. m
  BY <1>2, SMT
<1>21. Lie(j[m], dirs, pos, m) /\ pos[m] = Len(j[m])
  BY <1>13, <1>19, <1>20 DEF T
<1>22. dirs # <<>> => j[m][Len(j[m])] = Colon
  BY <1>3, <1>15 DEF OneMoreDirectory
<1> QED BY <1>1, <1>12, <1>16, <1>21, <1>22 DEF m

-------------------------------------------------------------------------------
\* A text that ends with a NUL.
IsText(F) == F \in Seq(Element) /\ F # <<>> /\ Last(F) = Nul

\* Its last cell is that NUL.
LEMMA TextEnds ==
    ASSUME NEW F, IsText(F)
    PROVE  Len(F) \in Nat \ {0} /\ Len(F) \in 1 .. Len(F) /\ F[Len(F)] = Nul
<1>1. Len(F) \in Nat \ {0}
  BY EmptySeq, LenProperties DEF IsText
<1>2. \A n \in Nat \ {0} : n \in 1 .. n
  BY SMT
<1> QED BY <1>1, <1>2 DEF IsText, Last

\* From each cell the end of a directory is found, and it is the first there is.
LEMMA EndIs ==
    ASSUME NEW F, IsText(F), NEW i \in 1 .. Len(F)
    PROVE  /\ EndOfDirectory(F, i) \in i .. Len(F)
           /\ \A e \in i .. Len(F) :
                F[e] \in Ends /\ (\A k \in i .. e - 1 : F[k] \notin Ends) => EndOfDirectory(F, i) = e
<1> DEFINE n == Len(F)
           E == {e \in i .. n : F[e] \in Ends}
           Is(e) == F[e] \in Ends /\ \A k \in i .. e - 1 : F[k] \notin Ends
           end == EndOfDirectory(F, i)
<1>1. n \in Nat /\ n # 0 /\ F[n] \in Ends
  BY TextEnds DEF Ends
<1>2. end = CHOOSE e \in i .. n : Is(e)
  BY DEF EndOfDirectory, Ends
<1> HIDE DEF n, end
<1>3. i \in 1 .. n
  BY DEF n
<1>4. PICK x \in E : \A y \in E : x <= y
  <2>1. E \in SUBSET Nat
    BY <1>1, <1>3
  <2>2. n \in E
    BY <1>1, <1>3, SMT
  <2> QED BY <2>1, <2>2, LeastNumber
<1>5. x \in i .. n /\ Is(x)
  <2>1. \A k \in i .. x - 1 : k \in i .. n /\ ~(x <= k)
    BY <1>1, <1>3, <1>4, SMT
  <2> QED BY <1>4, <2>1
<1> HIDE DEF Is
<1>6. end \in i .. n /\ Is(end)
  BY <1>2, <1>5
<1>7. ASSUME NEW e \in i .. n, Is(e) PROVE end = e
  <2>1. ~(end < e) /\ ~(e < end)
    <3>1. end < e => end \in i .. e - 1
      BY <1>1, <1>3, <1>6, SMT
    <3>2. e < end => e \in i .. end - 1
      BY <1>1, <1>3, <1>6, SMT
    <3> QED BY <1>6, <1>7, <3>1, <3>2 DEF Is
  <2> QED BY <1>1, <1>3, <1>6, <2>1, SMT
<1> QED BY <1>6, <1>7 DEF Is, n, end

\* Where one of the directories lies, the loop reads it.
LEMMA NextDirectory ==
    ASSUME NEW dirs, Directories(dirs), NEW pos, Places(pos, dirs), NEW k \in 1 .. Len(dirs),
           NEW F, IsText(F), Lie(F, dirs, pos, Len(dirs))
    PROVE  /\ pos[k - 1] + 1 \in 1 .. Len(F) /\ F[pos[k - 1] + 1] # Nul
           /\ EndOfDirectory(F, pos[k - 1] + 1) = pos[k]
           /\ SubSeq(F, pos[k - 1] + 1, pos[k] - 1) = dirs[k]
<1> DEFINE d == dirs[k]
           a == pos[k - 1]
           b == Len(d)
           z == pos[k]
           n == Len(F)
<1>1. /\ d \in Seq(Element) /\ b \in Nat /\ b # 0 /\ \A x \in 1 .. b : d[x] \notin Ends
      /\ Len(dirs) \in Nat
  <2>1. dirs \in Seq(Seq(Element))
    BY DEF Directories
  <2>2. d \in Seq(Element) /\ Len(dirs) \in Nat
    BY <2>1, ElementOfSeq, LenProperties
  <2> QED BY <2>2 DEF Directories
<1>2. a \in Nat /\ z = a + b + 1
  <2>1. \A m \in Nat : \A l \in 1 .. m : l - 1 \in 0 .. m
    BY SMT
  <2>2. k - 1 \in 0 .. Len(dirs)
    BY <1>1, <2>1
  <2> QED BY <2>2 DEF Places
<1>3. z \in 1 .. n /\ F[z] \in Ends /\ \A x \in 1 .. b : a + x \in 1 .. n /\ F[a + x] = d[x]
  BY DEF Lie
<1>4. n \in Nat /\ F \in Seq(Element)
  BY TextEnds DEF IsText
<1> HIDE DEF a, b, z, n, d
<1>5. /\ a + 1 \in 1 .. n /\ 1 \in 1 .. b /\ z \in a + 1 .. n
      /\ \A i \in a + 1 .. z - 1 : i - a \in 1 .. b /\ a + (i - a) = i
  BY <1>1, <1>2, <1>3, <1>4, SMT
<1>6. \A i \in a + 1 .. z - 1 : F[i] \notin Ends
  BY <1>1, <1>3, <1>5
<1>7. F[a + 1] # Nul
  BY <1>1, <1>3, <1>5 DEF Ends
<1>8. EndOfDirectory(F, a + 1) = z
  <2> DEFINE i == a + 1
  <2>1. i \in 1 .. n /\ z \in i .. n /\ \A x \in i .. z - 1 : F[x] \notin Ends
    BY <1>5, <1>6
  <2> HIDE DEF i
  <2>2. EndOfDirectory(F, i) = z
    BY <1>3, <2>1, EndIs DEF n
  <2> QED BY <2>2 DEF i
<1>9. SubSeq(F, a + 1, z - 1) = d
  <2> DEFINE s == SubSeq(F, a + 1, z - 1)
  <2>1. a + 1 \in 1 .. n + 1 /\ z - 1 \in (a + 1) - 1 .. n /\ (z - 1) - (a + 1) + 1 = b
        /\ \A x \in 1 .. b : (a + 1) + x - 1 = a + x
    BY <1>1, <1>2, <1>3, <1>4, <1>5, SMT
  <2>2. s \in Seq(Element) /\ Len(s) = b /\ \A x \in 1 .. b : s[x] = F[a + x]
    <3> DEFINE f == a + 1
               g == z - 1
    <3>1. f \in 1 .. n + 1 /\ g \in f - 1 .. n /\ g - f + 1 = b /\ \A x \in 1 .. b : f + x - 1 = a + x
      BY <2>1
    <3> HIDE DEF f, g
    <3>2. /\ SubSeq(F, f, g) \in Seq(Element)
          /\ Len(SubSeq(F, f, g)) = g - f + 1
          /\ \A x \in 1 .. g - f + 1 : SubSeq(F, f, g)[x] = F[f + x - 1]
      BY <1>4, <3>1, SubSeqProperties DEF n
    <3> QED BY <3>1, <3>2 DEF f, g
  <2> HIDE DEF s
  <2>3. \A x \in 1 .. Len(s) : s[x] = d[x]
    BY <1>3, <2>2
  <2>4. Len(s) = Len(d)
    BY <2>2 DEF b
  <2>5. s = d
    BY <1>1, <2>2, <2>3, <2>4, SameCells
  <2> QED BY <2>5 DEF s
<1> QED BY <1>5, <1>7, <1>8, <1>9 DEF a, b, z, n, d

-------------------------------------------------------------------------------
\* One time round the loop: where the next directory starts, and those tried.
LoopStep(F, b) ==
    IF b[1] = Len(F) + 1 \/ F[b[1]] = Nul THEN b
    ELSE <<EndOfDirectory(F, b[1]) + 1,
           Append(b[2], SubSeq(F, b[1], EndOfDirectory(F, b[1]) - 1))>>
LoopState(F) == (1 .. Len(F) + 1) \X Seq(Seq(Element))
IsLoop(l, F) ==
    /\ l \in [0 .. Len(F) -> LoopState(F)]
    /\ l[0] = <<1, <<>> >>
    /\ \A k \in 1 .. Len(F) : l[k] = LoopStep(F, l[k - 1])

\* The loop stays in the text.
LEMMA LoopStepIs ==
    ASSUME NEW F, IsText(F), NEW b \in LoopState(F)
    PROVE  LoopStep(F, b) \in LoopState(F)
<1>1. CASE b[1] = Len(F) + 1 \/ F[b[1]] = Nul
  BY <1>1 DEF LoopStep
<1>2. CASE ~(b[1] = Len(F) + 1 \/ F[b[1]] = Nul)
  <2> DEFINE i == b[1]
             n == Len(F)
             e == EndOfDirectory(F, i)
             d == SubSeq(F, i, e - 1)
  <2>1. i \in 1 .. n + 1 /\ b[2] \in Seq(Seq(Element)) /\ i # n + 1
    BY <1>2 DEF LoopState
  <2>2. n \in Nat /\ F \in Seq(Element)
    BY TextEnds DEF IsText
  <2> HIDE DEF n
  <2>3. i \in 1 .. n
    BY <2>1, <2>2, SMT
  <2> HIDE DEF i
  <2>4. e \in i .. n
    BY <2>3, EndIs DEF n
  <2> HIDE DEF e
  <2>5. e + 1 \in 1 .. n + 1 /\ i \in Int /\ e - 1 \in Int /\ \A k \in i .. e - 1 : k \in 1 .. n
    BY <2>2, <2>3, <2>4, SMT
  <2>6. d \in Seq(Element)
    <3>1. \A k \in i .. e - 1 : F[k] \in Element
      BY <2>2, <2>5, ElementOfSeq DEF n
    <3> QED BY <2>5, <3>1, SubSeqProperties
  <2> HIDE DEF d
  <2>7. Append(b[2], d) \in Seq(Seq(Element))
    BY <2>1, <2>6, AppendIs
  <2>8. LoopStep(F, b) = <<e + 1, Append(b[2], d)>>
    BY <1>2 DEF LoopStep, i, e, d
  <2> DEFINE x == e + 1
             y == Append(b[2], d)
  <2>9. x \in 1 .. n + 1 /\ y \in Seq(Seq(Element)) /\ LoopStep(F, b) = <<x, y>>
    BY <2>5, <2>7, <2>8
  <2> HIDE DEF x, y
  <2> QED BY <2>9 DEF LoopState, n
<1> QED BY <1>1, <1>2

\* DirectoriesTried() is where such a loop ends.
LEMMA LoopExists ==
    ASSUME NEW F, IsText(F)
    PROVE  \E l : IsLoop(l, F) /\ DirectoriesTried(F) = l[Len(F)][2]
<1> DEFINE n == Len(F)
           S == LoopState(F)
           first == <<1, <<>> >>
           step == [z \in (1 .. n) \X S |-> LoopStep(F, z[2])]
           P(l) == l = [k \in 0 .. n |->
                IF k = 0 THEN <<1, <<>> >>
                ELSE LET before == l[k - 1]
                         i == before[1]
                         e == EndOfDirectory(F, i)
                     IN IF i = n + 1 \/ F[i] = Nul THEN before
                        ELSE <<e + 1, Append(before[2], SubSeq(F, i, e - 1))>>]
           loop == CHOOSE l : P(l)
<1>1. DirectoriesTried(F) = loop[n][2]
  BY DEF DirectoriesTried
<1>2. n \in Nat
  BY TextEnds
<1>3. first \in S
  <2>1. <<>> \in Seq(Seq(Element))
    BY EmptySeq
  <2> DEFINE x == <<>>
  <2>2. x \in Seq(Seq(Element))
    BY <2>1
  <2> HIDE DEF x
  <2> HIDE DEF n
  <2>3. 1 \in 1 .. n + 1
    BY <1>2, SMT
  <2>4. <<1, x>> \in S
    BY <2>2, <2>3 DEF LoopState, n
  <2> QED BY <2>4 DEF x
<1>4. step \in [(1 .. n) \X S -> S]
  BY LoopStepIs
<1>5. \A k \in 1 .. n, b \in S : step[<<k, b>>] = LoopStep(F, b)
  OBVIOUS
<1>6. \A l : P(l) <=> l = [k \in 0 .. n |-> IF k = 0 THEN first ELSE LoopStep(F, l[k - 1])]
  BY DEF LoopStep
<1> HIDE DEF step, S, first, P
<1>7. PICK l : Iterates(l, n, S, first, step)
  <2> HIDE DEF n
  <2> QED BY <1>2, <1>3, <1>4, Recursion
<1>8. l \in [0 .. n -> S] /\ l[0] = first /\ \A k \in 1 .. n : l[k] = LoopStep(F, l[k - 1])
  <2>1. \A k \in 1 .. n : k - 1 \in 0 .. n
    <3> HIDE DEF n
    <3> QED BY <1>2, SMT
  <2> QED BY <1>5, <1>7, <2>1 DEF Iterates
<1>9. P(l)
  <2>1. \A k \in 0 .. n : k # 0 => k \in 1 .. n
    <3> HIDE DEF n
    <3> QED BY <1>2, SMT
  <2>2. l = [k \in 0 .. n |-> IF k = 0 THEN first ELSE LoopStep(F, l[k - 1])]
    BY <1>8, <2>1
  <2> QED BY <1>6, <2>2
<1>10. P(loop)
  BY <1>9
<1> HIDE DEF loop
<1>11. loop[n] = l[n]
  <2>1. loop = [k \in 0 .. n |-> IF k = 0 THEN first ELSE LoopStep(F, loop[k - 1])]
    BY <1>6, <1>10
  <2> HIDE DEF n
  <2>2. n \in 0 .. n /\ 0 \in 0 .. n /\ \A k \in 1 .. n : k \in 0 .. n /\ k # 0
    BY <1>2, SMT
  <2>3. loop[0] = l[0]
    BY <1>8, <2>1, <2>2
  <2>4. \A k \in 1 .. n : loop[k - 1] = l[k - 1] => loop[k] = l[k]
    BY <1>8, <2>1, <2>2
  <2>5. \A k \in 0 .. n : loop[k] = l[k]
    <3>1. GoTogether(loop, l, n)
      BY <2>3, <2>4 DEF GoTogether
    <3> QED BY <1>2, <3>1, SameIteration
  <2> QED BY <2>2, <2>5
<1>12. IsLoop(l, F)
  BY <1>8 DEF IsLoop, first, S
<1> QED BY <1>1, <1>11, <1>12

\* Sequences that start with the same directories.
StartsWith(D, dirs) ==
    /\ D \in Seq(Seq(Element)) /\ Len(D) \in Nat /\ Len(D) >= Len(dirs)
    /\ \A i \in 1 .. Len(dirs) : D[i] = dirs[i]

\* The directories of PATH take up cells.
LEMMA PlacesGrow ==
    ASSUME NEW dirs, Directories(dirs), NEW pos, Places(pos, dirs),
           NEW F, IsText(F), Lie(F, dirs, pos, Len(dirs))
    PROVE  Len(dirs) \in 0 .. Len(F)
<1> DEFINE m == Len(dirs)
           T == {k \in 0 .. m : k <= pos[k]}
<1>1. m \in Nat /\ \A k \in 1 .. m : Len(dirs[k]) \in Nat
  BY LenProperties DEF Directories
<1>2. /\ pos \in [0 .. m -> Nat] /\ pos[0] = 0
      /\ \A k \in 1 .. m : pos[k] = pos[k - 1] + Len(dirs[k]) + 1
  BY DEF Places
<1>3. \A l \in 1 .. m : pos[l] \in 1 .. Len(F)
  BY DEF Lie
<1> HIDE DEF m
<1>4. 0 \in T
  BY <1>1, <1>2, SMT
<1>5. ASSUME NEW k \in 0 .. m - 1, k \in T PROVE k + 1 \in T
  <2> DEFINE n == k + 1
  <2>1. n \in 1 .. m /\ n - 1 = k /\ n \in 0 .. m /\ k \in 0 .. m
    BY <1>1, SMT
  <2> HIDE DEF n
  <2>2. pos[n] = pos[k] + Len(dirs[n]) + 1 /\ Len(dirs[n]) \in Nat /\ pos[k] \in Nat /\ k <= pos[k]
    BY <1>1, <1>2, <1>5, <2>1
  <2>3. n <= pos[n]
    <3>1. \A p, x \in Nat : \A i \in 0 .. m : i <= p => i + 1 <= p + x + 1
      BY <1>1, SMT
    <3>2. k + 1 <= pos[n]
      BY <2>1, <2>2, <3>1
    <3> QED BY <3>2 DEF n
  <2>4. n \in T
    BY <2>1, <2>3
  <2> QED BY <2>4 DEF n
<1> HIDE DEF T
<1>6. \A k \in 0 .. m : k \in T
  BY <1>1, <1>4, <1>5, Induction
<1>7. m <= pos[m]
  <2>1. m \in 0 .. m
    BY <1>1, SMT
  <2> QED BY <1>6, <2>1 DEF T
<1>8. Len(F) \in Nat
  BY TextEnds
<1>9. CASE m = 0
  BY <1>8, <1>9, SMT DEF m
<1>10. CASE m # 0
  <2>1. m \in 1 .. m
    BY <1>1, <1>10, SMT
  <2>2. pos[m] \in 1 .. Len(F)
    BY <1>3, <2>1
  <2>3. m \in 0 .. Len(F)
    BY <1>1, <1>7, <1>8, <2>2, SMT
  <2> QED BY <2>3 DEF m
<1> QED BY <1>9, <1>10

-------------------------------------------------------------------------------
\* The loop tries the directories of PATH, and nothing else if a NUL is behind them.
LEMMA TriedStart ==
    ASSUME NEW dirs, Directories(dirs), NEW pos, Places(pos, dirs),
           NEW F, IsText(F), Lie(F, dirs, pos, Len(dirs))
    PROVE  /\ StartsWith(DirectoriesTried(F), dirs)
           /\ pos[Len(dirs)] + 1 \in 1 .. Len(F) /\ F[pos[Len(dirs)] + 1] = Nul
                => DirectoriesTried(F) = dirs
<1> DEFINE n == Len(F)
           m == Len(dirs)
<1>1. PICK l : IsLoop(l, F) /\ DirectoriesTried(F) = l[n][2]
  BY LoopExists
<1>2. /\ l \in [0 .. n -> LoopState(F)] /\ l[0] = <<1, <<>> >>
      /\ \A k \in 1 .. n : l[k] = LoopStep(F, l[k - 1])
  BY <1>1 DEF IsLoop
<1>3. n \in Nat /\ m \in 0 .. n /\ dirs \in Seq(Seq(Element)) /\ m \in Nat
  BY TextEnds, PlacesGrow, LenProperties DEF Directories
<1>4. pos \in [0 .. m -> Nat] /\ pos[0] = 0
  BY DEF Places
<1>5. ASSUME NEW k \in 1 .. m
      PROVE  /\ pos[k - 1] + 1 \in 1 .. n /\ F[pos[k - 1] + 1] # Nul
             /\ EndOfDirectory(F, pos[k - 1] + 1) = pos[k]
             /\ SubSeq(F, pos[k - 1] + 1, pos[k] - 1) = dirs[k]
  BY NextDirectory
<1>6. \A k \in 1 .. m : dirs[k] \in Seq(Element)
  BY <1>3, ElementOfSeq
<1>7. \A k \in 0 .. m : SubSeq(dirs, 1, k) \in Seq(Seq(Element)) /\ Len(SubSeq(dirs, 1, k)) = k
  BY <1>3, FirstCells
<1>8. \A k \in 1 .. m : Append(SubSeq(dirs, 1, k - 1), dirs[k]) = SubSeq(dirs, 1, k)
  BY <1>3, OneMore
<1>9. SubSeq(dirs, 1, m) = dirs
  <2> DEFINE s == SubSeq(dirs, 1, m)
  <2>1. m \in 0 .. m
    <3> HIDE DEF m
    <3> QED BY <1>3, SMT
  <2>2. s \in Seq(Seq(Element)) /\ Len(s) = m /\ \A i \in 1 .. m : s[i] = dirs[i]
    BY <1>3, <2>1, FirstCells
  <2> HIDE DEF s
  <2>3. s = dirs
    BY <1>3, <2>2, SameCells
  <2> QED BY <2>3 DEF s
<1> HIDE DEF n, m
<1>10. ASSUME NEW k \in 1 .. m, l[k - 1] = <<pos[k - 1] + 1, SubSeq(dirs, 1, k - 1)>>
       PROVE  l[k] = <<pos[k] + 1, SubSeq(dirs, 1, k)>>
  <2> DEFINE b == l[k - 1]
             i == pos[k - 1] + 1
  <2>1. k \in 1 .. n
    BY <1>3, SMT
  <2>2. b[1] = i /\ b[2] = SubSeq(dirs, 1, k - 1)
    BY <1>10
  <2>3. l[k] = LoopStep(F, b)
    BY <1>2, <2>1
  <2>4. i \in 1 .. n /\ F[i] # Nul /\ EndOfDirectory(F, i) = pos[k]
        /\ SubSeq(F, i, pos[k] - 1) = dirs[k]
    BY <1>5
  <2> HIDE DEF b, i
  <2>5. i # n + 1
    BY <1>3, <2>4, SMT
  <2>6. LoopStep(F, b) = <<pos[k] + 1, Append(b[2], dirs[k])>>
    BY <2>2, <2>4, <2>5 DEF LoopStep, n
  <2>7. Append(b[2], dirs[k]) = SubSeq(dirs, 1, k)
    BY <1>8, <2>2
  <2> QED BY <2>3, <2>6, <2>7
<1> DEFINE T == {k \in 0 .. m : l[k] = <<pos[k] + 1, SubSeq(dirs, 1, k)>>}
<1>11. 0 \in T
  <2>1. 0 \in 0 .. m /\ 0 + 1 = 1
    BY <1>3, SMT
  <2>2. SubSeq(dirs, 1, 0) = <<>>
    BY <1>7, <2>1, EmptySeq
  <2>3. l[0] = <<pos[0] + 1, SubSeq(dirs, 1, 0)>>
    BY <1>2, <1>4, <2>1, <2>2
  <2> QED BY <2>1, <2>3
<1>12. ASSUME NEW k \in 0 .. m - 1, k \in T PROVE k + 1 \in T
  <2> DEFINE x == k + 1
  <2>1. x \in 1 .. m /\ x \in 0 .. m /\ x - 1 = k
    BY <1>3, SMT
  <2> HIDE DEF x
  <2>2. l[x] = <<pos[x] + 1, SubSeq(dirs, 1, x)>>
    BY <1>10, <1>12, <2>1
  <2>3. x \in T
    BY <2>1, <2>2
  <2> QED BY <2>3 DEF x
<1> HIDE DEF T
<1>13. \A k \in 0 .. m : k \in T
  BY <1>3, <1>11, <1>12, Induction
<1>14. l[m] = <<pos[m] + 1, dirs>>
  <2>1. m \in 0 .. m
    BY <1>3, SMT
  <2> QED BY <1>9, <1>13, <2>1 DEF T
<1>15. n - m \in Nat /\ m + (n - m) = n /\ m + 0 = m
       /\ \A k \in 0 .. (n - m) - 1 : m + (k + 1) \in 1 .. n /\ (m + (k + 1)) - 1 = m + k
                                      /\ k + 1 \in 0 .. n - m /\ k \in 0 .. n - m
                                      /\ m + k \in 0 .. n
       /\ 0 \in 0 .. n - m /\ n - m \in 0 .. n - m
  BY <1>3, SMT
<1>16. ASSUME NEW b \in LoopState(F), StartsWith(b[2], dirs) PROVE StartsWith(LoopStep(F, b)[2], dirs)
  <2>1. CASE b[1] = Len(F) + 1 \/ F[b[1]] = Nul
    BY <1>16, <2>1 DEF LoopStep
  <2>2. CASE ~(b[1] = Len(F) + 1 \/ F[b[1]] = Nul)
    <3> DEFINE D == b[2]
               e == EndOfDirectory(F, b[1])
               d == SubSeq(F, b[1], e - 1)
               A == LoopStep(F, b)[2]
    <3>1. A = Append(D, d)
      BY <2>2 DEF LoopStep
    <3>2. A \in Seq(Seq(Element))
      BY LoopStepIs DEF LoopState
    <3>3. D \in Seq(Seq(Element)) /\ Len(D) \in Nat /\ Len(D) >= m
          /\ \A i \in 1 .. m : D[i] = dirs[i]
      BY <1>16 DEF StartsWith, m
    <3> HIDE DEF D, d, A
    <3>4. Len(A) = Len(D) + 1 /\ \A i \in 1 .. Len(D) : A[i] = D[i]
      BY <3>1, <3>3
    <3> DEFINE c == Len(D)
    <3>5. c \in Nat /\ c >= m /\ Len(A) = c + 1
      BY <3>3, <3>4
    <3> HIDE DEF c
    <3>6. Len(A) \in Nat /\ Len(A) >= m /\ \A i \in 1 .. m : i \in 1 .. c
      <4>1. c + 1 \in Nat /\ c + 1 >= m /\ \A i \in 1 .. m : i \in 1 .. c
        BY <1>3, <3>5, SMT
      <4> QED BY <3>5, <4>1
    <3>7. \A i \in 1 .. m : A[i] = dirs[i]
      BY <3>3, <3>4, <3>6 DEF c
    <3>8. StartsWith(A, dirs)
      BY <3>2, <3>6, <3>7 DEF StartsWith, m
    <3> QED BY <3>8 DEF A
  <2> QED BY <2>1, <2>2
<1> DEFINE U == {k \in 0 .. n - m : StartsWith(l[m + k][2], dirs)}
<1>17. 0 \in U
  <2>1. StartsWith(dirs, dirs)
    <3>1. m >= m
      BY <1>3, SMT
    <3> QED BY <1>3, <3>1 DEF StartsWith, m
  <2>2. l[m + 0][2] = dirs
    BY <1>14, <1>15
  <2> QED BY <1>15, <2>1, <2>2
<1>18. ASSUME NEW k \in 0 .. (n - m) - 1, k \in U PROVE k + 1 \in U
  <2> DEFINE x == m + (k + 1)
             b == l[x - 1]
  <2>1. x \in 1 .. n /\ x - 1 = m + k /\ m + k \in 0 .. n
    BY <1>15
  <2> HIDE DEF x
  <2>2. b \in LoopState(F) /\ StartsWith(b[2], dirs) /\ l[x] = LoopStep(F, b)
    BY <1>2, <1>18, <2>1
  <2> HIDE DEF b
  <2>3. StartsWith(l[x][2], dirs)
    BY <1>16, <2>2
  <2> QED BY <1>15, <2>3 DEF x
<1> HIDE DEF U
<1>19. \A k \in 0 .. n - m : k \in U
  BY <1>15, <1>17, <1>18, Induction
<1>20. StartsWith(l[n][2], dirs)
  BY <1>15, <1>19 DEF U
<1>21. ASSUME pos[m] + 1 \in 1 .. n, F[pos[m] + 1] = Nul PROVE l[n][2] = dirs
  <2> DEFINE b == l[m]
  <2>1. b[1] = pos[m] + 1 /\ b[2] = dirs
    BY <1>14
  <2> HIDE DEF b
  <2>2. LoopStep(F, b) = b
    BY <1>21, <2>1 DEF LoopStep
  <2> DEFINE W == {k \in 0 .. n - m : l[m + k] = b}
  <2>3. 0 \in W
    BY <1>15 DEF b
  <2>4. ASSUME NEW k \in 0 .. (n - m) - 1, k \in W PROVE k + 1 \in W
    <3> DEFINE x == m + (k + 1)
    <3>1. x \in 1 .. n /\ x - 1 = m + k
      BY <1>15
    <3> HIDE DEF x
    <3>2. l[x] = LoopStep(F, b)
      BY <1>2, <2>4, <3>1
    <3> QED BY <1>15, <2>2, <3>2 DEF x
  <2> HIDE DEF W
  <2>5. \A k \in 0 .. n - m : k \in W
    BY <1>15, <2>3, <2>4, Induction
  <2>6. l[n] = b
    BY <1>15, <2>5 DEF W
  <2> QED BY <2>1, <2>6
<1> QED BY <1>1, <1>20, <1>21 DEF n, m

-------------------------------------------------------------------------------
\* A text, a NUL, and what is behind it.
LEMMA WithNul ==
    ASSUME NEW p \in Seq(Element), NEW s, IsText(s), NEW r, r = p \o <<Nul>> \o s
    PROVE  /\ IsText(r) /\ Len(p) \in Nat
           /\ Len(p) + 1 \in 1 .. Len(r) /\ r[Len(p) + 1] = Nul
           /\ \A i \in 1 .. Len(p) : i \in 1 .. Len(r) /\ r[i] = p[i]
<1> DEFINE z == <<Nul>>
           q == p \o z
           a == Len(p)
           c == Len(s)
<1>1. z \in Seq(Element) /\ Len(z) = 1 /\ z[1] = Nul
  <2>1. Nul \in Element
    BY DEF Element
  <2> QED BY <2>1
<1>2. r = q \o s
  OBVIOUS
<1> HIDE DEF z
<1>3. /\ q \in Seq(Element) /\ Len(q) = a + Len(z) /\ a \in Nat
      /\ \A i \in 1 .. a : q[i] = p[i]
      /\ \A i \in 1 .. Len(z) : q[a + i] = z[i]
  <2>1. z \in Seq(Element)
    BY <1>1
  <2> QED BY <2>1, ConcatIs
<1>4. s \in Seq(Element) /\ c \in Nat /\ c # 0 /\ c \in 1 .. c /\ s[c] = Nul
  BY TextEnds DEF IsText
<1> HIDE DEF q
<1>5. /\ r \in Seq(Element) /\ Len(r) = Len(q) + c
      /\ \A i \in 1 .. Len(q) : r[i] = q[i]
      /\ \A i \in 1 .. c : r[Len(q) + i] = s[i]
  <2> DEFINE w == q \o s
  <2>1. q \in Seq(Element)
    BY <1>3
  <2>2. s \in Seq(Element)
    BY <1>4
  <2>3. /\ w \in Seq(Element) /\ Len(w) = Len(q) + c
        /\ \A i \in 1 .. Len(q) : w[i] = q[i]
        /\ \A i \in 1 .. c : w[Len(q) + i] = s[i]
    BY <2>1, <2>2, ConcatIs
  <2>4. r = w
    BY <1>2
  <2> HIDE DEF w
  <2> QED BY <2>3, <2>4
<1> HIDE DEF a, c
<1>6. Len(q) = a + 1 /\ Len(r) = a + 1 + c
  BY <1>1, <1>3, <1>5
<1>7. /\ a + 1 \in 1 .. a + 1 /\ a + 1 \in 1 .. a + 1 + c /\ a + 1 + c # 0 /\ 1 \in 1 .. 1
      /\ \A i \in 1 .. a : i \in 1 .. a + 1 /\ i \in 1 .. a + 1 + c
  BY <1>3, <1>4, SMT
<1>8. r[a + 1] = Nul
  <2>1. q[a + 1] = Nul
    BY <1>1, <1>3, <1>7
  <2> QED BY <1>5, <1>6, <1>7, <2>1
<1>9. \A i \in 1 .. a : i \in 1 .. Len(r) /\ r[i] = p[i]
  BY <1>3, <1>5, <1>6, <1>7
<1>10. IsText(r)
  <2>1. r[Len(r)] = Nul
    <3>1. r[(a + 1) + c] = s[c]
      BY <1>4, <1>5, <1>6
    <3> QED BY <1>4, <1>6, <3>1
  <2>2. r # <<>>
    BY <1>5, <1>6, <1>7, EmptySeq
  <2> QED BY <1>5, <2>1, <2>2 DEF IsText, Last
<1> QED BY <1>3, <1>6, <1>7, <1>8, <1>9, <1>10 DEF a

\* What the loop tries of PATH, and of PATH without its last colon.
LEMMA TriedOfPath ==
    ASSUME NEW dirs \in SearchPaths, NEW stack \in Leftovers
    PROVE  /\ DirectoriesTried(Join(dirs) \o <<Nul>> \o stack) = dirs
           /\ StartsWith(DirectoriesTried(Front(Join(dirs)) \o <<Nul>> \o stack), dirs)
<1> DEFINE p == Join(dirs)
           m == Len(dirs)
           n == Len(p)
           r == p \o <<Nul>> \o stack
           f == Front(p)
           t == f \o <<Nul>> \o stack
<1>1. Directories(dirs) /\ m \in Nat /\ m \in 0 .. m
  <2>1. Directories(dirs) /\ m \in Nat
    BY SearchDirectories, LenProperties DEF Directories
  <2> HIDE DEF m
  <2> QED BY <2>1, SMT
<1>2. PICK pos : /\ Places(pos, dirs) /\ Lie(p, dirs, pos, m)
                 /\ pos[m] = n /\ (dirs # <<>> => p[n] = Colon)
  BY <1>1, JoinLies
<1>3. IsText(stack)
  <2>1. stack \in Seq(STRING) /\ stack # <<>> /\ Last(stack) = Nul
    BY FileAssumption
  <2> QED BY <2>1, Wider DEF IsText
<1>4. p \in Seq(Element) /\ n \in Nat
  BY <1>2, LenProperties DEF Lie
<1> HIDE DEF p
<1>5. /\ IsText(r) /\ n + 1 \in 1 .. Len(r) /\ r[n + 1] = Nul
      /\ \A i \in 1 .. n : i \in 1 .. Len(r) /\ r[i] = p[i]
  BY <1>3, <1>4, WithNul
<1> HIDE DEF r
<1>6. DirectoriesTried(r) = dirs
  <2>1. Keeps(p, r)
    BY <1>5 DEF Keeps, IsText
  <2>2. Lie(r, dirs, pos, m)
    BY <1>1, <1>2, <2>1, LieOn
  <2> QED BY <1>1, <1>2, <1>5, <2>2, TriedStart
<1>7. CASE dirs = <<>>
  <2>1. m = 0 /\ n = 0 /\ p = <<>>
    <3>1. m = 0
      BY <1>7, EmptySeq
    <3>2. n = 0
      BY <1>2, <3>1 DEF Places
    <3> QED BY <1>4, <3>1, <3>2, EmptySeq
  <2>2. f \in Seq(Element)
    <3>1. f = <<>>
      <4>1. f = SubSeq(p, 1, n - 1)
        BY DEF Front
      <4>2. n - 1 \in Int /\ n - 1 < 1 /\ 1 \in Int
        BY <2>1, SMT
      <4> DEFINE e == n - 1
      <4>3. e \in Int /\ e < 1
        BY <4>2
      <4> HIDE DEF e
      <4>4. SubSeq(p, 1, e) = <<>>
        BY <4>3, SubSeqEmpty
      <4> QED BY <4>1, <4>4 DEF e
    <3> QED BY <3>1, EmptySeq
  <2> HIDE DEF f
  <2>3. IsText(t)
    BY <1>3, <2>2, WithNul
  <2> HIDE DEF t
  <2>4. Lie(t, dirs, pos, m)
    <3>1. 1 .. m = {}
      BY <2>1, SMT
    <3> QED BY <2>3, <3>1 DEF Lie, IsText
  <2>5. StartsWith(DirectoriesTried(t), dirs)
    BY <1>1, <1>2, <2>3, <2>4, TriedStart
  <2> QED BY <1>6, <2>5 DEF t, r, f, p
<1>8. CASE dirs # <<>>
  <2>1. n # 0 /\ p # <<>>
    <3>1. m # 0
      BY <1>1, <1>8, EmptySeq DEF Directories
    <3>2. m \in 1 .. m
      <4> HIDE DEF m
      <4> QED BY <1>1, <3>1, SMT
    <3>3. pos[m] \in 1 .. n
      BY <1>2, <3>2 DEF Lie
    <3> HIDE DEF n, m
    <3>4. n # 0
      BY <1>2, <1>4, <3>3, SMT
    <3> QED BY <1>4, <3>4, EmptySeq DEF n
  <2>2. f \in Seq(Element) /\ Len(f) = n - 1 /\ \A i \in 1 .. n - 1 : f[i] = p[i]
    BY <1>4, <2>1, FrontIs
  <2> HIDE DEF f
  <2>3. /\ IsText(t) /\ Len(f) + 1 \in 1 .. Len(t) /\ t[Len(f) + 1] = Nul
        /\ \A i \in 1 .. Len(f) : i \in 1 .. Len(t) /\ t[i] = f[i]
    BY <1>3, <2>2, WithNul
  <2> HIDE DEF t, n
  <2>4. (n - 1) + 1 = n /\ \A i \in 1 .. n : i \in 1 .. n - 1 \/ i = n
    BY <1>4, <2>1, SMT
  <2>5. n \in 1 .. Len(t) /\ t[n] = Nul
    BY <2>2, <2>3, <2>4
  <2>6. \A i \in 1 .. n - 1 : i \in 1 .. Len(t) /\ t[i] = p[i]
    BY <2>2, <2>3
  <2>7. Keeps(p, t)
    <3>1. t \in Seq(Element)
      BY <2>3 DEF IsText
    <3>2. ASSUME NEW i \in 1 .. n
          PROVE  i \in 1 .. Len(t) /\ (t[i] = p[i] \/ (p[i] = Colon /\ t[i] = Nul))
      BY <1>2, <1>8, <2>4, <2>5, <2>6
    <3> QED BY <3>1, <3>2 DEF Keeps, n
  <2>8. Lie(t, dirs, pos, m)
    BY <1>1, <1>2, <2>7, LieOn
  <2>9. StartsWith(DirectoriesTried(t), dirs)
    BY <1>1, <1>2, <2>3, <2>8, TriedStart
  <2> QED BY <1>6, <2>9 DEF t, r, f, p
<1> QED BY <1>7, <1>8

-------------------------------------------------------------------------------
\* The search through PATH finds what the command means.
LEMMA FoundIs ==
    ASSUME NEW dirs \in SearchPaths, NEW c \in Commands, NEW dir,
           NEW D, StartsWith(D, dirs), D = dirs \/ Meant(dir, c, dirs) # NoFile,
           Named(In(dir, c)) = {}
    PROVE  FirstFound(D, c) = Meant(dir, c, dirs)
<1> DEFINE tried == <<dir>> \o dirs
           has == {k \in DOMAIN tried : Named(In(tried[k], c)) # {}}
           found == {k \in DOMAIN D : get_file_address(InDirectory(D[k], c)) # NotFound}
           m == Len(dirs)
           f == FirstOf(found)
           h == FirstOf(has)
<1>1. Meant(dir, c, dirs) = IF has = {} THEN NoFile ELSE In(tried[h], c)
  BY DEF Meant, In
<1>2. FirstFound(D, c) = IF found = {} THEN NoFile ELSE InDirectory(D[f], c)
  BY DEF FirstFound
<1>3. /\ m \in Nat /\ DOMAIN dirs = 1 .. m
      /\ DOMAIN tried = 1 .. m + 1
      /\ tried[1] = dir /\ \A k \in 1 .. m : tried[k + 1] = dirs[k]
  <2>1. dirs \in Seq(Seq(STRING))
    BY FileAssumption
  <2> QED BY <2>1
<1>4. Len(D) \in Nat /\ DOMAIN D = 1 .. Len(D) /\ Len(D) >= m /\ \A k \in 1 .. m : D[k] = dirs[k]
  <2>1. D \in Seq(Seq(Element))
    BY DEF StartsWith
  <2> QED BY <2>1 DEF StartsWith
<1>5. \A k \in 1 .. m : InDirectory(dirs[k], c) = In(dirs[k], c)
  <2> TAKE k \in 1 .. m
  <2>1. PICK s : Spells(dirs[k], s)
    BY <1>3, SearchSpells
  <2>2. IsPlain(c) /\ Last(c) # Slash
    BY FileAssumption
  <2> QED BY <2>1, <2>2, InIs
<1> HIDE DEF tried, m
<1>6. \A k \in 1 .. m : k \in DOMAIN D /\ k + 1 \in DOMAIN tried
  BY <1>3, <1>4, SMT
<1>7. \A k \in 1 .. m : (k \in found) <=> (k + 1 \in has)
  BY <1>3, <1>4, <1>5, <1>6, FoundIfNamed
<1>8. 1 \notin has /\ has \in SUBSET (1 .. m + 1)
  BY <1>3
<1>9. found \in SUBSET Nat /\ \A k \in found : k \in Nat \ {0}
  BY <1>4
<1>10. has \in SUBSET Nat
  BY <1>3
<1>11. D = dirs => found \in SUBSET (1 .. m)
  BY <1>3
<1> HIDE DEF has, found
<1>12. \A k \in has : k - 1 \in 1 .. m /\ (k - 1) + 1 = k
  BY <1>3, <1>8, SMT
<1>13. CASE has = {}
  <2>1. D = dirs
    BY <1>1, <1>13
  <2>2. found = {}
    BY <1>7, <1>11, <1>13, <2>1
  <2> QED BY <1>1, <1>2, <1>13, <2>2
<1>14. CASE has # {}
  <2>1. h \in has /\ \A k \in has : h <= k
    BY <1>10, <1>14, FirstIs
  <2> HIDE DEF h
  <2>2. h - 1 \in 1 .. m /\ (h - 1) + 1 = h
    BY <1>12, <2>1
  <2>3. h - 1 \in found
    BY <1>7, <2>1, <2>2
  <2>4. f \in found /\ f <= h - 1
    <3>1. f \in found /\ \A k \in found : f <= k
      BY <1>9, <2>3, FirstIs
    <3> QED BY <2>3, <3>1
  <2> HIDE DEF f
  <2>5. f \in 1 .. m
    BY <1>3, <1>9, <2>2, <2>4, SMT
  <2>6. f + 1 \in has
    BY <1>7, <2>4, <2>5
  <2>7. h = f + 1
    <3>1. h <= f + 1
      BY <2>1, <2>6
    <3> QED BY <1>3, <2>2, <2>4, <2>5, <3>1, SMT
  <2>8. InDirectory(D[f], c) = In(tried[h], c)
    BY <1>3, <1>4, <1>5, <2>5, <2>7
  <2> QED BY <1>1, <1>2, <1>14, <2>3, <2>8
<1> QED BY <1>13, <1>14

\* A command is looked for in the working directory first.
LEMMA CommandFound ==
    ASSUME NEW dirs \in SearchPaths, NEW c \in Commands, NEW dir \in Directory, NEW stack,
           NEW path, NEW D, D = DirectoriesTried(path \o <<Nul>> \o stack),
           StartsWith(D, dirs), D = dirs \/ Meant(dir, c, dirs) # NoFile
    PROVE  get_executable_path(dir, c, path, stack) = Meant(dir, c, dirs)
<1> DEFINE here == Tail(remove_dotslash(dir, c, 0))
<1>1. IsPlain(c) /\ Last(c) # Slash
  BY FileAssumption
<1>2. Head(c) # Slash
  BY <1>1, PlainIs
<1>3. here = In(dir, c)
  <2>1. PICK s : Spells(dir, s)
    BY DirectorySpells
  <2> QED BY <1>1, <2>1, InIs
<1>4. get_executable_path(dir, c, path, stack) =
        IF get_file_address(here) # NotFound THEN here ELSE FirstFound(D, c)
  BY <1>2 DEF get_executable_path
<1> HIDE DEF here
<1>5. CASE Named(In(dir, c)) = {}
  <2>1. FirstFound(D, c) = Meant(dir, c, dirs)
    BY <1>5, FoundIs
  <2>2. get_file_address(here) = NotFound
    BY <1>3, <1>5, FoundIfNamed
  <2> QED BY <1>4, <2>1, <2>2
<1>6. CASE Named(In(dir, c)) # {}
  <2> DEFINE tried == <<dir>> \o dirs
             has == {k \in DOMAIN tried : Named(In(tried[k], c)) # {}}
             h == FirstOf(has)
  <2>1. Meant(dir, c, dirs) = IF has = {} THEN NoFile ELSE In(tried[h], c)
    BY DEF Meant, In
  <2>2. tried[1] = dir /\ 1 \in DOMAIN tried /\ DOMAIN tried \in SUBSET (Nat \ {0})
    <3>1. dirs \in Seq(Seq(STRING))
      BY FileAssumption
    <3> QED BY <3>1
  <2> HIDE DEF tried
  <2>3. 1 \in has /\ has \in SUBSET Nat /\ \A k \in has : k \in Nat \ {0}
    BY <1>6, <2>2
  <2> HIDE DEF has
  <2>4. h = 1
    <3>1. h \in has /\ h <= 1
      BY <2>3, FirstIs
    <3> HIDE DEF h
    <3>2. h \in Nat \ {0}
      BY <2>3, <3>1
    <3> QED BY <3>1, <3>2, SMT
  <2>5. Meant(dir, c, dirs) = In(dir, c)
    BY <2>1, <2>2, <2>3, <2>4
  <2>6. get_file_address(here) # NotFound
    BY <1>3, <1>6, FoundIfNamed
  <2> QED BY <1>3, <1>4, <2>5, <2>6
<1> QED BY <1>5, <1>6

\* For any archive and tree of directories, any paths, commands and values of PATH,
\* and whatever the stack held: a path resolves to what it means in every working
\* directory, and a command to the first file of its name.
THEOREM PathsAreResolved == Spec => []PathsResolve
<1>1. CwdInv /\ live \subseteq Task => PathsResolve
  <2> SUFFICES ASSUME CwdInv, live \subseteq Task, NEW t \in live, NEW dir, dir = cwd[t]
               PROVE  /\ \A path \in Paths :
                            LET meant == Spelled(Meaning(dir, path)) IN
                                /\ remove_dotslash(dir, path, 1) = meant
                                /\ Ended(remove_dotslash(dir, path, 0)) = meant
                      /\ \A command \in Commands, dirs \in SearchPaths, stack \in Leftovers :
                            LET meant == Meant(dir, command, dirs)
                                path == Join(dirs)
                            IN  /\ get_executable_path(dir, command, path, stack) = meant
                                /\ meant # NoFile =>
                                    get_executable_path(dir, command, Front(path), stack) = meant
    BY DEF PathsResolve
  <2>1. dir \in Directory
    BY DEF CwdInv
  <2>2. ASSUME NEW path \in Paths
        PROVE  /\ remove_dotslash(dir, path, 1) = Spelled(Meaning(dir, path))
               /\ Ended(remove_dotslash(dir, path, 0)) = Spelled(Meaning(dir, path))
    <3>1. PICK s : Spells(dir, s)
      BY <2>1, DirectorySpells
    <3>2. IsPath(path)
      BY FileAssumption
    <3> QED BY <3>1, <3>2, Resolves
  <2>3. ASSUME NEW command \in Commands, NEW dirs \in SearchPaths, NEW stack \in Leftovers
        PROVE  LET meant == Meant(dir, command, dirs)
                   path == Join(dirs)
               IN  /\ get_executable_path(dir, command, path, stack) = meant
                   /\ meant # NoFile =>
                        get_executable_path(dir, command, Front(path), stack) = meant
    <3> DEFINE meant == Meant(dir, command, dirs)
               path == Join(dirs)
               short == Front(path)
               D == DirectoriesTried(path \o <<Nul>> \o stack)
               E == DirectoriesTried(short \o <<Nul>> \o stack)
    <3>1. D = dirs /\ StartsWith(E, dirs)
      BY TriedOfPath
    <3>2. StartsWith(dirs, dirs)
      <4>1. Directories(dirs)
        BY SearchDirectories
      <4>2. dirs \in Seq(Seq(Element)) /\ Len(dirs) \in Nat
        BY <4>1, LenProperties DEF Directories
      <4>3. \A n \in Nat : n >= n
        BY SMT
      <4> QED BY <4>2, <4>3 DEF StartsWith
    <3> HIDE DEF path, short
    <3>3. get_executable_path(dir, command, path, stack) = meant
      BY <2>1, <3>1, <3>2, CommandFound
    <3>4. meant # NoFile => get_executable_path(dir, command, short, stack) = meant
      BY <2>1, <3>1, CommandFound
    <3> QED BY <3>3, <3>4 DEF path, short
  <2> QED BY <2>2, <2>3
<1>2. FilesInv => live \subseteq Task
  BY DEF FilesInv, ShapesInv
<1> QED BY FilesInit, FilesStep, InsideInit, CwdStep, <1>1, <1>2, PTL DEF Spec

-------------------------------------------------------------------------------
\* The list that a search over headers 1 .. N builds: the names of those in W, without
\* the ones that are the name before.
IsList(E, N, S, nm, W) ==
    /\ N \in Nat /\ nm \in [1 .. N -> S] /\ W \in SUBSET (1 .. N)
    /\ E \in [0 .. N -> Seq(S)]
    /\ E[0] = <<>>
    /\ \A n \in 1 .. N :
        E[n] = IF n \notin W \/ (E[n - 1] # <<>> /\ Last(E[n - 1]) = nm[n])
               THEN E[n - 1] ELSE Append(E[n - 1], nm[n])

\* One cell behind a sequence.
LEMMA OneCellMore ==
    ASSUME NEW S, NEW s \in Seq(S), NEW x \in S
    PROVE  /\ Append(s, x) \in Seq(S) /\ Len(s) \in Nat /\ Len(Append(s, x)) = Len(s) + 1
           /\ Append(s, x) # <<>> /\ Last(Append(s, x)) = x
           /\ Append(s, x)[Len(s) + 1] = x
           /\ \A i \in 1 .. Len(s) : Append(s, x)[i] = s[i]
<1>1. /\ Append(s, x) \in Seq(S) /\ Len(Append(s, x)) = Len(s) + 1 /\ Append(s, x)[Len(s) + 1] = x
      /\ \A i \in 1 .. Len(s) : Append(s, x)[i] = s[i]
  BY AppendIs
<1>2. Len(s) \in Nat /\ Len(<<>>) = 0
  BY LenProperties
<1>3. Append(s, x) # <<>>
  BY <1>1, <1>2, SMT
<1> QED BY <1>1, <1>2, <1>3 DEF Last

\* Headers that are not in W, or have the name before, add nothing.
LEMMA ListStays ==
    ASSUME NEW E, NEW N, NEW S, NEW nm, NEW W, IsList(E, N, S, nm, W),
           NEW x \in 0 .. N, NEW y \in x .. N,
           \A k \in x + 1 .. y : k \in W => E[x] # <<>> /\ Last(E[x]) = nm[k]
    PROVE  E[y] = E[x]
<1> DEFINE T == {d \in 0 .. y - x : E[x + d] = E[x]}
<1>1. N \in Nat /\ x \in Nat /\ y \in Nat /\ y - x \in Nat
  BY SMT DEF IsList
<1>2. 0 \in T
  BY <1>1, SMT
<1>3. ASSUME NEW d \in 0 .. (y - x) - 1, d \in T PROVE d + 1 \in T
  <2>1. x + (d + 1) \in 1 .. N /\ x + (d + 1) \in x + 1 .. y /\ (x + (d + 1)) - 1 = x + d
        /\ d + 1 \in 0 .. y - x
    BY <1>1, SMT
  <2>2. E[(x + (d + 1)) - 1] = E[x]
    BY <1>3, <2>1
  <2> DEFINE n == x + (d + 1)
  <2>3. n \in 1 .. N /\ n \in x + 1 .. y /\ E[n - 1] = E[x]
    BY <2>1, <2>2
  <2> HIDE DEF n
  <2>4. E[n] = E[x]
    BY <2>3 DEF IsList
  <2> QED BY <2>1, <2>4 DEF n
<1> HIDE DEF T
<1>4. \A d \in 0 .. y - x : d \in T
  BY <1>1, <1>2, <1>3, Induction
<1>5. y - x \in 0 .. y - x /\ x + (y - x) = y
  BY <1>1, SMT
<1> QED BY <1>4, <1>5 DEF T

\* Behind a header of W the list ends in its name.
LEMMA ListEnds ==
    ASSUME NEW E, NEW N, NEW S, NEW nm, NEW W, IsList(E, N, S, nm, W), NEW n \in W
    PROVE  E[n] # <<>> /\ Last(E[n]) = nm[n]
<1>1. n \in 1 .. N /\ n - 1 \in 0 .. N /\ nm[n] \in S
  BY SMT DEF IsList
<1>2. E[n - 1] \in Seq(S)
  BY <1>1 DEF IsList
<1>3. E[n] = IF E[n - 1] # <<>> /\ Last(E[n - 1]) = nm[n] THEN E[n - 1] ELSE Append(E[n - 1], nm[n])
  BY <1>1 DEF IsList
<1> DEFINE e == E[n - 1]
           c == nm[n]
<1>4. Append(e, c) # <<>> /\ Last(Append(e, c)) = c
  BY <1>1, <1>2, OneCellMore
<1> QED BY <1>3, <1>4

\* One list starts with another.
Starts(s, t) == Len(s) <= Len(t) /\ \A i \in 1 .. Len(s) : t[i] = s[i]

\* The list only grows.
LEMMA ListGrows ==
    ASSUME NEW E, NEW N, NEW S, NEW nm, NEW W, IsList(E, N, S, nm, W),
           NEW x \in 0 .. N, NEW y \in x .. N
    PROVE  Starts(E[x], E[y])
<1> DEFINE T == {d \in 0 .. y - x : Starts(E[x], E[x + d])}
<1>1. N \in Nat /\ x \in Nat /\ y \in Nat /\ y - x \in Nat
  BY SMT DEF IsList
<1>2. E[x] \in Seq(S) /\ Len(E[x]) \in Nat
  BY LenProperties DEF IsList
<1>3. 0 \in T
  <2>1. Starts(E[x], E[x])
    BY <1>2, SMT DEF Starts
  <2>2. x + 0 = x /\ 0 \in 0 .. y - x
    BY <1>1, SMT
  <2> QED BY <2>1, <2>2
<1>4. ASSUME NEW d \in 0 .. (y - x) - 1, d \in T PROVE d + 1 \in T
  <2>1. x + (d + 1) \in 1 .. N /\ (x + (d + 1)) - 1 = x + d /\ x + d \in 0 .. N
        /\ d + 1 \in 0 .. y - x
    BY <1>1, SMT
  <2> DEFINE n == x + (d + 1)
             e == E[x + d]
             c == nm[n]
  <2>2. n \in 1 .. N /\ E[n - 1] = e /\ e \in Seq(S) /\ c \in S
    BY <2>1 DEF IsList
  <2>3. Starts(E[x], e)
    BY <1>4
  <2>4. E[n] = e \/ E[n] = Append(e, c)
    BY <2>2 DEF IsList
  <2> HIDE DEF n, e, c
  <2>5. ASSUME E[n] = Append(e, c) PROVE Starts(E[x], E[n])
    <3>1. /\ Len(e) \in Nat /\ Len(Append(e, c)) = Len(e) + 1
          /\ \A i \in 1 .. Len(e) : Append(e, c)[i] = e[i]
      BY <2>2, OneCellMore
    <3> DEFINE s == E[x]
               t == E[n]
    <3>2. /\ Len(e) \in Nat /\ Len(t) = Len(e) + 1 /\ \A i \in 1 .. Len(e) : t[i] = e[i]
          /\ Len(s) \in Nat /\ Starts(s, e)
      BY <1>2, <2>3, <2>5, <3>1
    <3> HIDE DEF s, t
    <3>3. Len(s) <= Len(t) /\ \A i \in 1 .. Len(s) : i \in 1 .. Len(e)
      <4> DEFINE a == Len(s)
                 b == Len(e)
                 z == Len(t)
      <4>1. a \in Nat /\ b \in Nat /\ z = b + 1 /\ a <= b
        BY <3>2 DEF Starts
      <4> HIDE DEF a, b, z
      <4>2. a <= z /\ \A i \in 1 .. a : i \in 1 .. b
        BY <4>1, SMT
      <4> QED BY <4>2 DEF a, b, z
    <3>4. Starts(s, t)
      BY <3>2, <3>3 DEF Starts
    <3> QED BY <3>4 DEF s, t
  <2>6. Starts(E[x], E[n])
    BY <2>3, <2>4, <2>5
  <2> QED BY <2>1, <2>6 DEF n
<1> HIDE DEF T
<1>5. \A d \in 0 .. y - x : d \in T
  BY <1>1, <1>3, <1>4, Induction
<1>6. y - x \in 0 .. y - x /\ x + (y - x) = y
  BY <1>1, SMT
<1> QED BY <1>5, <1>6 DEF T

\* What a list holds is the names of W, up to a number.
NamesUpTo(s, nm, W, n) ==
    /\ \A i \in 1 .. Len(s) : \E k \in W : k <= n /\ nm[k] = s[i]
    /\ \A k \in W : k <= n => \E i \in 1 .. Len(s) : s[i] = nm[k]

\* The list holds the names of the headers behind it.
LEMMA ListHolds ==
    ASSUME NEW E, NEW N, NEW S, NEW nm, NEW W, IsList(E, N, S, nm, W), NEW x \in 0 .. N
    PROVE  NamesUpTo(E[x], nm, W, x)
<1> DEFINE T == {n \in 0 .. N : NamesUpTo(E[n], nm, W, n)}
<1>1. N \in Nat /\ W \in SUBSET (1 .. N) /\ E[0] = <<>>
  BY DEF IsList
<1>2. 0 \in T
  <2>1. Len(<<>>) = 0 /\ \A k \in 1 .. N : ~(k <= 0)
    BY <1>1, SMT
  <2>2. NamesUpTo(<<>>, nm, W, 0)
    BY <1>1, <2>1 DEF NamesUpTo
  <2> QED BY <1>1, <2>2
<1>3. ASSUME NEW m \in 0 .. N - 1, m \in T PROVE m + 1 \in T
  <2>1. m + 1 \in 1 .. N /\ (m + 1) - 1 = m /\ m + 1 \in 0 .. N /\ m \in 0 .. N /\ m \in Nat
    BY <1>1, SMT
  <2> DEFINE n == m + 1
             e == E[m]
             c == nm[n]
             t == E[n]
  <2>2. n \in 1 .. N /\ n - 1 = m /\ n \in 0 .. N /\ e \in Seq(S) /\ c \in S
    BY <2>1 DEF IsList
  <2>3. NamesUpTo(e, nm, W, m)
    BY <1>3
  <2>4. t = IF n \notin W \/ (e # <<>> /\ Last(e) = nm[n]) THEN e ELSE Append(e, c)
    BY <2>2 DEF IsList
  <2>5. \A k \in W : k <= n => k <= m \/ k = n
    <3>1. \A k \in 1 .. N : k <= m + 1 => k <= m \/ k = m + 1
      BY <2>1, SMT
    <3> QED BY <1>1, <3>1
  <2>6. \A k \in W : k <= m => k <= n
    <3>1. \A k \in 1 .. N : k <= m => k <= m + 1
      BY <2>1, SMT
    <3> QED BY <1>1, <3>1
  <2>7. n <= n
    BY <2>1, SMT
  <2> HIDE DEF n, e, c, t
  <2>8. CASE n \notin W
    <3>1. t = e
      BY <2>4, <2>8
    <3> QED BY <2>2, <2>3, <2>5, <2>6, <2>8, <3>1 DEF NamesUpTo, n, t
  <2>9. CASE n \in W /\ e # <<>> /\ Last(e) = nm[n]
    <3>1. t = e
      BY <2>4, <2>9
    <3>2. Len(e) \in 1 .. Len(e) /\ e[Len(e)] = nm[n]
      <4>1. Len(e) \in Nat \ {0}
        BY <2>2, <2>9, EmptySeq
      <4> QED BY <2>9, <4>1 DEF Last
    <3>3. NamesUpTo(t, nm, W, n)
      <4>1. \A i \in 1 .. Len(e) : \E k \in W : k <= n /\ nm[k] = e[i]
        BY <2>3, <2>6 DEF NamesUpTo
      <4>2. ASSUME NEW k \in W, k <= n PROVE \E i \in 1 .. Len(e) : e[i] = nm[k]
        BY <2>3, <2>5, <3>2, <4>2 DEF NamesUpTo
      <4> QED BY <3>1, <4>1, <4>2 DEF NamesUpTo
    <3> QED BY <2>2, <3>3 DEF n, t
  <2>10. CASE n \in W /\ t = Append(e, c)
    <3>1. /\ Len(e) \in Nat /\ Len(t) = Len(e) + 1 /\ t[Len(e) + 1] = c
          /\ \A i \in 1 .. Len(e) : t[i] = e[i]
      BY <2>2, <2>10, OneCellMore
    <3> DEFINE a == Len(e)
    <3>2. \A i \in 1 .. a + 1 : i \in 1 .. a \/ i = a + 1
      BY <3>1, SMT
    <3>3. a + 1 \in 1 .. a + 1 /\ \A i \in 1 .. a : i \in 1 .. a + 1
      BY <3>1, SMT
    <3>4. c = nm[n]
      BY DEF c
    <3> HIDE DEF a
    <3>5. Len(t) = a + 1 /\ t[a + 1] = c /\ \A i \in 1 .. a : t[i] = e[i]
      BY <3>1 DEF a
    <3>6. ASSUME NEW i \in 1 .. Len(t) PROVE \E k \in W : k <= n /\ nm[k] = t[i]
      <4>1. CASE i \in 1 .. a
        <5>1. PICK k \in W : k <= m /\ nm[k] = e[i]
          BY <2>3, <4>1 DEF NamesUpTo, a
        <5> QED BY <2>6, <3>5, <4>1, <5>1
      <4>2. CASE i = a + 1
        BY <2>7, <2>10, <3>4, <3>5, <4>2
      <4> QED BY <3>2, <3>5, <4>1, <4>2
    <3>7. ASSUME NEW k \in W, k <= n PROVE \E i \in 1 .. Len(t) : t[i] = nm[k]
      <4>1. CASE k <= m
        <5>1. PICK i \in 1 .. a : e[i] = nm[k]
          BY <2>3, <4>1 DEF NamesUpTo, a
        <5> QED BY <3>3, <3>5, <5>1
      <4>2. CASE k = n
        BY <3>3, <3>4, <3>5, <4>2
      <4> QED BY <2>5, <3>7, <4>1, <4>2
    <3>8. NamesUpTo(t, nm, W, n)
      BY <3>6, <3>7 DEF NamesUpTo
    <3> QED BY <2>2, <3>8 DEF n, t
  <2> QED BY <2>4, <2>8, <2>9, <2>10
<1> HIDE DEF T
<1>4. \A n \in 0 .. N : n \in T
  BY <1>1, <1>2, <1>3, Induction
<1> QED BY <1>4 DEF T

\* Headers one behind another, from the first on; and those of the same name are next to
\* each other.
IsRun(W, lo, N) == W \in SUBSET (lo .. N) /\ \A n \in W : \A k \in lo .. n : k \in W
InGroups(W, nm) ==
    \A a, b \in W : nm[a] = nm[b] => \A k \in W : a <= k /\ k <= b => nm[k] = nm[a]
Once(s) == \A i, j \in 1 .. Len(s) : s[i] = s[j] => i = j

\* Then no name is twice in the list.
LEMMA ListOnce ==
    ASSUME NEW E, NEW N, NEW S, NEW nm, NEW W, IsList(E, N, S, nm, W),
           NEW lo \in Nat \ {0}, IsRun(W, lo, N), InGroups(W, nm), NEW x \in 0 .. N
    PROVE  Once(E[x])
<1> DEFINE T == {n \in 0 .. N : Once(E[n])}
<1>1. N \in Nat /\ W \in SUBSET (1 .. N) /\ E[0] = <<>>
  BY DEF IsList
<1>2. 0 \in T
  <2>1. Once(<<>>)
    BY SMT DEF Once
  <2> QED BY <1>1, <2>1
<1>3. ASSUME NEW m \in 0 .. N - 1, m \in T PROVE m + 1 \in T
  <2>1. m + 1 \in 1 .. N /\ (m + 1) - 1 = m /\ m + 1 \in 0 .. N /\ m \in 0 .. N /\ m \in Nat
    BY <1>1, SMT
  <2> DEFINE n == m + 1
             e == E[m]
             c == nm[n]
             t == E[n]
  <2>2. n \in 1 .. N /\ n - 1 = m /\ n \in 0 .. N /\ e \in Seq(S) /\ c \in S
    BY <2>1 DEF IsList
  <2>3. Once(e) /\ NamesUpTo(e, nm, W, m)
    BY <1>3, <2>1, ListHolds
  <2>4. t = IF n \notin W \/ (e # <<>> /\ Last(e) = nm[n]) THEN e ELSE Append(e, c)
    BY <2>2 DEF IsList
  <2>5. CASE t = e
    BY <2>2, <2>3, <2>5
  <2>6. CASE n \in W /\ ~(e # <<>> /\ Last(e) = nm[n]) /\ t = Append(e, c)
    <3> SUFFICES Once(t)
      BY <2>2
    <3>1. /\ Len(e) \in Nat /\ Len(t) = Len(e) + 1 /\ t[Len(e) + 1] = c
          /\ \A i \in 1 .. Len(e) : t[i] = e[i]
      <4> HIDE DEF e, c, t
      <4> QED BY <2>2, <2>6, OneCellMore
    <3>2. ASSUME NEW i \in 1 .. Len(e), e[i] = c PROVE FALSE
      <4>1. PICK k \in W : k <= m /\ nm[k] = e[i]
        BY <2>3, <3>2 DEF NamesUpTo
      <4>2. m \in W /\ m <= m + 1
        <5>1. k \in lo .. N /\ k <= m /\ m <= n /\ m \in Nat
          <6>1. m <= m + 1
            BY <2>1, SMT
          <6> QED BY <2>1, <4>1, <6>1 DEF IsRun
        <5>2. m \in lo .. n
          BY <2>1, <5>1, SMT
        <5> QED BY <2>6, <5>1, <5>2 DEF IsRun
      <4>3. nm[k] = nm[n] /\ k <= m /\ m <= n
        BY <3>2, <4>1, <4>2
      <4>4. nm[m] = nm[n]
        BY <2>6, <4>1, <4>2, <4>3 DEF InGroups
      <4>5. e # <<>> /\ Last(e) = nm[m]
        BY <4>2, ListEnds
      <4> QED BY <2>6, <4>4, <4>5
    <3> DEFINE a == Len(e)
    <3>3. a \in Nat /\ Len(t) = a + 1 /\ t[a + 1] = c /\ \A i \in 1 .. a : t[i] = e[i]
      BY <3>1
    <3>4. \A i \in 1 .. a : e[i] # c
      BY <3>2
    <3>5. \A i, j \in 1 .. a : e[i] = e[j] => i = j
      BY <2>3 DEF Once
    <3> HIDE DEF a, t, e, c
    <3>6. \A i \in 1 .. a + 1 : i \in 1 .. a \/ i = a + 1
      BY <3>3, SMT
    <3> QED BY <3>3, <3>4, <3>5, <3>6 DEF Once
  <2> QED BY <2>4, <2>5, <2>6
<1> HIDE DEF T
<1>4. \A n \in 0 .. N : n \in T
  BY <1>1, <1>2, <1>3, Induction
<1> QED BY <1>4 DEF T

-------------------------------------------------------------------------------
\* What is below a directory starts with its name.
LEMMA UnderIs ==
    ASSUME NEW S, NEW d \in Seq(S), NEW c \in Seq(S)
    PROVE  Under(d, c) <=> d # c /\ Starts(d, c)
<1> DEFINE n == Len(d)
           z == Len(c)
<1>1. n \in Nat /\ z \in Nat
  BY LenProperties
<1>2. SubSeq(d, 1, n) \in Seq(S) /\ Len(SubSeq(d, 1, n)) = n
      /\ \A i \in 1 .. n : SubSeq(d, 1, n)[i] = d[i]
  <2>1. n \in 0 .. Len(d)
    BY <1>1
  <2> HIDE DEF n
  <2> QED BY <2>1, FirstCells
<1>3. n <= z => /\ SubSeq(c, 1, n) \in Seq(S) /\ Len(SubSeq(c, 1, n)) = n
                /\ \A i \in 1 .. n : SubSeq(c, 1, n)[i] = c[i]
  <2>1. n <= z => n \in 0 .. Len(c)
    BY <1>1
  <2> HIDE DEF n
  <2> QED BY <2>1, FirstCells
<1>4. Under(d, c) <=> d # c /\ n <= z /\ SubSeq(d, 1, n) = SubSeq(c, 1, n)
  BY DEF Under, IsStrictPrefix, IsPrefix
<1>5. Starts(d, c) <=> n <= z /\ \A i \in 1 .. n : c[i] = d[i]
  BY DEF Starts
<1>6. ASSUME n <= z, \A i \in 1 .. n : c[i] = d[i]
      PROVE  SubSeq(d, 1, n) = SubSeq(c, 1, n)
  <2> DEFINE p == SubSeq(d, 1, n)
             q == SubSeq(c, 1, n)
  <2>1. p \in Seq(S) /\ q \in Seq(S) /\ Len(p) = Len(q) /\ \A i \in 1 .. Len(p) : p[i] = q[i]
    BY <1>2, <1>3, <1>6
  <2> HIDE DEF p, q
  <2>2. p = q
    BY <2>1, SameCells
  <2> QED BY <2>2 DEF p, q
<1>7. ASSUME n <= z, SubSeq(d, 1, n) = SubSeq(c, 1, n)
      PROVE  \A i \in 1 .. n : c[i] = d[i]
  BY <1>2, <1>3, <1>7
<1> HIDE DEF n, z
<1> QED BY <1>4, <1>5, <1>6, <1>7

\* Slashes are at the even places.
Alternates(c) == \A k \in 1 .. Len(c) : c[k] = Slash <=> k % 2 = 0

\* The first name below a directory: the next two cells, or the one that is left.
CellsBelow(d, c, b) ==
    /\ Len(b) = IF Len(c) - Len(d) >= 2 THEN 2 ELSE Len(c) - Len(d)
    /\ \A i \in 1 .. Len(b) : b[i] = c[Len(d) + i]

\* A part of a sequence.
LEMMA PartIs ==
    ASSUME NEW S, NEW s \in Seq(S), NEW m \in Nat, NEW n \in Nat, m <= n, n <= Len(s)
    PROVE  /\ SubSeq(s, m + 1, n) \in Seq(S) /\ Len(SubSeq(s, m + 1, n)) = n - m
           /\ \A i \in 1 .. n - m : SubSeq(s, m + 1, n)[i] = s[m + i]
<1>1. \A i \in m + 1 .. n : s[i] \in S
  <2>1. Len(s) \in Nat
    BY LenProperties
  <2>2. \A i \in m + 1 .. n : i \in 1 .. Len(s)
    BY <2>1, SMT
  <2> QED BY <2>2, ElementOfSeq
<1>2. SubSeq(s, m + 1, n) = [i \in 1 .. n - (m + 1) + 1 |-> s[m + 1 + i - 1]]
  BY SubSeqProperties, SMT
<1>3. n - (m + 1) + 1 = n - m /\ n - m \in Nat /\ \A i \in 1 .. n - m : m + 1 + i - 1 = m + i /\ m + i \in m + 1 .. n
  BY SMT
<1> DEFINE p == SubSeq(s, m + 1, n)
           z == n - m
<1>4. p = [i \in 1 .. z |-> s[m + i]]
  BY <1>2, <1>3
<1>5. z \in Nat /\ \A i \in 1 .. z : s[m + i] \in S
  BY <1>1, <1>3
<1> HIDE DEF p, z
<1>6. p \in [1 .. z -> S] /\ \A i \in 1 .. z : p[i] = s[m + i]
  BY <1>4, <1>5
<1>7. p \in Seq(S) /\ Len(p) = z
  BY <1>5, <1>6, IsASeq, LenProperties, SMT
<1> QED BY <1>6, <1>7 DEF p, z

\* get_first_directory() and get_sub_directory() return the next two cells.
LEMMA BelowIs ==
    ASSUME NEW S, NEW d \in Seq(S), NEW c \in Seq(S), Alternates(c),
           Len(d) % 2 = 0, Len(d) <= Len(c)
    PROVE  Below(d, c) \in Seq(S) /\ CellsBelow(d, c, Below(d, c))
<1> DEFINE m == Len(d)
           n == Len(c)
           rest == SubSeq(c, m + 1, n)
           z == n - m
<1>1. m \in Nat /\ n \in Nat /\ m <= n /\ m % 2 = 0
  BY LenProperties
<1>2. z \in Nat /\ m + 1 = 1 + m
  BY <1>1, SMT
<1>3. rest \in Seq(S) /\ Len(rest) = z /\ \A i \in 1 .. z : rest[i] = c[m + i]
  <2>1. n <= Len(c)
    BY <1>1, SMT
  <2> HIDE DEF m, n
  <2> QED BY <1>1, <2>1, PartIs
<1>4. Below(d, c) = IF Slash \in ToSet(rest) THEN SubSeq(rest, 1, 2) ELSE rest
  BY DEF Below
<1> HIDE DEF rest
<1>5. ToSet(rest) = {rest[i] : i \in 1 .. z}
  BY <1>3, LenProperties DEF ToSet
<1>6. \A i \in 1 .. z : rest[i] = Slash <=> (m + i) % 2 = 0
  <2> TAKE i \in 1 .. z
  <2>1. m + i \in 1 .. n
    BY <1>1, <1>2, SMT
  <2>2. c[m + i] = Slash <=> (m + i) % 2 = 0
    BY <2>1 DEF Alternates
  <2> QED BY <1>3, <2>2
<1> HIDE DEF m, n
<1>7. CASE z < 2
  <2>1. \A i \in 1 .. z : (m + i) % 2 # 0
    BY <1>1, <1>2, <1>7, SMT
  <2>2. Slash \notin ToSet(rest)
    BY <1>5, <1>6, <2>1
  <2>3. Below(d, c) = rest
    BY <1>4, <2>2
  <2>4. ~(Len(c) - Len(d) >= 2) /\ Len(c) - Len(d) = z
    BY <1>1, <1>2, <1>7, SMT DEF m, n
  <2> HIDE DEF z
  <2> QED BY <1>3, <2>3, <2>4 DEF CellsBelow, m
<1>8. CASE ~(z < 2)
  <2>1. 2 \in 1 .. z /\ (m + 2) % 2 = 0 /\ 2 \in 0 .. z /\ z >= 2
    BY <1>1, <1>2, <1>8, SMT
  <2>2. Slash \in ToSet(rest)
    BY <1>5, <1>6, <2>1
  <2>3. Below(d, c) = SubSeq(rest, 1, 2)
    BY <1>4, <2>2
  <2>4. SubSeq(rest, 1, 2) \in Seq(S) /\ Len(SubSeq(rest, 1, 2)) = 2
        /\ \A i \in 1 .. 2 : SubSeq(rest, 1, 2)[i] = rest[i]
    <3>1. 2 \in 0 .. Len(rest)
      BY <1>3, <2>1
    <3> QED BY <1>3, <3>1, FirstCells
  <2>5. Len(c) - Len(d) >= 2
    BY <1>2, <2>1 DEF m, n
  <2>6. \A i \in 1 .. 2 : i \in 1 .. z
    BY <1>2, <2>1, SMT
  <2> HIDE DEF z
  <2> QED BY <1>3, <2>3, <2>4, <2>5, <2>6 DEF CellsBelow, m
<1> QED BY <1>7, <1>8

\* The names of the archive, and that of the blocks of zeros.
LEMMA HeaderNames ==
    ASSUME NEW n \in DOMAIN Headers
    PROVE  /\ Headers[n].name \in Seq(STRING) /\ Alternates(Headers[n].name)
           /\ n \notin DOMAIN Archive => Headers[n].name = <<>>
           /\ n \in DOMAIN Archive => Headers[n] = Archive[n] /\ Headers[n].name # <<>>
<1>1. CASE n \in DOMAIN Archive
  <2>1. Headers[n] = Archive[n] /\ IsPlain(Archive[n].name)
    BY <1>1, HeadersAre, ArchiveAssumption
  <2> DEFINE c == Headers[n].name
  <2>2. c \in Seq(STRING) /\ c # <<>> /\ IsPlain(c)
    BY <2>1 DEF IsPlain
  <2> HIDE DEF c
  <2>3. \A k \in 1 .. Len(c) : IF k % 2 = 0 THEN c[k] = Slash ELSE c[k] \notin Marks
    BY <2>2, PlainIs
  <2>4. Slash \in Marks
    BY DEF Marks
  <2>5. Alternates(c)
    BY <2>3, <2>4 DEF Alternates
  <2> QED BY <1>1, <2>1, <2>2, <2>5 DEF c
<1>2. CASE n \notin DOMAIN Archive
  <2>1. Headers[n].name = <<>>
    BY <1>2, HeadersAre DEF ZeroBlock, Nameless
  <2>2. <<>> \in Seq(STRING) /\ \A k \in 1 .. Len(<<>>) : FALSE
    BY SMT
  <2> QED BY <1>2, <2>1, <2>2 DEF Alternates
<1> QED BY <1>1, <1>2

\* A directory of the archive ends in a slash, at an even place.
LEMMA DirectoryName ==
    ASSUME NEW m \in DOMAIN Archive, Archive[m].size = 0
    PROVE  /\ IsDirectory(Archive[m]) /\ Archive[m].name \in Seq(STRING)
           /\ Len(Archive[m].name) \in Nat \ {0} /\ Len(Archive[m].name) % 2 = 0
<1>1. /\ m \in DOMAIN Headers /\ Headers[m] = Archive[m]
      /\ Archive[m].name \in Seq(STRING) /\ Archive[m].name # <<>> /\ Alternates(Archive[m].name)
  BY HeadersAre, HeaderNames
<1>2. IsDirectory(Archive[m])
  BY <1>1 DEF IsDirectory, Nameless
<1>3. Last(Archive[m].name) = Slash
  BY <1>2, ArchiveAssumption
<1>4. Len(Archive[m].name) \in Nat \ {0}
  BY <1>1, EmptySeq
<1>5. Len(Archive[m].name) \in 1 .. Len(Archive[m].name)
  BY <1>4, SMT
<1> QED BY <1>1, <1>2, <1>3, <1>4, <1>5 DEF Last, Alternates

-------------------------------------------------------------------------------
\* The headers from one on are those with an address not before its.
LEMMA FromIs ==
    ASSUME NEW n \in 1 .. Len(Headers) + 1
    PROVE  From(Address[n]) = n .. Len(Headers)
<1> DEFINE L == Len(Headers)
<1>1. L \in Nat /\ DOMAIN Headers = 1 .. L /\ n \in Nat /\ n # 0 /\ n <= L + 1
  BY HeadersAre, SMT
<1>2. \A k \in 1 .. L + 1 : Address[k] \in Nat
  BY AddressIs
<1>3. ASSUME NEW a \in 1 .. L, NEW b \in a + 1 .. L + 1 PROVE Address[a] < Address[b]
  <2>1. Address[a] + Step(Headers[a]) <= Address[b] /\ Address[a] \in Nat /\ Address[b] \in Nat
    BY <1>3, AddressGrows
  <2>2. Headers[a].size \in Nat /\ Block \in Nat \ {0}
    BY <1>1, HeadersAre, ArchiveAssumption
  <2>3. Step(Headers[a]) \in Nat /\ Step(Headers[a]) >= Block + Headers[a].size
    BY <2>2, StepIsOver
  <2> DEFINE s == Step(Headers[a])
             z == Headers[a].size
             x == Address[a]
             y == Address[b]
  <2>4. s \in Nat /\ z \in Nat /\ x \in Nat /\ y \in Nat /\ s >= Block + z /\ x + s <= y
    BY <2>1, <2>2, <2>3
  <2> HIDE DEF s, z, x, y
  <2>5. x < y
    BY <2>2, <2>4, SMT
  <2> QED BY <2>5 DEF x, y
<1>4. ASSUME NEW k \in 1 .. L PROVE Address[k] >= Address[n] <=> k \in n .. L
  <2>1. k \in 1 .. L + 1 /\ k \in Nat
    BY <1>1, SMT
  <2>2. CASE k < n
    <3>1. n \in k + 1 .. L + 1 /\ ~(k \in n .. L)
      BY <1>1, <2>1, <2>2, SMT
    <3>2. Address[k] < Address[n]
      BY <1>3, <3>1
    <3>3. Address[k] \in Nat /\ Address[n] \in Nat
      BY <1>2, <2>1
    <3>4. ~(Address[k] >= Address[n])
      BY <3>2, <3>3, SMT
    <3> QED BY <3>1, <3>4
  <2>3. CASE k = n
    <3>1. Address[k] >= Address[n] /\ k \in n .. L
      BY <1>1, <1>2, <2>1, <2>3, SMT
    <3> QED BY <3>1
  <2>4. CASE k > n
    <3>1. k \in n + 1 .. L + 1 /\ k \in n .. L /\ n \in 1 .. L
      BY <1>1, <2>1, <2>4, SMT
    <3>2. Address[n] < Address[k]
      BY <1>3, <3>1
    <3>3. Address[k] \in Nat /\ Address[n] \in Nat
      BY <1>2, <2>1
    <3>4. Address[k] >= Address[n]
      BY <3>2, <3>3, SMT
    <3> QED BY <3>1, <3>4
  <2> QED BY <1>1, <2>1, <2>2, <2>3, <2>4, SMT
<1>5. From(Address[n]) = {k \in 1 .. L : Address[k] >= Address[n]}
  BY <1>1 DEF From
<1>6. n .. L \subseteq 1 .. L
  BY <1>1, SMT
<1> HIDE DEF L
<1>7. From(Address[n]) = n .. L
  BY <1>4, <1>5, <1>6
<1> QED BY <1>7 DEF L

\* The header of a directory is one block.
LEMMA DirectoryStep ==
    ASSUME NEW m \in DOMAIN Archive, Archive[m].size = 0
    PROVE  /\ m \in 1 .. Len(Headers) /\ m + 1 \in 1 .. Len(Headers)
           /\ Address[m] \in Nat /\ Address[m] + Block = Address[m + 1]
<1>1. m \in 1 .. Len(Archive) /\ Len(Headers) = Len(Archive) + 2 /\ Len(Archive) \in Nat
      /\ Headers[m] = Archive[m]
  BY HeadersAre
<1>2. m \in 1 .. Len(Headers) /\ m + 1 \in 1 .. Len(Headers) /\ m \in 1 .. Len(Headers) + 1
  BY <1>1, SMT
<1>3. Address[m + 1] = Address[m] + Step(Archive[m]) /\ Address[m] \in Nat
  BY <1>1, <1>2, AddressIs
<1>4. Step(Archive[m]) = Block
  <2>1. Block \in Nat \ {0}
    BY ArchiveAssumption
  <2>2. (0 + Block - 1) \div Block = 0
    <3> DEFINE d == Block - 1
               q == d \div Block
               r == d % Block
    <3>1. d \in Nat /\ d < Block /\ 0 + Block - 1 = d
      BY <2>1, SMT
    <3>2. d = Block * q + r /\ r \in 0 .. Block - 1 /\ q \in Nat
      BY <2>1, <3>1, SMT
    <3> HIDE DEF d, q, r
    <3>3. q >= 1 => Block * q >= Block * 1
      BY <2>1, <3>2, SMT
    <3>4. q = 0
      BY <2>1, <3>1, <3>2, <3>3, SMT
    <3> QED BY <3>1, <3>4 DEF q
  <2>3. Block + 0 * Block = Block
    BY <2>1, SMT
  <2> QED BY <1>1, <2>2, <2>3 DEF Step
<1> QED BY <1>2, <1>3, <1>4

\* What opendir() finds, and the first header behind it.
IsStream(dir, start, lo) ==
    \/ dir = Root /\ start = 1 /\ lo = 1
    \/ \E m \in DOMAIN Archive :
        /\ Archive[m].size = 0 /\ dir = Archive[m].name
        /\ start = Address[m] /\ lo = m + 1

\* All headers from one on are below a directory.
AllBelow(dir, lo, n) == \A k \in lo .. n : Under(dir, Headers[k].name)

\* The headers that getDirEntries() passes are a run from the first on.
LEMMA PassedIs ==
    ASSUME NEW dir, NEW start, NEW lo, IsStream(dir, start, lo)
    PROVE  /\ lo \in 1 .. Len(Headers)
           /\ Passed(dir, start) = {n \in lo .. Len(Headers) : dir = Root \/ AllBelow(dir, lo, n)}
           /\ IsRun(Passed(dir, start), lo, Len(Headers))
<1> DEFINE L == Len(Headers)
           W == {n \in lo .. L : dir = Root \/ AllBelow(dir, lo, n)}
<1>1. L \in Nat /\ L >= 2 /\ 1 \in 1 .. L + 1
  BY HeadersAre, SMT
<1>2. lo \in 1 .. L /\ Passed(dir, start) = W
  <2>1. CASE dir = Root /\ start = 1 /\ lo = 1
    <3>1. From(1) = 1 .. L
      BY <1>1, FromIs, AddressIs
    <3> QED BY <1>1, <2>1, <3>1, SMT DEF Passed
  <2>2. CASE ~(dir = Root /\ start = 1 /\ lo = 1)
    <3>1. PICK m \in DOMAIN Archive : Archive[m].size = 0 /\ dir = Archive[m].name
                                      /\ start = Address[m] /\ lo = m + 1
      BY <2>2 DEF IsStream
    <3>2. lo \in 1 .. L /\ start + Block = Address[lo]
      BY <3>1, DirectoryStep
    <3>3. lo \in 1 .. L + 1
      BY <1>1, <3>2, SMT
    <3>4. From(start + Block) = lo .. L
      BY <3>2, <3>3, FromIs
    <3>5. dir # Root
      BY <3>1, RootIsNoName
    <3>6. Passed(dir, start) =
            {n \in lo .. L : \A k \in lo .. L : k <= n => Under(dir, Headers[k].name)}
      BY <3>4, <3>5 DEF Passed
    <3>7. \A n \in lo .. L : (\A k \in lo .. L : k <= n => Under(dir, Headers[k].name))
                                <=> AllBelow(dir, lo, n)
      <4>1. \A n \in lo .. L : \A k : (k \in lo .. L /\ k <= n) <=> k \in lo .. n
        BY <1>1, <3>2, SMT
      <4> HIDE DEF L
      <4> QED BY <4>1 DEF AllBelow
    <3> QED BY <3>2, <3>5, <3>6, <3>7
  <2> QED BY <2>1, <2>2
<1>3. IsRun(W, lo, L)
  <2>1. ASSUME NEW n \in W, NEW k \in lo .. n PROVE k \in W
    <3>1. n \in lo .. L /\ (dir = Root \/ AllBelow(dir, lo, n))
      OBVIOUS
    <3>2. k \in lo .. L /\ \A i \in lo .. k : i \in lo .. n
      BY <1>1, <1>2, <3>1, SMT
    <3> QED BY <3>1, <3>2 DEF AllBelow
  <2> QED BY <2>1 DEF IsRun
<1> QED BY <1>2, <1>3

\* The names that a listing is made of.
NamesBelow(dir) == [n \in DOMAIN Headers |-> Below(Prefix(dir), Headers[n].name)]

\* What a directory is called, and how its entries' names start.
LEMMA PrefixIs ==
    ASSUME NEW dir, NEW start, NEW lo, IsStream(dir, start, lo)
    PROVE  /\ Prefix(dir) \in Seq(STRING) /\ Len(Prefix(dir)) \in Nat /\ Len(Prefix(dir)) % 2 = 0
           /\ dir = Root => Prefix(dir) = <<>>
           /\ dir # Root => /\ Prefix(dir) = dir
                            /\ \E m \in DOMAIN Archive :
                                /\ Archive[m].size = 0 /\ dir = Archive[m].name
                                /\ start = Address[m] /\ lo = m + 1
<1>1. CASE dir = Root
  <2>1. Prefix(dir) = <<>> /\ <<>> \in Seq(STRING) /\ Len(<<>>) = 0 /\ 0 % 2 = 0
    BY <1>1, SMT DEF Prefix
  <2> QED BY <1>1, <2>1
<1>2. CASE dir # Root
  <2>1. PICK m \in DOMAIN Archive : Archive[m].size = 0 /\ dir = Archive[m].name
                                    /\ start = Address[m] /\ lo = m + 1
    BY <1>2 DEF IsStream
  <2>2. dir \in Seq(STRING) /\ Len(dir) \in Nat /\ Len(dir) % 2 = 0
    BY <2>1, DirectoryName
  <2> QED BY <1>2, <2>1, <2>2 DEF Prefix
<1> QED BY <1>1, <1>2

\* Every name of a listing is a path; of the headers it passes, the two cells behind the
\* directory's.
LEMMA NamesAre ==
    ASSUME NEW dir, NEW start, NEW lo, IsStream(dir, start, lo)
    PROVE  /\ NamesBelow(dir) \in [1 .. Len(Headers) -> Seq(STRING)]
           /\ \A n \in Passed(dir, start) :
                /\ Starts(Prefix(dir), Headers[n].name)
                /\ CellsBelow(Prefix(dir), Headers[n].name, NamesBelow(dir)[n])
                /\ dir # Root => Prefix(dir) # Headers[n].name /\ n \in DOMAIN Archive
<1> DEFINE d == Prefix(dir)
<1>1. d \in Seq(STRING) /\ Len(d) \in Nat /\ Len(d) % 2 = 0
  BY PrefixIs
<1>2. DOMAIN Headers = 1 .. Len(Headers)
  BY HeadersAre
<1>3. ASSUME NEW n \in DOMAIN Headers
      PROVE  /\ Below(d, Headers[n].name) \in Seq(STRING)
             /\ Len(d) <= Len(Headers[n].name) =>
                    CellsBelow(d, Headers[n].name, Below(d, Headers[n].name))
  <2> DEFINE c == Headers[n].name
  <2>1. c \in Seq(STRING) /\ Alternates(c)
    BY HeaderNames
  <2> HIDE DEF c, d
  <2>2. Len(c) \in Nat
    BY <2>1, LenProperties
  <2>3. CASE Len(d) <= Len(c)
    BY <1>1, <2>1, <2>3, BelowIs DEF c
  <2>4. CASE ~(Len(d) <= Len(c))
    <3>1. Len(d) + 1 \in Int /\ Len(c) \in Int /\ Len(c) < Len(d) + 1
      BY <1>1, <2>2, <2>4, SMT
    <3>2. SubSeq(c, Len(d) + 1, Len(c)) = <<>>
      BY <3>1, SubSeqEmpty
    <3>3. ToSet(<<>>) = {}
      BY DEF ToSet
    <3>4. Below(d, c) = <<>>
      BY <3>2, <3>3 DEF Below
    <3>5. <<>> \in Seq(STRING)
      OBVIOUS
    <3> QED BY <2>4, <3>4, <3>5 DEF c
  <2> QED BY <2>3, <2>4
<1>4. NamesBelow(dir) \in [1 .. Len(Headers) -> Seq(STRING)]
  BY <1>2, <1>3 DEF NamesBelow
<1>5. ASSUME NEW n \in Passed(dir, start)
      PROVE  /\ n \in DOMAIN Headers /\ Starts(d, Headers[n].name)
             /\ dir # Root => d # Headers[n].name /\ n \in DOMAIN Archive
  <2> DEFINE c == Headers[n].name
  <2>1. n \in lo .. Len(Headers) /\ (dir = Root \/ AllBelow(dir, lo, n)) /\ n \in DOMAIN Headers
    <3>1. n \in lo .. Len(Headers) /\ (dir = Root \/ AllBelow(dir, lo, n)) /\ lo \in 1 .. Len(Headers)
      BY PassedIs
    <3> DEFINE L == Len(Headers)
    <3>2. L \in Nat /\ n \in lo .. L /\ lo \in 1 .. L
      BY <3>1, HeadersAre
    <3> HIDE DEF L
    <3>3. n \in 1 .. L
      BY <3>2, SMT
    <3> QED BY <1>2, <3>1, <3>3 DEF L
  <2>2. c \in Seq(STRING)
    BY <2>1, HeaderNames
  <2>3. CASE dir = Root
    <3>1. d = <<>>
      BY <2>3, PrefixIs
    <3>2. Len(c) \in Nat
      BY <2>2, LenProperties
    <3>3. Starts(<<>>, c)
      <4> HIDE DEF c
      <4> QED BY <3>2, SMT DEF Starts
    <3> QED BY <2>1, <2>3, <3>1, <3>3
  <2>4. CASE dir # Root
    <3>1. d = dir
      BY <2>4, PrefixIs
    <3>2. Under(dir, c)
      <4>1. AllBelow(dir, lo, n)
        BY <2>1, <2>4
      <4>2. n \in lo .. n
        BY <2>1, PassedIs, SMT
      <4> QED BY <4>1, <4>2 DEF AllBelow
    <3>3. d # c /\ Starts(d, c)
      <4> HIDE DEF d, c
      <4> QED BY <1>1, <2>2, <3>1, <3>2, UnderIs
    <3>4. n \in DOMAIN Archive
      <4> SUFFICES ASSUME n \notin DOMAIN Archive PROVE FALSE
        OBVIOUS
      <4>1. c = <<>>
        BY <2>1, HeaderNames
      <4>2. Len(c) = 0
        BY <4>1
      <4>3. Len(d) = 0
        BY <1>1, <3>3, <4>2, SMT DEF Starts
      <4>4. d = <<>>
        <5> HIDE DEF d
        <5> QED BY <1>1, <4>3, EmptySeq
      <4> QED BY <3>3, <4>1, <4>4
    <3> QED BY <2>1, <2>4, <3>3, <3>4
  <2> QED BY <2>3, <2>4
<1>6. ASSUME NEW n \in Passed(dir, start)
      PROVE  CellsBelow(d, Headers[n].name, NamesBelow(dir)[n])
  <2>1. n \in DOMAIN Headers /\ Len(d) <= Len(Headers[n].name)
    BY <1>5 DEF Starts
  <2>2. CellsBelow(d, Headers[n].name, Below(d, Headers[n].name))
    BY <1>3, <2>1
  <2> QED BY <2>1, <2>2 DEF NamesBelow
<1> QED BY <1>4, <1>5, <1>6

-------------------------------------------------------------------------------
\* Two sequences with the same first cells.
Agree(s, t, j) == j <= Len(s) /\ j <= Len(t) /\ \A i \in 1 .. j : s[i] = t[i]

\* What is between two headers of a subdirectory is in it.
LEMMA SubdirectoryRun ==
    ASSUME NEW a \in DOMAIN Archive, NEW b \in DOMAIN Archive, a <= b, NEW j \in Nat \ {0},
           Agree(Archive[a].name, Archive[b].name, j), Archive[a].name[j] = Slash,
           NEW k \in a .. b
    PROVE  k \in DOMAIN Archive /\ Agree(Archive[a].name, Archive[k].name, j)
<1> DEFINE c == Archive[a].name
           q == SubSeq(c, 1, j)
<1>1. DOMAIN Archive = 1 .. Len(Archive) /\ Len(Archive) \in Nat
  BY HeadersAre
<1>2. ASSUME NEW x \in DOMAIN Archive
      PROVE  Archive[x].name \in Seq(STRING) /\ Len(Archive[x].name) \in Nat
  <2>1. Archive[x].name \in Seq(STRING)
    BY HeadersAre, HeaderNames
  <2> QED BY <2>1, LenProperties
<1>3. q \in Seq(STRING) /\ Len(q) = j /\ \A i \in 1 .. j : q[i] = c[i]
  <2>1. c \in Seq(STRING) /\ Len(c) \in Nat /\ j <= Len(c)
    BY <1>2 DEF Agree
  <2> HIDE DEF c
  <2>2. j \in 0 .. Len(c)
    BY <2>1, SMT
  <2> QED BY <2>1, <2>2, FirstCells
<1>4. PICK e \in DOMAIN Archive : Archive[e].name = q
  <2>1. j \in DOMAIN c
    <3>1. c \in Seq(STRING) /\ Len(c) \in Nat /\ j <= Len(c)
      BY <1>2 DEF Agree
    <3> HIDE DEF c
    <3> QED BY <3>1, LenProperties, SMT
  <2> QED BY <2>1, ArchiveAssumption
<1>5. IsDirectory(Archive[e])
  <2>1. Last(q) = Slash
    <3>1. j \in 1 .. j
      BY SMT
    <3>2. q[j] = Slash
      BY <1>3, <3>1
    <3> HIDE DEF q
    <3> QED BY <1>3, <3>2 DEF Last
  <2> QED BY <1>4, <2>1, ArchiveAssumption
<1> HIDE DEF q
<1>6. ASSUME NEW x \in DOMAIN Archive, Agree(c, Archive[x].name, j)
      PROVE  x = e \/ (e < x /\ \A i \in e + 1 .. x : Under(q, Archive[i].name))
  <2> DEFINE y == Archive[x].name
  <2>1. Starts(q, y)
    BY <1>3, <1>6 DEF Starts, Agree
  <2>2. y \in Seq(STRING)
    BY <1>2
  <2>3. q = y \/ Under(q, y)
    <3> HIDE DEF y
    <3> QED BY <1>3, <2>1, <2>2, UnderIs
  <2>4. CASE q = y
    BY <1>4, <2>4, ArchiveAssumption
  <2>5. CASE Under(q, y)
    <3>1. Under(Archive[e].name, Archive[x].name) /\ IsDirectory(Archive[e])
      BY <1>4, <1>5, <2>5
    <3>2. e < x /\ \A i \in e + 1 .. x : Under(Archive[e].name, Archive[i].name)
      BY <3>1, ArchiveAssumption
    <3> QED BY <1>4, <3>2
  <2> QED BY <2>3, <2>4, <2>5
<1>7. Agree(c, c, j) /\ Agree(c, Archive[b].name, j)
  BY DEF Agree
<1>8. a = e \/ e < a
  BY <1>6, <1>7
<1>9. k \in DOMAIN Archive /\ k >= a /\ k <= b /\ a \in Nat /\ b \in Nat /\ e \in Nat
  BY <1>1, SMT
<1>10. CASE k = a
  BY <1>7, <1>10
<1>11. CASE k # a
  <2>1. e < b /\ k \in e + 1 .. b /\ b # e
    BY <1>8, <1>9, <1>11, SMT
  <2>2. Under(q, Archive[k].name)
    BY <1>6, <1>7, <2>1
  <2> DEFINE y == Archive[k].name
  <2>3. y \in Seq(STRING)
    BY <1>2, <1>9
  <2>4. Starts(q, y)
    <3> HIDE DEF y
    <3>1. Under(q, y)
      BY <2>2 DEF y
    <3> QED BY <1>3, <2>3, <3>1, UnderIs
  <2>5. Agree(c, y, j)
    BY <1>3, <1>7, <2>4 DEF Starts, Agree
  <2> QED BY <1>9, <2>5
<1> QED BY <1>10, <1>11

\* Below a directory the next two cells are the same where the names agree so far.
LEMMA SameBelow ==
    ASSUME NEW d, NEW c, NEW x, NEW b, NEW y, NEW S, Len(d) \in Nat,
           b \in Seq(S), y \in Seq(S), CellsBelow(d, c, b), CellsBelow(d, x, y),
           Len(b) = Len(y), Len(c) \in Nat, Len(x) \in Nat,
           Agree(c, x, Len(d) + Len(b))
    PROVE  b = y
<1> DEFINE m == Len(d)
           z == Len(b)
<1>1. m \in Nat /\ z \in Nat /\ Len(y) = z
  BY LenProperties
<1>2. \A i \in 1 .. z : m + i \in 1 .. m + z
  <2> HIDE DEF m, z
  <2> QED BY <1>1, SMT
<1>3. \A i \in 1 .. z : b[i] = c[m + i] /\ y[i] = x[m + i]
  BY <1>1 DEF CellsBelow
<1>4. \A i \in 1 .. z : b[i] = y[i]
  BY <1>2, <1>3 DEF Agree
<1> QED BY <1>1, <1>4, SameCells

\* Names that agree with the directory and below it.
LEMMA AgreeBelow ==
    ASSUME NEW d, NEW c, NEW x, NEW b, Len(d) \in Nat, Len(b) \in Nat,
           Len(c) \in Nat, Len(x) \in Nat, Starts(d, c), Starts(d, x),
           CellsBelow(d, c, b), CellsBelow(d, x, b)
    PROVE  Agree(c, x, Len(d) + Len(b))
<1> DEFINE m == Len(d)
           z == Len(b)
           n == Len(c)
           o == Len(x)
<1>1. m \in Nat /\ z \in Nat /\ n \in Nat /\ o \in Nat /\ m <= n /\ m <= o
      /\ z = (IF n - m >= 2 THEN 2 ELSE n - m) /\ z = (IF o - m >= 2 THEN 2 ELSE o - m)
  BY DEF Starts, CellsBelow
<1>2. ASSUME NEW i \in 1 .. m PROVE c[i] = x[i]
  BY DEF Starts
<1>3. ASSUME NEW i \in 1 .. z PROVE c[m + i] = x[m + i]
  BY DEF CellsBelow
<1> HIDE DEF m, z, n, o
<1>4. m + z <= n /\ m + z <= o
  BY <1>1, SMT
<1>5. \A i \in 1 .. m + z : i \in 1 .. m \/ (i - m \in 1 .. z /\ m + (i - m) = i)
  BY <1>1, SMT
<1>6. ASSUME NEW i \in 1 .. m + z PROVE c[i] = x[i]
  <2>1. CASE i \in 1 .. m
    BY <1>2, <2>1
  <2>2. CASE i - m \in 1 .. z /\ m + (i - m) = i
    <3>1. c[m + (i - m)] = x[m + (i - m)]
      BY <1>3, <2>2
    <3> QED BY <2>2, <3>1
  <2> QED BY <1>5, <2>1, <2>2
<1> QED BY <1>4, <1>6 DEF Agree, m, z, n, o

\* Headers with the same name below a directory are next to each other.
LEMMA NamesInGroups ==
    ASSUME NEW dir, NEW start, NEW lo, IsStream(dir, start, lo)
    PROVE  InGroups(Passed(dir, start), NamesBelow(dir))
<1> DEFINE W == Passed(dir, start)
           nm == NamesBelow(dir)
           d == Prefix(dir)
           m == Len(d)
           c(n) == Headers[n].name
<1> SUFFICES ASSUME NEW a \in W, NEW b \in W, nm[a] = nm[b], NEW k \in W, a <= k, k <= b
             PROVE  nm[k] = nm[a]
  BY DEF InGroups
<1>1. d \in Seq(STRING) /\ m \in Nat /\ m % 2 = 0 /\ (dir = Root => d = <<>>)
  BY PrefixIs
<1>2. /\ DOMAIN Headers = 1 .. Len(Headers) /\ DOMAIN Archive = 1 .. Len(Archive)
      /\ Len(Headers) = Len(Archive) + 2 /\ Len(Archive) \in Nat
  BY HeadersAre
<1>3. W \subseteq 1 .. Len(Headers)
  <2> DEFINE L == Len(Headers)
  <2>1. lo \in 1 .. L /\ W \subseteq lo .. L
    BY PassedIs
  <2>2. L \in Nat
    BY <1>2
  <2> HIDE DEF L, W
  <2>3. W \subseteq 1 .. L
    BY <2>1, <2>2, SMT
  <2> QED BY <2>3 DEF L
<1>4. ASSUME NEW n \in W
      PROVE  /\ n \in DOMAIN Headers /\ nm[n] \in Seq(STRING)
             /\ c(n) \in Seq(STRING) /\ Len(c(n)) \in Nat /\ Alternates(c(n))
             /\ Starts(d, c(n)) /\ CellsBelow(d, c(n), nm[n])
             /\ dir # Root => d # c(n) /\ n \in DOMAIN Archive
             /\ n \notin DOMAIN Archive => c(n) = <<>>
             /\ n \in DOMAIN Archive => Headers[n] = Archive[n] /\ c(n) # <<>>
  <2>1. n \in DOMAIN Headers
    BY <1>2, <1>3
  <2>2. c(n) \in Seq(STRING) /\ Alternates(c(n)) /\ (n \notin DOMAIN Archive => c(n) = <<>>)
        /\ (n \in DOMAIN Archive => Headers[n] = Archive[n] /\ c(n) # <<>>)
    BY <2>1, HeaderNames
  <2>3. /\ Starts(d, c(n)) /\ CellsBelow(d, c(n), nm[n]) /\ nm[n] \in Seq(STRING)
        /\ dir # Root => d # c(n) /\ n \in DOMAIN Archive
    BY <1>2, <2>1, NamesAre
  <2>4. Len(c(n)) \in Nat
    BY <2>2, LenProperties
  <2> QED BY <2>1, <2>2, <2>3, <2>4
<1> DEFINE z == Len(nm[a])
<1>5. z \in Nat
  BY <1>4, LenProperties
<1> DEFINE j == m + z
<1>6. Agree(c(a), c(b), j)
  <2> DEFINE p == c(a)
             q == c(b)
             v == nm[a]
  <2>1. Len(d) \in Nat /\ Len(v) \in Nat /\ Len(p) \in Nat /\ Len(q) \in Nat /\ Starts(d, p)
        /\ Starts(d, q) /\ CellsBelow(d, p, v) /\ CellsBelow(d, q, v)
    BY <1>1, <1>4, <1>5
  <2> HIDE DEF p, q, v, d
  <2>2. Agree(p, q, Len(d) + Len(v))
    BY <2>1, AgreeBelow
  <2> QED BY <2>2 DEF p, q, v
<1>7. a \in Nat /\ b \in Nat /\ k \in Nat /\ a <= k /\ k <= b
  <2> HIDE DEF W
  <2> QED BY <1>3, SMT
<1>8. /\ z = (IF Len(c(a)) - m >= 2 THEN 2 ELSE Len(c(a)) - m)
      /\ z = (IF Len(c(b)) - m >= 2 THEN 2 ELSE Len(c(b)) - m)
  BY <1>4 DEF CellsBelow
<1> HIDE DEF W, nm, d, m, c, z
<1>9. CASE z = 0
  <2>1. Len(c(a)) = m /\ Len(c(a)) \in Nat
    BY <1>1, <1>4, <1>8, <1>9, SMT
  <2>2. dir = Root
    <3> SUFFICES ASSUME dir # Root PROVE FALSE
      OBVIOUS
    <3> DEFINE p == c(a)
    <3>1. d # p /\ Starts(d, p) /\ d \in Seq(STRING) /\ p \in Seq(STRING) /\ Len(p) = Len(d)
      BY <1>1, <1>4, <2>1 DEF m
    <3> HIDE DEF p
    <3>2. d = p
      BY <3>1, SameCells DEF Starts
    <3> QED BY <3>1, <3>2
  <2>3. d = <<>> /\ m = 0
    BY <1>1, <2>2 DEF m
  <2>4. c(a) = <<>>
    BY <1>4, <2>1, <2>3, EmptySeq
  <2>5. a \notin DOMAIN Archive
    BY <1>4, <2>4
  <2>6. k \notin DOMAIN Archive
    <3> DEFINE A == Len(Archive)
    <3>1. A \in Nat /\ ~(a \in 1 .. A) /\ DOMAIN Archive = 1 .. A
      BY <1>2, <2>5
    <3>2. a \in 1 .. Len(Headers)
      BY <1>3
    <3> HIDE DEF A
    <3>3. ~(k \in 1 .. A)
      BY <1>7, <3>1, <3>2, SMT
    <3> QED BY <3>1, <3>3
  <2>7. c(k) = <<>>
    BY <1>4, <2>6
  <2>8. CellsBelow(<<>>, <<>>, nm[k]) /\ nm[k] \in Seq(STRING)
    BY <1>4, <2>3, <2>7
  <2>9. Len(nm[k]) = 0
    <3>1. Len(<<>>) = 0 /\ ~(0 - 0 >= 2) /\ 0 - 0 = 0
      BY SMT
    <3> QED BY <2>8, <3>1 DEF CellsBelow
  <2>10. nm[k] = <<>> /\ nm[a] = <<>>
    BY <1>4, <1>9, <2>8, <2>9, EmptySeq DEF z
  <2> QED BY <2>10
<1>10. CASE z = 1
  <2>1. Len(c(a)) = j /\ Len(c(b)) = j /\ j \in Nat /\ j # 0
    BY <1>1, <1>4, <1>8, <1>10, SMT
  <2>2. c(a) = c(b)
    <3> DEFINE p == c(a)
               q == c(b)
    <3>1. p \in Seq(STRING) /\ q \in Seq(STRING) /\ Len(p) = j /\ Len(q) = j /\ Agree(p, q, j)
      BY <1>4, <1>6, <2>1
    <3> HIDE DEF p, q, j
    <3>2. p = q
      BY <3>1, SameCells DEF Agree
    <3> QED BY <3>2 DEF p, q
  <2>3. c(a) # <<>> /\ c(b) # <<>>
    <3>1. Len(<<>>) = 0
      OBVIOUS
    <3> QED BY <2>1, <3>1
  <2>4. a \in DOMAIN Archive /\ b \in DOMAIN Archive /\ Archive[a].name = Archive[b].name
    BY <1>4, <2>2, <2>3 DEF c
  <2>5. a = b
    BY <2>4, ArchiveAssumption
  <2>6. k = a
    BY <1>7, <2>5, SMT
  <2> QED BY <2>6
<1>11. CASE z = 2
  <2>1. j \in Nat \ {0} /\ j % 2 = 0
    BY <1>1, <1>11, SMT
  <2>2. a \in DOMAIN Archive /\ b \in DOMAIN Archive
    <3>1. Len(<<>>) = 0 /\ ~(j <= 0)
      BY <2>1, SMT
    <3> QED BY <1>4, <1>6, <3>1 DEF Agree
  <2>3. c(a) = Archive[a].name /\ c(b) = Archive[b].name
    BY <1>4, <2>2 DEF c
  <2>4. Archive[a].name[j] = Slash
    <3>1. j \in 1 .. Len(c(a))
      <4>1. j <= Len(c(a)) /\ Len(c(a)) \in Nat
        BY <1>4, <1>6 DEF Agree
      <4> HIDE DEF j
      <4> QED BY <2>1, <4>1, SMT
    <3>2. Alternates(c(a))
      BY <1>4
    <3>3. c(a)[j] = Slash
      BY <2>1, <3>1, <3>2 DEF Alternates
    <3> QED BY <2>3, <3>3
  <2>5. k \in a .. b /\ a <= b
    BY <1>7, SMT
  <2>6. k \in DOMAIN Archive /\ Agree(Archive[a].name, Archive[k].name, j)
    <3> HIDE DEF j
    <3> QED BY <1>6, <2>1, <2>2, <2>3, <2>4, <2>5, SubdirectoryRun
  <2>7. Agree(c(a), c(k), j)
    BY <1>4, <2>3, <2>6 DEF c
  <2>8. Len(nm[k]) = z
    <3>1. j <= Len(c(k)) /\ Len(c(k)) \in Nat /\ Len(nm[k]) = IF Len(c(k)) - m >= 2 THEN 2 ELSE Len(c(k)) - m
      BY <1>4, <2>7 DEF Agree, CellsBelow, m
    <3>2. Len(c(k)) - m >= 2
      BY <1>1, <1>11, <3>1, SMT
    <3> QED BY <1>11, <3>1, <3>2
  <2>9. nm[a] = nm[k]
    <3> DEFINE p == c(a)
               q == c(k)
               v == nm[a]
               w == nm[k]
    <3>1. Len(d) \in Nat /\ v \in Seq(STRING) /\ w \in Seq(STRING) /\ CellsBelow(d, p, v)
          /\ CellsBelow(d, q, w) /\ Len(v) = Len(w) /\ Len(p) \in Nat /\ Len(q) \in Nat
          /\ Agree(p, q, Len(d) + Len(v))
      BY <1>1, <1>4, <2>7, <2>8 DEF m, z
    <3> HIDE DEF p, q, v, w
    <3>2. v = w
      BY <3>1, SameBelow
    <3> QED BY <3>2 DEF v, w
  <2> QED BY <2>9
<1>12. z = 0 \/ z = 1 \/ z = 2
  <2>1. Len(c(a)) \in Nat
    BY <1>4
  <2> DEFINE n == Len(c(a))
  <2>2. n \in Nat /\ z = (IF n - m >= 2 THEN 2 ELSE n - m)
    BY <1>8, <2>1
  <2> HIDE DEF n
  <2> QED BY <1>1, <1>5, <2>2, SMT
<1> QED BY <1>9, <1>10, <1>11, <1>12

-------------------------------------------------------------------------------
\* The headers that a listing passes are those with what the directory holds.
LEMMA ChildrenArePassed ==
    ASSUME NEW dir, NEW start, NEW lo, IsStream(dir, start, lo)
    PROVE  /\ \A n \in Passed(dir, start) : NamesBelow(dir)[n] \in Children(dir) \cup {Nameless}
           /\ \A child \in Children(dir) : \E n \in Passed(dir, start) : NamesBelow(dir)[n] = child
<1> DEFINE W == Passed(dir, start)
           L == Len(Headers)
<1>1. /\ DOMAIN Headers = 1 .. L /\ DOMAIN Archive = 1 .. Len(Archive)
      /\ L = Len(Archive) + 2 /\ Len(Archive) \in Nat
  BY HeadersAre
<1>2. lo \in 1 .. L /\ W = {n \in lo .. L : dir = Root \/ AllBelow(dir, lo, n)}
  BY PassedIs
<1>3. ASSUME NEW n \in W PROVE n \in DOMAIN Headers /\ n \in lo .. n
  <2>1. n \in lo .. L
    BY <1>2
  <2> HIDE DEF W, L
  <2> QED BY <1>1, <1>2, <2>1, SMT
<1>4. ASSUME NEW n \in W PROVE NamesBelow(dir)[n] \in Children(dir) \cup {Nameless}
  <2>1. n \in DOMAIN Headers
    BY <1>3
  <2>2. CASE n \in DOMAIN Archive
    <3>1. Headers[n] = Archive[n]
      BY <2>2, HeadersAre
    <3>2. dir = Root \/ Under(dir, Archive[n].name)
      BY <1>2, <1>3, <3>1 DEF AllBelow
    <3>3. Below(Prefix(dir), Archive[n].name) \in Children(dir)
      BY <2>2, <3>2 DEF Children
    <3> QED BY <2>1, <3>1, <3>3 DEF NamesBelow
  <2>3. CASE n \notin DOMAIN Archive
    <3>1. dir = Root /\ CellsBelow(Prefix(dir), Headers[n].name, NamesBelow(dir)[n])
          /\ NamesBelow(dir)[n] \in Seq(STRING)
      BY <1>1, <2>1, <2>3, NamesAre
    <3>2. Prefix(dir) = <<>> /\ Headers[n].name = <<>>
      BY <2>1, <2>3, <3>1, PrefixIs, HeaderNames
    <3>3. CellsBelow(<<>>, <<>>, NamesBelow(dir)[n])
      BY <3>1, <3>2
    <3>4. Len(<<>>) = 0 /\ ~(0 - 0 >= 2) /\ 0 - 0 = 0
      BY SMT
    <3>5. Len(NamesBelow(dir)[n]) = 0
      BY <3>3, <3>4 DEF CellsBelow
    <3>6. NamesBelow(dir)[n] = <<>>
      BY <3>1, <3>5, EmptySeq
    <3> QED BY <3>6 DEF Nameless
  <2> QED BY <2>2, <2>3
<1>5. ASSUME NEW child \in Children(dir) PROVE \E n \in W : NamesBelow(dir)[n] = child
  <2>1. PICK n \in DOMAIN Archive : /\ dir = Root \/ Under(dir, Archive[n].name)
                                    /\ child = Below(Prefix(dir), Archive[n].name)
    BY DEF Children
  <2>2. n \in DOMAIN Headers /\ Headers[n] = Archive[n]
    BY HeadersAre
  <2>3. NamesBelow(dir)[n] = child
    BY <2>1, <2>2 DEF NamesBelow
  <2>4. n \in W
    <3>1. CASE dir = Root
      <4>1. lo = 1
        BY <3>1, RootIsNoName DEF IsStream
      <4> QED BY <1>1, <1>2, <2>2, <3>1, <4>1
    <3>2. CASE dir # Root
      <4>1. PICK m \in DOMAIN Archive : Archive[m].size = 0 /\ dir = Archive[m].name /\ lo = m + 1
        BY <3>2 DEF IsStream
      <4>2. IsDirectory(Archive[m])
        BY <4>1, DirectoryName
      <4>3. m < n /\ \A k \in m + 1 .. n : Under(Archive[m].name, Archive[k].name)
        BY <2>1, <3>2, <4>1, <4>2, ArchiveAssumption
      <4>4. AllBelow(dir, lo, n)
        <5>1. \A k \in m + 1 .. n : k \in DOMAIN Archive
          BY <1>1, SMT
        <5>2. \A k \in m + 1 .. n : Headers[k] = Archive[k]
          BY <5>1, HeadersAre
        <5> QED BY <4>1, <4>3, <5>2 DEF AllBelow
      <4>5. n \in lo .. L
        BY <1>1, <4>1, <4>3, SMT
      <4> QED BY <1>2, <4>4, <4>5
    <3> QED BY <3>1, <3>2
  <2> QED BY <2>3, <2>4
<1> QED BY <1>4, <1>5

\* The first name of a listing is one.
LEMMA FirstNameIs ==
    ASSUME NEW dir, NEW start, NEW lo, IsStream(dir, start, lo), lo \in Passed(dir, start)
    PROVE  NamesBelow(dir)[lo] # Nameless
<1> DEFINE d == Prefix(dir)
           c == Headers[lo].name
           b == NamesBelow(dir)[lo]
<1>1. lo \in DOMAIN Headers
  BY PassedIs, HeadersAre
<1>2. lo \in DOMAIN Archive
  <2>1. CASE dir = Root
    <3>1. lo = 1
      BY <2>1, RootIsNoName DEF IsStream
    <3>2. Archive \in Seq([name : Seq(STRING), size : Nat]) /\ Archive # <<>>
      BY ArchiveAssumption
    <3>3. Len(Archive) \in Nat \ {0}
      BY <3>2, EmptySeq
    <3>4. 1 \in 1 .. Len(Archive)
      BY <3>3, SMT
    <3> QED BY <3>1, <3>4, HeadersAre
  <2>2. CASE dir # Root
    BY <2>2, NamesAre
  <2> QED BY <2>1, <2>2
<1>3. c \in Seq(STRING) /\ c # <<>>
  BY <1>1, <1>2, HeaderNames
<1>4. d \in Seq(STRING) /\ Len(d) \in Nat
  BY PrefixIs
<1>5. Starts(d, c) /\ CellsBelow(d, c, b)
  BY NamesAre
<1>6. d # c
  BY <1>3, NamesAre, PrefixIs
<1> HIDE DEF d, c, b
<1>7. Len(d) # Len(c)
  BY <1>3, <1>4, <1>5, <1>6, SameCells DEF Starts
<1>8. Len(c) \in Nat
  BY <1>3, LenProperties
<1>9. Len(b) # 0
  <2>1. Len(b) = IF Len(c) - Len(d) >= 2 THEN 2 ELSE Len(c) - Len(d)
    BY <1>5 DEF CellsBelow
  <2>2. Len(d) <= Len(c)
    BY <1>5 DEF Starts
  <2> DEFINE x == Len(b)
             y == Len(c)
             z == Len(d)
  <2>3. y \in Nat /\ z \in Nat /\ z <= y /\ z # y /\ x = IF y - z >= 2 THEN 2 ELSE y - z
    BY <1>4, <1>7, <1>8, <2>1, <2>2
  <2> HIDE DEF x, y, z
  <2>4. x # 0
    BY <2>3, SMT
  <2> QED BY <2>4 DEF x
<1>10. b # <<>>
  <2>1. Len(<<>>) = 0
    OBVIOUS
  <2> QED BY <1>9, <2>1
<1> QED BY <1>10 DEF b, Nameless

ListOf(E, dir, start) ==
    IsList(E, Len(Headers), Seq(STRING), NamesBelow(dir), Passed(dir, start))
EntryStep(dir, start, n, before) ==
    IF n \notin Passed(dir, start) \/ (before # <<>> /\ Last(before) = NamesBelow(dir)[n])
    THEN before ELSE Append(before, NamesBelow(dir)[n])

\* The recursive function of getDirEntries() builds such a list.
LEMMA EntriesAre ==
    ASSUME NEW dir, NEW start, NEW lo, IsStream(dir, start, lo)
    PROVE  \E E : ListOf(E, dir, start) /\ getDirEntries(dir, start) = E[Len(Headers)]
<1> DEFINE L == Len(Headers)
           W == Passed(dir, start)
           nm == NamesBelow(dir)
           S == Seq(Seq(STRING))
           step == [x \in (1 .. L) \X S |-> EntryStep(dir, start, x[1], x[2])]
<1>1. L \in Nat /\ DOMAIN Headers = 1 .. L
  BY HeadersAre
<1>2. nm \in [1 .. L -> Seq(STRING)]
  BY NamesAre
<1>3. ASSUME NEW n \in 1 .. L, NEW e \in S
      PROVE  EntryStep(dir, start, n, e) \in S /\ step[<<n, e>>] = EntryStep(dir, start, n, e)
  <2>1. nm[n] \in Seq(STRING)
    BY <1>2
  <2> DEFINE c == nm[n]
  <2>2. Append(e, c) \in S
    <3> HIDE DEF c
    <3> QED BY <2>1, OneCellMore DEF c
  <2>3. EntryStep(dir, start, n, e) = e \/ EntryStep(dir, start, n, e) = Append(e, c)
    BY DEF EntryStep
  <2> QED BY <2>2, <2>3
<1>4. step \in [(1 .. L) \X S -> S]
  <2>1. \A x \in (1 .. L) \X S : EntryStep(dir, start, x[1], x[2]) \in S
    BY <1>3
  <2> QED BY <2>1
<1>5. <<>> \in S
  OBVIOUS
<1> HIDE DEF S, step
<1>6. PICK f : Iterates(f, L, S, <<>>, step)
  BY <1>1, <1>4, <1>5, Recursion
<1>7. f \in [0 .. L -> S] /\ f[0] = <<>>
  BY <1>6 DEF Iterates
<1>8. ASSUME NEW n \in 1 .. L PROVE f[n] = EntryStep(dir, start, n, f[n - 1])
  <2>1. f[n] = step[<<n, f[n - 1]>>]
    BY <1>6 DEF Iterates
  <2>2. n - 1 \in 0 .. L
    BY <1>1, SMT
  <2>3. f[n - 1] \in S
    BY <1>7, <2>2
  <2> QED BY <1>3, <2>1, <2>3
<1>9. ListOf(f, dir, start)
  <2>1. W \in SUBSET (1 .. L)
    <3>1. lo \in 1 .. L /\ W \subseteq lo .. L
      BY PassedIs
    <3> HIDE DEF W, L
    <3> QED BY <1>1, <3>1, SMT
  <2> QED BY <1>1, <1>2, <1>7, <1>8, <2>1 DEF ListOf, IsList, EntryStep, S
<1> DEFINE B(b, n) == IF n = 0 THEN <<>> ELSE
                LET before == b[n - 1]
                    name == Below(Prefix(dir), Headers[n].name)
                    same == before # <<>> /\ Last(before) = name
                IN IF n \notin W \/ same THEN before ELSE Append(before, name)
           P(b) == b = [n \in 0 .. L |-> B(b, n)]
<1>10. \A b : \A n \in 1 .. L : B(b, n) = EntryStep(dir, start, n, b[n - 1])
  <2> TAKE b
  <2> TAKE n \in 1 .. L
  <2>1. nm[n] = Below(Prefix(dir), Headers[n].name) /\ n # 0
    BY <1>1, SMT DEF NamesBelow
  <2> QED BY <2>1 DEF EntryStep
<1>11. \A b : B(b, 0) = <<>>
  OBVIOUS
<1>12. \A n \in 0 .. L : n = 0 \/ n \in 1 .. L
  BY <1>1, SMT
<1>13. 0 \in 0 .. L /\ \A n \in 1 .. L : n \in 0 .. L
  BY <1>1, SMT
<1> DEFINE A == CHOOSE b : P(b)
<1>14. getDirEntries(dir, start) = A[L]
  BY DEF getDirEntries
<1> HIDE DEF B
<1>15. P(f)
  <2>1. ASSUME NEW n \in 0 .. L PROVE f[n] = B(f, n)
    <3>1. CASE n = 0
      BY <1>7, <1>11, <3>1
    <3>2. CASE n \in 1 .. L
      BY <1>8, <1>10, <3>2
    <3> QED BY <1>12, <3>1, <3>2
  <2> QED BY <1>7, <2>1
<1>16. P(A)
  <2> HIDE DEF P
  <2> QED BY <1>15
<1> HIDE DEF A
<1>17. GoTogether(A, f, L)
  <2>1. A[0] = <<>>
    BY <1>11, <1>13, <1>16
  <2>2. ASSUME NEW n \in 1 .. L, A[n - 1] = f[n - 1] PROVE A[n] = f[n]
    <3>1. A[n] = B(A, n)
      BY <1>13, <1>16
    <3>2. B(A, n) = EntryStep(dir, start, n, A[n - 1])
      BY <1>10
    <3> QED BY <1>8, <2>2, <3>1, <3>2
  <2> QED BY <1>7, <2>1, <2>2 DEF GoTogether
<1>18. A[L] = f[L]
  <2>1. L \in 0 .. L
    BY <1>1, SMT
  <2> QED BY <1>1, <1>17, <2>1, SameIteration
<1> QED BY <1>9, <1>14, <1>18

-------------------------------------------------------------------------------
\* The last name returned behind header x; there is none at the start.
PrevIs(prev, nm, x) == prev = IF x = 0 THEN Nameless ELSE nm[x]

\* Behind x nothing but the name before up to n: nothing is added.
LEMMA OnlySame ==
    ASSUME NEW E, NEW N, NEW S, NEW nm, NEW W, IsList(E, N, S, nm, W),
           NEW lo \in Nat \ {0}, IsRun(W, lo, N), lo \in W => nm[lo] # Nameless,
           NEW x \in {0} \cup W, NEW prev, PrevIs(prev, nm, x), NEW y \in x .. N,
           \A k \in W : k > x /\ k <= y => nm[k] = prev
    PROVE  E[y] = E[x]
<1>1. N \in Nat /\ W \in SUBSET (1 .. N) /\ x \in 0 .. N
  <2>1. N \in Nat /\ W \in SUBSET (1 .. N)
    BY DEF IsList
  <2> QED BY <2>1, SMT
<1>2. \A k \in x + 1 .. y : k > x /\ k <= y /\ k \in Nat
  BY <1>1, SMT
<1>3. CASE x # 0
  <2>1. x \in W /\ prev = nm[x]
    BY <1>3 DEF PrevIs
  <2>2. E[x] # <<>> /\ Last(E[x]) = prev
    BY <2>1, ListEnds
  <2>3. \A k \in x + 1 .. y : k \in W => E[x] # <<>> /\ Last(E[x]) = nm[k]
    BY <1>2, <2>2
  <2> QED BY <1>1, <2>3, ListStays
<1>4. CASE x = 0
  <2>1. prev = Nameless
    BY <1>4 DEF PrevIs
  <2>2. ASSUME NEW k \in x + 1 .. y, k \in W PROVE FALSE
    <3>1. k \in lo .. N /\ k <= y
      BY <1>2, <2>2 DEF IsRun
    <3>2. lo \in lo .. k /\ lo > x /\ lo <= y
      BY <1>1, <1>4, <3>1, SMT
    <3>3. lo \in W
      BY <2>2, <3>2 DEF IsRun
    <3> QED BY <2>1, <3>2, <3>3
  <2>3. \A k \in x + 1 .. y : k \in W => E[x] # <<>> /\ Last(E[x]) = nm[k]
    BY <2>2
  <2> QED BY <1>1, <2>3, ListStays
<1> QED BY <1>3, <1>4

\* The first header behind x with another name adds it.
LEMMA NextName ==
    ASSUME NEW E, NEW N, NEW S, NEW nm, NEW W, IsList(E, N, S, nm, W),
           NEW lo \in Nat \ {0}, IsRun(W, lo, N), lo \in W => nm[lo] # Nameless,
           NEW x \in {0} \cup W, NEW prev, PrevIs(prev, nm, x),
           NEW n \in W, n > x, nm[n] # prev,
           \A k \in W : k > x /\ nm[k] # prev => n <= k
    PROVE  E[n] = Append(E[x], nm[n])
<1>1. N \in Nat /\ W \in SUBSET (1 .. N) /\ x \in 0 .. N
  <2>1. N \in Nat /\ W \in SUBSET (1 .. N)
    BY DEF IsList
  <2> QED BY <2>1, SMT
<1>2. n \in 1 .. N /\ n - 1 \in x .. N /\ n - 1 \in 0 .. N
  BY <1>1, SMT
<1>3. \A k \in W : k > x /\ k <= n - 1 => nm[k] = prev
  <2>1. \A k \in 1 .. N : k <= n - 1 => ~(n <= k)
    BY <1>2, SMT
  <2> QED BY <1>1, <2>1
<1>4. E[n - 1] = E[x]
  <2> DEFINE y == n - 1
  <2>1. y \in x .. N /\ \A k \in W : k > x /\ k <= y => nm[k] = prev
    BY <1>2, <1>3
  <2> HIDE DEF y
  <2>2. E[y] = E[x]
    BY <2>1, OnlySame
  <2> QED BY <2>2 DEF y
<1>5. ~(E[x] # <<>> /\ Last(E[x]) = nm[n])
  <2>1. CASE x = 0
    BY <2>1 DEF IsList
  <2>2. CASE x # 0
    <3>1. Last(E[x]) = nm[x] /\ prev = nm[x]
      BY <2>2, ListEnds DEF PrevIs
    <3> QED BY <3>1
  <2> QED BY <2>1, <2>2
<1>6. E[n] = IF n \notin W \/ (E[n - 1] # <<>> /\ Last(E[n - 1]) = nm[n])
             THEN E[n - 1] ELSE Append(E[n - 1], nm[n])
  BY <1>2 DEF IsList
<1> QED BY <1>4, <1>5, <1>6

\* The header at its address.
LEMMA HeaderAtIs ==
    ASSUME NEW n \in DOMAIN Headers
    PROVE  HeaderAt(Address[n]) = n
<1> DEFINE L == Len(Headers)
<1>1. L \in Nat /\ DOMAIN Headers = 1 .. L
  BY HeadersAre
<1>2. \A k \in 1 .. L : From(Address[k]) = k .. L
  <2>1. \A k \in 1 .. L : k \in 1 .. L + 1
    BY <1>1, SMT
  <2> QED BY <2>1, FromIs
<1>3. ASSUME NEW k \in 1 .. L, Address[k] = Address[n] PROVE k = n
  <2>1. k .. L = n .. L
    BY <1>1, <1>2, <1>3
  <2> HIDE DEF L
  <2>2. k \in k .. L /\ n \in n .. L
    BY <1>1, SMT
  <2>3. k \in n .. L /\ n \in k .. L
    BY <2>1, <2>2
  <2> QED BY <1>1, <2>3, SMT
<1> QED BY <1>1, <1>3 DEF HeaderAt

\* Where a stream of a directory is: behind header x.
IsAt(s, x) ==
    s.offset = IF x = 0 THEN s.start ELSE IF s.name = Root THEN Address[x + 1] ELSE Address[x]

\* readDir() looks at the headers of its directory that are behind it.
LEMMA AheadIs ==
    ASSUME NEW s, NEW lo, IsStream(s.name, s.start, lo),
           NEW x \in {0} \cup Passed(s.name, s.start), IsAt(s, x)
    PROVE  Ahead(s) = {n \in Passed(s.name, s.start) : n > x}
<1> DEFINE L == Len(Headers)
           dir == s.name
           W == Passed(dir, s.start)
<1>1. L \in Nat /\ DOMAIN Headers = 1 .. L
  BY HeadersAre
<1>2. lo \in 1 .. L /\ W = {n \in lo .. L : dir = Root \/ AllBelow(dir, lo, n)} /\ IsRun(W, lo, L)
  BY PassedIs
<1>3. W \subseteq 1 .. L
  <2> HIDE DEF L
  <2> QED BY <1>1, <1>2, SMT
<1>4. CASE dir = Root
  <2>1. lo = 1 /\ s.start = Address[1]
    BY <1>4, RootIsNoName, AddressIs DEF IsStream
  <2>2. s.offset = Address[x + 1]
    <3>1. 0 + 1 = 1
      BY SMT
    <3> QED BY <1>4, <2>1, <3>1 DEF IsAt
  <2>3. x + 1 \in 1 .. L + 1
    <3>1. x = 0 \/ x \in 1 .. L
      BY <1>3
    <3> HIDE DEF L
    <3> QED BY <1>1, <3>1, SMT
  <2>4. Ahead(s) = x + 1 .. L
    BY <1>4, <2>2, <2>3, FromIs DEF Ahead
  <2>5. W = 1 .. L
    BY <1>2, <1>4, <2>1
  <2>6. x + 1 .. L = {n \in 1 .. L : n > x}
    <3>1. x = 0 \/ x \in 1 .. L
      BY <1>3
    <3> HIDE DEF L
    <3> QED BY <1>1, <3>1, SMT
  <2> QED BY <2>4, <2>5, <2>6
<1>5. CASE dir # Root
  <2>1. PICK m \in DOMAIN Archive : Archive[m].size = 0 /\ dir = Archive[m].name
                                    /\ s.start = Address[m] /\ lo = m + 1
    BY <1>5 DEF IsStream
  <2>2. m \in 1 .. L
    BY <2>1, DirectoryStep
  <2> DEFINE y == IF x = 0 THEN m ELSE x
  <2>3. y \in 1 .. L /\ s.offset = Address[y]
    BY <1>3, <1>5, <2>1, <2>2 DEF IsAt
  <2>4. x = 0 => y + 1 = lo
    BY <2>1
  <2>5. x # 0 => x \in W /\ y = x
    OBVIOUS
  <2> HIDE DEF y
  <2>6. HeaderAt(s.offset) = y
    BY <1>1, <2>3, HeaderAtIs
  <2>7. From(Address[y + 1]) = y + 1 .. L
    <3>1. y + 1 \in 1 .. L + 1
      <4> HIDE DEF L
      <4> QED BY <1>1, <2>3, SMT
    <3> QED BY <3>1, FromIs
  <2>8. Ahead(s) = {n \in y + 1 .. L : \A k \in y + 1 .. L : k <= n => Under(dir, Headers[k].name)}
    BY <1>5, <2>6, <2>7 DEF Ahead
  <2> HIDE DEF L, W
  <2>9. ASSUME NEW n \in y + 1 .. L PROVE n \in lo .. L /\ n > x /\ n \in Nat
    <3>1. x = 0 \/ (x \in lo .. L /\ y = x)
      BY <1>2, <2>5
    <3> QED BY <1>1, <1>2, <2>3, <2>4, <3>1, SMT
  <2>10. ASSUME NEW n \in lo .. L, n > x PROVE n \in y + 1 .. L
    <3>1. x = 0 \/ (x \in lo .. L /\ y = x)
      BY <1>2, <2>5
    <3> QED BY <1>1, <1>2, <2>3, <2>4, <2>10, <3>1, SMT
  <2>11. ASSUME NEW n \in y + 1 .. L
         PROVE  (\A k \in y + 1 .. L : k <= n => Under(dir, Headers[k].name))
                    <=> AllBelow(dir, lo, n)
    <3>1. ASSUME AllBelow(dir, lo, n), NEW k \in y + 1 .. L, k <= n
          PROVE  Under(dir, Headers[k].name)
      <4>1. k \in lo .. L
        BY <2>9
      <4>2. k \in lo .. n
        BY <1>1, <1>2, <2>9, <3>1, <4>1, SMT
      <4> QED BY <3>1, <4>2 DEF AllBelow
    <3>2. ASSUME \A k \in y + 1 .. L : k <= n => Under(dir, Headers[k].name),
                 NEW k \in lo .. n
          PROVE  Under(dir, Headers[k].name)
      <4>1. k \in lo .. L /\ k <= n /\ n \in lo .. L
        BY <1>1, <1>2, <2>9, SMT
      <4>2. CASE k > x
        <5>1. k \in y + 1 .. L
          BY <2>10, <4>1, <4>2
        <5> QED BY <3>2, <4>1, <5>1
      <4>3. CASE ~(k > x)
        <5>1. x \in W /\ k \in lo .. x
          <6>1. x = 0 \/ (x \in W /\ x \in lo .. L)
            BY <1>2, <2>5
          <6> QED BY <1>1, <1>2, <4>1, <4>3, <6>1, SMT
        <5>2. AllBelow(dir, lo, x)
          BY <1>2, <1>5, <5>1
        <5> QED BY <5>1, <5>2 DEF AllBelow
      <4> QED BY <4>2, <4>3
    <3> QED BY <3>1, <3>2 DEF AllBelow
  <2>12. ASSUME NEW n \in Ahead(s) PROVE n \in W /\ n > x
    BY <1>2, <2>8, <2>9, <2>11
  <2>13. ASSUME NEW n \in W, n > x PROVE n \in Ahead(s)
    <3>1. n \in lo .. L /\ AllBelow(dir, lo, n)
      BY <1>2, <1>5
    <3>2. n \in y + 1 .. L
      BY <2>10, <2>13, <3>1
    <3> QED BY <2>8, <2>11, <3>1, <3>2
  <2>14. Ahead(s) = {n \in W : n > x}
    BY <2>12, <2>13
  <2> QED BY <2>14 DEF W
<1> QED BY <1>4, <1>5

-------------------------------------------------------------------------------
\* The list of a directory, header by header.
Lists(E, dir, start) ==
    ListOf(E, dir, start) /\ getDirEntries(dir, start) = E[Len(Headers)]

\* A stream and the names it returned: it is behind a header x of its directory, has
\* returned the list up to there, and the last of it is the name it has kept.
StandsAt(s, names, lo, E, x) ==
    /\ IsStream(s.name, s.start, lo) /\ Lists(E, s.name, s.start)
    /\ x \in {0} \cup Passed(s.name, s.start)
    /\ names = E[x] /\ IsAt(s, x) /\ PrevIs(s.d_prev_dir, NamesBelow(s.name), x)

Stands(s, names) ==
    s.name # Nameless /\ s.d_dirp # NoDir => \E lo, E, x : StandsAt(s, names, lo, E, x)

ListingInv ==
    /\ listed = [p \in Place |-> listed[p]]
    /\ \A p \in Place : Stands(slot[p], listed[p])

\* What a list is built from.
LEMMA StreamIs ==
    ASSUME NEW dir, NEW start, NEW lo, IsStream(dir, start, lo),
           NEW E, ListOf(E, dir, start)
    PROVE  /\ IsList(E, Len(Headers), Seq(STRING), NamesBelow(dir), Passed(dir, start))
           /\ lo \in Nat \ {0} /\ IsRun(Passed(dir, start), lo, Len(Headers))
           /\ lo \in Passed(dir, start) => NamesBelow(dir)[lo] # Nameless
           /\ InGroups(Passed(dir, start), NamesBelow(dir))
           /\ Passed(dir, start) \in SUBSET (1 .. Len(Headers)) /\ Len(Headers) \in Nat
           /\ DOMAIN Headers = 1 .. Len(Headers)
<1>1. IsList(E, Len(Headers), Seq(STRING), NamesBelow(dir), Passed(dir, start))
  BY DEF ListOf
<1>2. lo \in 1 .. Len(Headers) /\ IsRun(Passed(dir, start), lo, Len(Headers))
  BY PassedIs
<1>3. lo \in Nat \ {0}
  BY <1>2, SMT
<1> QED BY <1>1, <1>2, <1>3, FirstNameIs, NamesInGroups, HeadersAre DEF IsList

\* What readDir() returns is the first header ahead with another name.
LEMMA NextEntriesAre ==
    ASSUME NEW s, NEW names, NEW lo, NEW E, NEW x, StandsAt(s, names, lo, E, x), s.name # Nameless
    PROVE  NextEntries(s) = {n \in Passed(s.name, s.start) :
                                n > x /\ NamesBelow(s.name)[n] # s.d_prev_dir}
           /\ \A n \in Passed(s.name, s.start) : Entry(s, n) = NamesBelow(s.name)[n]
<1> DEFINE W == Passed(s.name, s.start)
<1>1. Ahead(s) = {n \in W : n > x}
  BY AheadIs DEF StandsAt
<1>2. ASSUME NEW n \in W PROVE Entry(s, n) = NamesBelow(s.name)[n]
  <2>1. n \in DOMAIN Headers
    BY StreamIs DEF StandsAt, Lists
  <2> QED BY <2>1 DEF Entry, NamesBelow
<1> HIDE DEF W
<1> QED BY <1>1, <1>2 DEF NextEntries, W

\* What it moves on to.
Moved(s, t) ==
    LET n == FirstOf(NextEntries(s)) IN
    /\ t.name = s.name /\ t.start = s.start
    /\ t.d_prev_dir = Entry(s, n)
    /\ t.offset = IF s.name = Root THEN Address[n + 1] ELSE Address[n]

\* A call of readdir() goes on in the list.
LEMMA MovesOn ==
    ASSUME NEW s, NEW names, NEW lo, NEW E, NEW x, StandsAt(s, names, lo, E, x), s.name # Nameless,
           NextEntries(s) # {}, NEW t, Moved(s, t)
    PROVE  StandsAt(t, Append(names, Entry(s, FirstOf(NextEntries(s)))), lo, E,
                    FirstOf(NextEntries(s)))
<1> DEFINE W == Passed(s.name, s.start)
           nm == NamesBelow(s.name)
           N == Len(Headers)
           n == FirstOf(NextEntries(s))
<1>1. /\ NextEntries(s) = {k \in W : k > x /\ nm[k] # s.d_prev_dir}
      /\ \A k \in W : Entry(s, k) = nm[k]
  BY NextEntriesAre
<1>2. /\ IsList(E, N, Seq(STRING), nm, W) /\ lo \in Nat \ {0} /\ IsRun(W, lo, N)
      /\ lo \in W => nm[lo] # Nameless
      /\ W \in SUBSET (1 .. N) /\ N \in Nat
  BY StreamIs DEF StandsAt, Lists
<1>3. NextEntries(s) \in SUBSET Nat
  BY <1>1, <1>2
<1>4. n \in NextEntries(s) /\ \A k \in NextEntries(s) : n <= k
  BY <1>3, FirstIs
<1>5. /\ n \in W /\ n > x /\ nm[n] # s.d_prev_dir
      /\ \A k \in W : k > x /\ nm[k] # s.d_prev_dir => n <= k
  BY <1>1, <1>4
<1>6. x \in {0} \cup W /\ PrevIs(s.d_prev_dir, nm, x) /\ names = E[x]
  BY DEF StandsAt
<1>7. Entry(s, n) = nm[n]
  BY <1>1, <1>5
<1>8. n # 0
  BY <1>2, <1>5, SMT
<1>9. /\ t.name = s.name /\ t.start = s.start /\ t.d_prev_dir = nm[n]
      /\ t.offset = IF s.name = Root THEN Address[n + 1] ELSE Address[n]
  BY <1>7 DEF Moved
<1> HIDE DEF n
<1>10. E[n] = Append(E[x], nm[n])
  <2> DEFINE prev == s.d_prev_dir
  <2> HIDE DEF W, nm, N
  <2>1. PrevIs(prev, nm, x) /\ nm[n] # prev /\ \A k \in W : k > x /\ nm[k] # prev => n <= k
    BY <1>5, <1>6
  <2> HIDE DEF prev
  <2>2. /\ IsList(E, N, Seq(STRING), nm, W) /\ lo \in Nat \ {0} /\ IsRun(W, lo, N)
        /\ lo \in W => nm[lo] # Nameless
        /\ x \in {0} \cup W /\ PrevIs(prev, nm, x)
        /\ n \in W /\ n > x /\ nm[n] # prev
        /\ \A k \in W : k > x /\ nm[k] # prev => n <= k
    BY <1>2, <1>5, <1>6, <2>1
  <2> QED BY <2>2, NextName
<1>11. StandsAt(t, Append(names, nm[n]), lo, E, n)
  BY <1>5, <1>6, <1>8, <1>9, <1>10 DEF StandsAt, IsAt, PrevIs
<1> QED BY <1>7, <1>11 DEF n

\* What a stream has returned, as the property asks for it.
IsExact(s, names) ==
    LET entries == getDirEntries(s.name, s.start)
    IN  /\ IsInjective(names)
        /\ IsPrefix(names, entries)
        /\ ToSet(names) \subseteq Children(s.name) \cup {Nameless}
        /\ NextEntries(s) = {} => names = entries /\ Children(s.name) \subseteq ToSet(names)

\* The list up to a header is exact.
LEMMA StandsExactly ==
    ASSUME NEW s, NEW names, NEW lo, NEW E, NEW x, StandsAt(s, names, lo, E, x), s.name # Nameless
    PROVE  IsExact(s, names)
<1> DEFINE W == Passed(s.name, s.start)
           nm == NamesBelow(s.name)
           N == Len(Headers)
           entries == getDirEntries(s.name, s.start)
<1>1. /\ IsList(E, N, Seq(STRING), nm, W) /\ lo \in Nat \ {0} /\ IsRun(W, lo, N)
      /\ lo \in W => nm[lo] # Nameless
      /\ InGroups(W, nm) /\ W \in SUBSET (1 .. N) /\ N \in Nat
  BY StreamIs DEF StandsAt, Lists
<1>2. x \in {0} \cup W /\ PrevIs(s.d_prev_dir, nm, x) /\ names = E[x] /\ entries = E[N]
  BY DEF StandsAt, Lists
<1>3. /\ \A n \in W : nm[n] \in Children(s.name) \cup {Nameless}
      /\ \A child \in Children(s.name) : \E n \in W : nm[n] = child
  BY ChildrenArePassed DEF StandsAt
<1>4. NextEntries(s) = {n \in W : n > x /\ nm[n] # s.d_prev_dir}
  BY NextEntriesAre
<1> HIDE DEF W, nm, N, entries
<1>5. x \in 0 .. N /\ N \in x .. N /\ N \in 0 .. N
  <2>1. W \in SUBSET (1 .. N) /\ N \in Nat /\ x \in {0} \cup W
    BY <1>1, <1>2
  <2> QED BY <2>1, SMT
<1>6. names \in Seq(Seq(STRING)) /\ entries \in Seq(Seq(STRING))
  BY <1>1, <1>2, <1>5 DEF IsList
<1>7. /\ Len(names) \in Nat /\ DOMAIN names = 1 .. Len(names)
      /\ Len(entries) \in Nat /\ DOMAIN entries = 1 .. Len(entries)
  BY <1>6, LenProperties
<1>8. IsInjective(names)
  <2>1. Once(names)
    BY <1>1, <1>2, <1>5, ListOnce
  <2> QED BY <1>7, <2>1 DEF Once, IsInjective
<1>9. IsPrefix(names, entries)
  <2>1. Starts(names, entries)
    BY <1>1, <1>2, <1>5, ListGrows
  <2>2. names = entries \/ Under(names, entries)
    BY <1>6, <2>1, UnderIs
  <2>3. names = entries => IsPrefix(names, entries)
    BY <1>7, SMT DEF IsPrefix
  <2> QED BY <2>2, <2>3 DEF Under, IsStrictPrefix
<1>10. NamesUpTo(names, nm, W, x)
  BY <1>1, <1>2, <1>5, ListHolds
<1>11. ToSet(names) \subseteq Children(s.name) \cup {Nameless}
  <2>1. ASSUME NEW i \in 1 .. Len(names) PROVE names[i] \in Children(s.name) \cup {Nameless}
    <3>1. PICK k \in W : nm[k] = names[i]
      BY <1>10 DEF NamesUpTo
    <3> QED BY <1>3, <3>1
  <2> QED BY <1>7, <2>1 DEF ToSet
<1>12. ASSUME NextEntries(s) = {}
       PROVE  names = entries /\ Children(s.name) \subseteq ToSet(names)
  <2> DEFINE prev == s.d_prev_dir
  <2>1. \A k \in W : k > x /\ k <= N => nm[k] = prev
    BY <1>4, <1>12
  <2>2. PrevIs(prev, nm, x)
    BY <1>2
  <2> HIDE DEF prev
  <2>3. E[N] = E[x]
    <3>1. /\ IsList(E, N, Seq(STRING), nm, W) /\ lo \in Nat \ {0} /\ IsRun(W, lo, N)
          /\ lo \in W => nm[lo] # Nameless
          /\ x \in {0} \cup W /\ PrevIs(prev, nm, x) /\ N \in x .. N
          /\ \A k \in W : k > x /\ k <= N => nm[k] = prev
      BY <1>1, <1>2, <1>5, <2>1, <2>2
    <3> QED BY <3>1, OnlySame
  <2>4. NamesUpTo(entries, nm, W, N)
    BY <1>1, <1>2, <1>5, ListHolds
  <2>5. ASSUME NEW child \in Children(s.name) PROVE child \in ToSet(entries)
    <3>1. PICK n \in W : nm[n] = child
      BY <1>3
    <3>2. n <= N
      BY <1>1, SMT
    <3>3. PICK i \in 1 .. Len(entries) : entries[i] = nm[n]
      BY <2>4, <3>2 DEF NamesUpTo
    <3> QED BY <1>7, <3>1, <3>3 DEF ToSet
  <2> QED BY <1>2, <2>3, <2>5
<1> QED BY <1>8, <1>9, <1>11, <1>12 DEF IsExact, entries

\* A stream that is just opened stands in front of its directory.
LEMMA StandsAtStart ==
    ASSUME NEW s, NEW lo, IsStream(s.name, s.start, lo), s.offset = s.start,
           s.d_prev_dir = Nameless
    PROVE  Stands(s, <<>>)
<1>1. PICK E : Lists(E, s.name, s.start)
  BY EntriesAre DEF Lists
<1>2. E[0] = <<>>
  BY <1>1 DEF Lists, ListOf, IsList
<1>3. StandsAt(s, <<>>, lo, E, 0)
  BY <1>1, <1>2 DEF StandsAt, IsAt, PrevIs
<1> QED BY <1>3 DEF Stands

\* What opendir() finds.
LEMMA DirectoryIsStream ==
    ASSUME NEW d \in Directory, NEW path \in DirPaths,
           DirectoryFound[d][path][1] # Nameless, DirectoryFound[d][path][2] # NotFound
    PROVE  \E lo : IsStream(DirectoryFound[d][path][1], DirectoryFound[d][path][2], lo)
<1> DEFINE found == DirectoryFound[d][path]
           name == Resolved[d][path][1]
<1>1. found = IF path = Root THEN <<Root, BINARY_TARFS_START>>
              ELSE <<name, get_dir_address(name)>>
  BY DEF DirectoryFound
<1> HIDE DEF name
<1>2. CASE found = <<Root, BINARY_TARFS_START>>
  <2>1. IsStream(found[1], found[2], 1)
    BY <1>2 DEF IsStream, BINARY_TARFS_START
  <2> QED BY <2>1
<1>3. CASE found = <<name, get_dir_address(name)>>
  <2>1. name # Nameless /\ get_dir_address(name) # NotFound
    BY <1>3
  <2> DEFINE S == Named(name)
             m == FirstOf(S)
  <2>2. S # {} /\ ~(Headers[m].size > 0) /\ get_dir_address(name) = Address[m]
    BY <2>1 DEF get_dir_address
  <2>3. S \in SUBSET Nat
    BY HeadersAre DEF Named
  <2>4. m \in S
    BY <2>2, <2>3, FirstIs
  <2> HIDE DEF m
  <2>5. m \in DOMAIN Headers /\ Headers[m].name = name
    BY <2>4 DEF Named
  <2>6. m \in DOMAIN Archive /\ Headers[m] = Archive[m]
    BY <2>1, <2>5, HeaderNames DEF Nameless
  <2>7. Archive[m].size = 0
    <3>1. Archive[m].size \in Nat
      BY <2>6, EntryEnds
    <3> QED BY <2>2, <2>6, <3>1, SMT
  <2>8. IsStream(found[1], found[2], m + 1)
    BY <1>3, <2>2, <2>5, <2>6, <2>7 DEF IsStream
  <2> QED BY <2>8
<1> QED BY <1>1, <1>2, <1>3

-------------------------------------------------------------------------------
\* A call that changes one descriptor, and what is listed of it, leaves the others.
LEMMA OthersStand ==
    ASSUME ShapesInv, ListingInv, NEW place \in Place, NEW s, NEW names, Stands(s, names),
           slot' = [slot EXCEPT ![place] = s],
           listed' = [listed EXCEPT ![place] = names]
    PROVE  ListingInv'
<1>1. ASSUME NEW p \in Place
      PROVE  \/ slot'[p] = s /\ listed'[p] = names
             \/ slot'[p] = slot[p] /\ listed'[p] = listed[p]
  <2>1. slot = [q \in Place |-> slot[q]] /\ listed = [q \in Place |-> listed[q]]
    BY DEF ShapesInv, ListingInv
  <2>2. p = place => slot'[p] = s
    BY <2>1
  <2>3. p = place => listed'[p] = names
    BY <2>1
  <2>4. p # place => slot'[p] = slot[p]
    BY <2>1
  <2>5. p # place => listed'[p] = listed[p]
    BY <2>1
  <2> QED BY <2>2, <2>3, <2>4, <2>5
<1>2. ASSUME NEW p \in Place PROVE Stands(slot'[p], listed'[p])
  BY <1>1 DEF ListingInv
<1>3. listed' = [p \in Place |-> listed'[p]]
  BY DEF ListingInv
<1> QED BY <1>2, <1>3 DEF ListingInv

\* A call that does not list.
LEMMA SameListing ==
    ASSUME ListingInv, NEW place \in Place, listed' = listed
    PROVE  listed' = [listed EXCEPT ![place] = listed[place]]
  BY DEF ListingInv

\* A descriptor that is no stream, or has no name, stands nowhere.
LEMMA StandsNowhere ==
    ASSUME NEW s, NEW names, s.name = Nameless \/ s.d_dirp = NoDir
    PROVE  Stands(s, names)
  BY DEF Stands

\* open() fills a descriptor that is no stream, opendir() one at the start.
LEMMA FillStands ==
    ASSUME FilesInv, ListingInv, NEW t \in Task, NEW name, NEW start, NEW stream \in BOOLEAN,
           Fill(t, name, start, stream),
           stream = TRUE /\ name # Nameless => \E lo : IsStream(name, start, lo)
    PROVE  ListingInv'
<1>1. PICK place, s :
        /\ place \in Place
        /\ slot' = [slot EXCEPT ![place] = s]
        /\ listed' = [listed EXCEPT ![place] = <<>>]
        /\ s = [name |-> name, start |-> start, offset |-> start, d_prev_dir |-> Nameless,
                d_dirp |-> IF stream THEN place ELSE NoDir]
  <2> DEFINE fd == FirstFree(t)
             page == PageOf(fd)
             new == fd_pointers[t][page] = NoPage
             table == IF new THEN kmalloc(used) ELSE fd_pointers[t][page]
             p == <<table, fd % PerPage>>
  <2>1. /\ slot' = [slot EXCEPT ![p] =
            [name |-> name, start |-> start, offset |-> start, d_prev_dir |-> Nameless,
             d_dirp |-> IF stream THEN p ELSE NoDir]]
        /\ listed' = [listed EXCEPT ![p] = <<>>]
        /\ FreeFds(t) # {} /\ (new => Table \ used # {})
    BY DEF Fill, FirstFree, PageOf
  <2>2. fd \in Usable /\ fd \in Fd
    BY <2>1, FirstFreeFd DEF FreeFds, Usable
  <2>3. page \in 0 .. Pages - 1 /\ fd % PerPage \in 0 .. PerPage - 1
    BY <2>2, PageAndPlace
  <2>4. table \in Table
    <3>1. CASE new
      BY <2>1, <3>1, PageIsNew
    <3>2. CASE ~new
      <4>1. fd_pointers[t][page] \in Table \cup {NoPage}
        BY <2>3 DEF FilesInv, ShapesInv
      <4> QED BY <3>2, <4>1
    <3> QED BY <3>1, <3>2
  <2>5. p \in Place
    BY <2>3, <2>4 DEF Place
  <2> HIDE DEF p
  <2> QED BY <2>1, <2>5
<1>2. s.name = name /\ s.start = start /\ s.offset = start /\ s.d_prev_dir = Nameless
      /\ s.d_dirp = IF stream THEN place ELSE NoDir
  BY <1>1
<1>3. Stands(s, <<>>)
  <2>1. CASE stream = TRUE /\ name # Nameless
    <3>1. PICK lo : IsStream(name, start, lo)
      BY <2>1
    <3> QED BY <1>2, <3>1, StandsAtStart
  <2>2. CASE ~(stream = TRUE /\ name # Nameless)
    BY <1>2, <2>2, StandsNowhere
  <2> QED BY <2>1, <2>2
<1> QED BY <1>1, <1>3, OthersStand DEF FilesInv

\* open() and opendir().
LEMMA OpenStands ==
    ASSUME FilesInv, CwdInv, ListingInv, NEW t \in Task,
           \/ \E path \in OpenPaths : openFile(t, path)
           \/ \E path \in DirPaths : openDirectory(t, path)
    PROVE  ListingInv'
<1>1. cwd[t] \in Directory
  BY DEF CwdInv
<1>2. ASSUME NEW path \in OpenPaths, openFile(t, path) PROVE ListingInv'
  <2> DEFINE found == FileFound[cwd[t]][path]
  <2>1. Fill(t, found[1], found[2], FALSE)
    BY <1>2 DEF openFile
  <2> HIDE DEF found
  <2> QED BY <2>1, FillStands
<1>3. ASSUME NEW path \in DirPaths, openDirectory(t, path) PROVE ListingInv'
  <2> DEFINE found == DirectoryFound[cwd[t]][path]
  <2>1. Fill(t, found[1], found[2], TRUE) /\ found[2] # NotFound
    BY <1>3 DEF openDirectory
  <2>2. found[1] # Nameless => \E lo : IsStream(found[1], found[2], lo)
    BY <1>1, <2>1, DirectoryIsStream
  <2> HIDE DEF found
  <2> QED BY <2>1, <2>2, FillStands
<1> QED BY <1>2, <1>3

\* A read is of no stream.
LEMMA ReadStands ==
    ASSUME FilesInv, ListingInv, NEW t \in Task, NEW fd \in Usable, NEW count,
           readFile(t, fd, count)
    PROVE  ListingInv'
<1> DEFINE place == get_fd_address(t, fd)
           old == slot[place]
           x == old.offset + memread(old.offset, count)
           s == [old EXCEPT !.offset = x]
<1>1. Runs(t) /\ Filled(t, fd) /\ ~opened[t][fd].stream
  BY DEF readFile, Holds, FilesInv, HeldInv
<1>2. place \in Place /\ ShapesInv
  BY <1>1, PlaceOfFd DEF FilesInv, Filled
<1>3. IsSlot(old) /\ old.d_dirp = NoDir
  BY <1>1, <1>2 DEF ShapesInv, Filled
<1>4. slot' = [slot EXCEPT ![place] = s] /\ listed' = listed
  BY DEF readFile
<1> HIDE DEF place, old, x
<1>5. s.d_dirp = NoDir
  BY <1>3 DEF IsSlot
<1> HIDE DEF s
<1>6. listed' = [listed EXCEPT ![place] = listed[place]]
  BY <1>2, <1>4, SameListing
<1> QED BY <1>2, <1>4, <1>5, <1>6, StandsNowhere, OthersStand

\* closedir() and close() leave no stream.
LEMMA ReleaseStands ==
    ASSUME FilesInv, ListingInv, NEW t \in Task, NEW fd \in Usable, NEW place \in Place,
           Release(t, fd, place)
    PROVE  ListingInv'
<1> DEFINE s == [slot[place] EXCEPT !.name = Nameless]
<1>1. slot' = [slot EXCEPT ![place] = s] /\ ShapesInv /\ listed' = listed
  BY DEF Release, FilesInv
<1>2. s.name = Nameless
  <2>1. IsSlot(slot[place])
    BY <1>1 DEF ShapesInv
  <2> QED BY <2>1 DEF IsSlot
<1> HIDE DEF s
<1>3. listed' = [listed EXCEPT ![place] = listed[place]]
  BY <1>1, SameListing
<1> QED BY <1>1, <1>2, <1>3, StandsNowhere, OthersStand

\* Both close the descriptor that they are given.
LEMMA CloseStands ==
    ASSUME FilesInv, ListingInv, NEW t \in Task, NEW fd \in Usable,
           closeFile(t, fd) \/ closeDir(t, fd)
    PROVE  ListingInv'
<1>1. CASE closeFile(t, fd)
  <2>1. Runs(t) /\ PageOf(fd) < PagesOf(t)
    BY <1>1 DEF closeFile, Holds, FilesInv, HeldInv, Filled
  <2>2. get_fd_address(t, fd) \in Place
    BY <2>1, PlaceOfFd DEF FilesInv
  <2> QED BY <1>1, <2>2, ReleaseStands DEF closeFile
<1>2. CASE closeDir(t, fd)
  <2>1. get_fd_address(t, fd) \in Place /\ get_fd(t, get_fd_address(t, fd)) = fd
    BY <1>2, FoundAgain DEF closeDir
  <2> QED BY <1>2, <2>1, ReleaseStands DEF closeDir
<1> QED BY <1>1, <1>2

\* readdir() goes on in the list of its directory.
LEMMA ReadDirStands ==
    ASSUME FilesInv, ListingInv, NEW t \in Task, NEW fd \in Usable, readDir(t, fd)
    PROVE  ListingInv'
<1> DEFINE place == get_fd_address(t, fd)
           n == FirstOf(NextEntries(slot[place]))
           x == Entry(slot[place], n)
           y == IF slot[place].name = Root THEN Address[n + 1] ELSE Address[n]
           old == slot[place]
           s == [old EXCEPT !.d_prev_dir = x, !.offset = y]
           names == Append(listed[place], x)
<1>1. place \in Place /\ ShapesInv /\ get_fd(t, place) = fd
  BY FoundAgain DEF readDir, FilesInv
<1>2. IsSlot(old) /\ Stands(old, listed[place])
  BY <1>1 DEF ShapesInv, ListingInv
<1>3. /\ slot' = [slot EXCEPT ![place].d_prev_dir = x, ![place].offset = y]
      /\ listed' = [listed EXCEPT ![place] = names]
      /\ NextEntries(old) # {}
  BY <1>1 DEF readDir, ListingInv
<1>4. old.d_dirp # NoDir
  <2>1. old.d_dirp = place
    BY DEF readDir, Holds, FilesInv, HeldInv, Filled
  <2> QED BY <1>1, <2>1, FileAssumption DEF Place, NoDir, NoPage
<1>5. old.name # Nameless
  BY <1>3 DEF NextEntries
<1>6. x = Entry(old, FirstOf(NextEntries(old)))
      /\ y = LET k == FirstOf(NextEntries(old)) IN IF old.name = Root THEN Address[k + 1] ELSE Address[k]
  OBVIOUS
<1> HIDE DEF x, y, n
<1>7. slot' = [slot EXCEPT ![place] = s]
  BY <1>1, <1>2, <1>3 DEF IsSlot, ShapesInv
<1> HIDE DEF old, place
<1>8. s.name = old.name /\ s.start = old.start /\ s.d_prev_dir = x /\ s.offset = y
  BY <1>2 DEF IsSlot
<1> HIDE DEF s
<1>9. Moved(old, s)
  BY <1>6, <1>8 DEF Moved
<1>10. PICK lo, E, h : StandsAt(old, listed[place], lo, E, h)
  BY <1>2, <1>4, <1>5 DEF Stands
<1>11. StandsAt(s, Append(listed[place], x), lo, E, FirstOf(NextEntries(old)))
  BY <1>3, <1>5, <1>6, <1>9, <1>10, MovesOn
<1>12. Stands(s, names)
  BY <1>11 DEF Stands
<1> QED BY <1>1, <1>3, <1>7, <1>12, OthersStand

\* At the start nothing is open.
LEMMA ListingInit == Init => ListingInv
<1> SUFFICES ASSUME Init PROVE ListingInv
  OBVIOUS
<1>1. listed = [p \in Place |-> <<>>]
  BY DEF Init
<1>2. \A p \in Place : slot[p].name = Nameless
  BY DEF Init, Free
<1> QED BY <1>1, <1>2 DEF ListingInv, Stands

\* Every call keeps the streams where they stand, or moves one of them on.
LEMMA ListingStep == FilesInv /\ CwdInv /\ ListingInv /\ [Next]_vars => ListingInv'
<1> SUFFICES ASSUME FilesInv, CwdInv, ListingInv, [Next]_vars PROVE ListingInv'
  OBVIOUS
<1>1. CASE slot' = slot /\ listed' = listed
  BY <1>1 DEF ListingInv
<1>2. ASSUME Next PROVE ListingInv'
  <2>1. PICK t \in Task :
          \/ \E path \in OpenPaths : openFile(t, path)
          \/ \E path \in DirPaths : openDirectory(t, path)
          \/ \E path \in ChdirPaths : changeDirectory(t, path)
          \/ \E fd \in Usable :
              \/ \E count \in Counts : readFile(t, fd, count)
              \/ closeFile(t, fd)
              \/ readDir(t, fd)
              \/ closeDir(t, fd)
          \/ fork(t)
          \/ exec(t)
          \/ Terminate(t)
    BY <1>2, Zenon DEF Next
  <2>2. CASE \/ \E path \in OpenPaths : openFile(t, path)
             \/ \E path \in DirPaths : openDirectory(t, path)
    BY <2>2, OpenStands
  <2>3. CASE \E fd \in Usable : \E count \in Counts : readFile(t, fd, count)
    BY <2>3, ReadStands
  <2>4. CASE \E fd \in Usable : readDir(t, fd)
    BY <2>4, ReadDirStands
  <2>5. CASE \E fd \in Usable : closeFile(t, fd) \/ closeDir(t, fd)
    BY <2>5, CloseStands
  <2>6. CASE \/ \E path \in ChdirPaths : changeDirectory(t, path)
             \/ fork(t) \/ exec(t) \/ Terminate(t)
    <3>1. slot' = slot /\ listed' = listed
      BY <2>6 DEF changeDirectory, fork, exec, Terminate
    <3> QED BY <1>1, <3>1
  <2> QED BY <2>1, <2>2, <2>3, <2>4, <2>5, <2>6, Zenon
<1> QED BY <1>1, <1>2 DEF vars

\* For any archive, any paths and any number of programs: a stream has returned the
\* list of getdents() up to where it stands, every name in it is of the directory and
\* there once, and at the end nothing of the directory is left out.
THEOREM ListingsAreExact == Spec => []ListingIsExact
<1>1. FilesInv /\ ListingInv => ListingIsExact
  <2> SUFFICES ASSUME FilesInv, ListingInv, NEW t \in live, NEW fd \in Usable,
                      HoldsNamed(t, fd, TRUE)
               PROVE  IsExact(slot[get_fd_address(t, fd)], listed[get_fd_address(t, fd)])
    BY DEF ListingIsExact, IsExact
  <2> DEFINE place == get_fd_address(t, fd)
             s == slot[place]
  <2>1. t \in Task /\ Runs(t) /\ Filled(t, fd) /\ opened[t][fd].stream /\ opened[t][fd].name # Nameless
    BY DEF HoldsNamed, Holds, FilesInv, ShapesInv, HeldInv
  <2>2. place \in Place
    BY <2>1, PlaceOfFd DEF FilesInv, Filled
  <2>3. s.name # Nameless /\ s.d_dirp = place
    BY <2>1 DEF Filled
  <2>4. place # NoDir
    BY <2>2, FileAssumption DEF Place, NoDir, NoPage
  <2>5. Stands(s, listed[place])
    BY <2>2 DEF ListingInv
  <2> HIDE DEF s
  <2>6. PICK lo, E, x : StandsAt(s, listed[place], lo, E, x)
    BY <2>3, <2>4, <2>5 DEF Stands
  <2>7. IsExact(s, listed[place])
    BY <2>3, <2>6, StandsExactly
  <2> QED BY <2>7 DEF s
<1> QED BY FilesInit, FilesStep, InsideInit, CwdStep, ListingInit, ListingStep, <1>1, PTL DEF Spec
===============================================================================
