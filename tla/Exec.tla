---------------------------------- MODULE Exec ----------------------------------
(***************************************************************************)
(* What a program finds when it starts: the image that loadFile() has      *)
(* mapped (src/sys/tarfs.c), the arguments and the environment that exec() *)
(* has copied (src/sys/task.c), and the variables it sets with setenv().   *)
(* The shell makes the arguments of a line, with parse_command().          *)
(*                                                                         *)
(* A file is its segments, with cells named by their distance from its     *)
(* beginning, behind its end too: the archive and the kernel's memory go on*)
(* there.  The pages of the environment hold one entry each, from 0x302000 *)
(* on, and are counted from there.  Tables and the other pages of a process are in *)
(* AddressSpace and PageTables.                                            *)
(***************************************************************************)
EXTENDS Integers, SequencesExt, FiniteSetsExt

CONSTANTS
    Proc, Shell,    \* processes; the shell is not started by exec()
    Frame,          \* numbers of physical pages
    PageSize,       \* 4096 in the code
    HeaderSize,     \* the bytes of an Elf64_Ehdr, 64
    File,           \* by name: the segments, with page, offset, filesz and memsz
    Name,           \* of variables
    Value,          \* that programs set, sequences of characters
    Initial,        \* the variables of the shell, in their order
    None,
    ValueLimit,     \* the characters exec() copies of an entry, 512, less its name and '='
    ArgLimit,       \* the characters of the page of arguments, 511 in the code
    ArgumentBuffer, \* the words that parse_command() has room for, 32 in the code
    LineBuffer,     \* characters of a line: 2000 of a typed one, 64 in a script
    Slots,          \* places for pointers to entries, 33 in the code
    Covered,        \* the pages of entries in the area that exec() makes, 31
    ShellCovered,   \* those in the area of the first shell, 32
    MaxEntries,     \* bound: the entries of all programs when a new one is set
    Lines           \* bound: the commands that are typed, sequences of characters

Blank == " "
Background == <<"&">>
Pipe == <<"|">>
Nul == "nul"

PagesOf(s) == Max({1, (s.filesz + PageSize - 1) \div PageSize})

\* A line whose first word has one letter has another word behind it, as
\* parse_command() would find no word at all.  A line that does not fit into its
\* buffer runs into what is allocated behind it.
IsCommand(line) ==
    /\ line \in Seq(STRING) /\ line # <<>> /\ line[1] # Blank
    /\ Len(line) < LineBuffer
    /\ \A k \in DOMAIN line : line[k] # Nul
    /\ \/ Len(line) = 1 /\ line # Background
       \/ \E k \in 2 .. Len(line) : line[k] # Blank

\* The linker starts a segment at a page of its own, and one with variables that
\* the file has no values for is small: map_elf_file() maps pages for the file's
\* part only, and clears from p_filesz bytes behind that part on.
ASSUME ExecAssumption ==
    /\ Shell \in Proc
    /\ Frame \subseteq Nat /\ IsFiniteSet(Frame)
    /\ PageSize \in Nat \ {0}
    /\ HeaderSize \in Nat
    /\ \A f \in DOMAIN File :
        File[f] \in Seq([page : Nat, offset : Nat, filesz : Nat, memsz : Nat])
    /\ \A f \in DOMAIN File : \A k \in DOMAIN File[f] :
        LET s == File[f][k] IN
            /\ s.filesz <= s.memsz
            /\ s.filesz < s.memsz => s.filesz + s.memsz <= PageSize
            /\ \A l \in k + 1 .. Len(File[f]) : s.page + PagesOf(s) <= File[f][l].page
    /\ \A f \in DOMAIN File : \A k \in DOMAIN f : f[k] # Blank
    /\ None \notin Name \cup Seq(STRING) \cup DOMAIN File \cup Proc
    /\ Value \subseteq Seq(STRING)
    /\ Initial \in Seq([name : Name, value : Seq(STRING)])
    /\ \A k, l \in DOMAIN Initial : Initial[k].name = Initial[l].name => k = l
    /\ \A line \in Lines : IsCommand(line)
    /\ {ValueLimit, ArgLimit, LineBuffer, MaxEntries} \subseteq Nat
    /\ ArgumentBuffer \in Nat \ {0}
    /\ {Slots, Covered, ShellCovered} \subseteq Nat
    /\ Len(Initial) < Slots
    /\ Covered < Slots /\ ShellCovered < Slots

VARIABLES
    live,
    parent,     \* by those that have not called exec() yet, None of the others
    running,    \* the file a process runs, None of the shell
    table,      \* its pages: records of page and frame
    content,    \* the cells of each frame
    entry,      \* the environment: what is on its pages, in their order
    pointers,   \* the number of pointers to them that the program was given
    shared,     \* how many of a child's pages are those that its parent writes to
    given,      \* history: the words of the command that started it
    argv        \* the arguments it finds

image == <<running, table, content>>
arguments == <<given, argv>>
environment == <<entry, pointers, shared>>
execVars == <<live, parent, image, environment, arguments>>

Cell == 0 .. (PageSize - 1)
Zero == <<None, 0>>     \* a byte of a file is <<file, distance from its beginning>>
Dirty == <<None, 1>>    \* what is in a page before the kernel clears it
Entry(n, v) == [name |-> n, value |-> v]
Ended == Entry(None, <<>>)  \* the page behind the last entry, an empty string

-------------------------------------------------------------------------------
(* loadFile(), on a record m of tables, contents and the last page allocated. *)

FreeFrames(m) == {f \in Frame : \A p \in Proc : \A e \in m.table[p] : e.frame # f}

\* Cells by their address in the kernel's window, where frames follow each other.
memset_file(cells, from, n) ==
    [f \in Frame |-> [c \in Cell |->
        IF f * PageSize + c \in from .. (from + n - 1) THEN Zero ELSE cells[f][c]]]

\* Page n of a segment: allocated, cleared, mapped and filled.  What is added to
\* elf_file counts headers, as it points to one, and not bytes.
CopyPage(m, q, file, k, n) ==
    LET s == File[file][k]
        from == HeaderSize * (s.offset + n * PageSize)
        f == Min(FreeFrames(m))
        cleared == memset_file(m.content, f * PageSize, PageSize)
    IN [last |-> f,
        table |-> [m.table EXCEPT ![q] = @ \cup {[page |-> s.page + n, frame |-> f]}],
        content |-> [cleared EXCEPT ![f] = [c \in Cell |->
            IF n * PageSize + c < s.filesz THEN <<file, from + c>> ELSE @[c]]]]

CopySegment(m, q, file, k) ==
    LET pages == PagesOf(File[file][k])
        copied[n \in 0 .. pages] ==
            IF n = 0 THEN m ELSE CopyPage(copied[n - 1], q, file, k, n - 1)
    IN copied[pages]

\* vir_ker_temp2 after the loop: the byte behind the file's part.
EndOfCopy(m, s) == m.last * PageSize + s.filesz - (PagesOf(s) - 1) * PageSize

\* Mutant: as many bytes are cleared as the segment has in memory.
map_elf_fileWholeLength(m, q, file, k) ==
    LET s == File[file][k]
        copied == CopySegment(m, q, file, k)
    IN [copied EXCEPT !.content =
            memset_file(@, EndOfCopy(copied, s) + s.filesz, s.memsz)]

map_elf_file(m, q, file, k) ==
    LET s == File[file][k]
        copied == CopySegment(m, q, file, k)
    IN [copied EXCEPT !.content =
            memset_file(@, EndOfCopy(copied, s) + s.filesz, s.memsz - s.filesz)]

loadFile(m, q, file) ==
    LET loaded[k \in 0 .. Len(File[file])] ==
            IF k = 0 THEN m ELSE map_elf_file(loaded[k - 1], q, file, k)
    IN loaded[Len(File[file])]

\* The pages that it takes.
PagesOfFile(file) ==
    LET pages[k \in 0 .. Len(File[file])] ==
            IF k = 0 THEN 0 ELSE pages[k - 1] + PagesOf(File[file][k])
    IN pages[Len(File[file])]

-------------------------------------------------------------------------------
(* The arguments: parse_command() of the shell, and exec()'s page of them. *)

\* Mutant: a blank ends a word even if there is none since the last one.
ScanEveryBlank(line, scan, i) ==
    IF line[i + 1] # Blank THEN [scan EXCEPT !.end = i]
    ELSE IF scan.end = 0 THEN [scan EXCEPT !.start = @ + 1]
    ELSE [args |-> Append(scan.args, SubSeq(line, scan.start + 1, scan.end + 1)),
          start |-> i + 1, end |-> scan.end]

\* Character i of the line, counted from 0, between the start of a word and the
\* last character that was not blank.  A first word of one letter is taken for
\* blanks ("end == 0").
Scan(line, scan, i) ==
    IF line[i + 1] # Blank THEN [scan EXCEPT !.end = i]
    ELSE IF scan.start > scan.end \/ scan.end = 0 THEN [scan EXCEPT !.start = @ + 1]
    ELSE [args |-> Append(scan.args, SubSeq(line, scan.start + 1, scan.end + 1)),
          start |-> i + 1, end |-> scan.end]

\* The pointers to the words, with a last one that is NULL, are written behind the
\* array if there are more of them: there the first word is stored.
parse_command(line) ==
    LET loop[i \in 0 .. Len(line)] ==
            IF i = 0 THEN [args |-> <<>>, start |-> 0, end |-> 0]
            ELSE Scan(line, loop[i - 1], i - 1)
        scan == loop[Len(line)]
        all == IF scan.start > scan.end THEN scan.args
               ELSE Append(scan.args, SubSeq(line, scan.start + 1, scan.end + 1))
        args == IF Last(all) = Background THEN Front(all) ELSE all
    IN IF Len(args) < ArgumentBuffer THEN args ELSE [args EXCEPT ![1] = None]

\* Mutant: the byte that ends an argument is overwritten by the next one.
PushArgumentOverNul(arg, packed) ==
    LET k == Len(packed.page)
        kept == SubSeq(arg, 1, Min({Len(arg), Max({0, ArgLimit - k})}))
    IN [page |-> packed.page \o kept, at |-> <<k>> \o packed.at]

PushArgument(arg, packed) ==
    LET k == Len(packed.page)
        kept == SubSeq(arg, 1, Min({Len(arg), Max({0, ArgLimit - k})}))
    IN [page |-> packed.page \o kept \o <<Nul>>, at |-> <<k>> \o packed.at]

\* The last argument comes first on the page.
PushArguments(args) ==
    LET packed[k \in 0 .. Len(args)] ==
            IF k = 0 THEN [page |-> <<>>, at |-> <<>>]
            ELSE PushArgument(args[Len(args) + 1 - k], packed[k - 1])
    IN packed[Len(args)]

StringAt(page, k) ==
    LET ends == {n \in k + 1 .. Len(page) : page[n] = Nul} \cup {Len(page) + 1}
    IN SubSeq(page, k + 1, Min(ends) - 1)

\* _start() and main() read argv from the pointers that exec() pushed.
ArgumentsFound(args) ==
    LET packed == PushArguments(args)
    IN [i \in DOMAIN packed.at |-> StringAt(packed.page, packed.at[i])]

\* The words of a line, without a last one that stands for the background.
Words(line) ==
    LET words[k \in 0 .. Len(line)] ==
            IF k = 0 THEN <<>>
            ELSE LET before == words[k - 1] IN
                 IF line[k] = Blank THEN before
                 ELSE IF k > 1 /\ line[k - 1] # Blank
                        THEN Append(Front(before), Append(Last(before), line[k]))
                        ELSE Append(before, <<line[k]>>)
        all == words[Len(line)]
    IN IF Last(all) = Background THEN Front(all) ELSE all

-------------------------------------------------------------------------------
(* The environment: es is what is on the pages of a process. *)

\* getenv() and setenv() walk through the entries up to the first empty one.
Reached(es, k) == \A j \in 1 .. k - 1 : es[j] # Ended
Entries(es) == Cardinality({k \in DOMAIN es : es[k] # Ended /\ Reached(es, k)})
Holding(es, n) == {k \in DOMAIN es : es[k].name = n /\ Reached(es, k)}

getenv(es, n) ==
    LET found == Holding(es, n)
    IN IF found = {} THEN None ELSE es[Min(found)].value

\* Mutant: a variable that is set again gets a second entry.
WithVariableTwice(es, n, v) ==
    LET k == Entries(es) + 1
    IN SubSeq([es EXCEPT ![k] = Entry(n, v)], 1, k) \o <<Ended>> \o SubSeq(es, k + 2, Len(es))

\* The value is overwritten where it is, or the new entry takes the place of the
\* first empty one and a new page with an empty one is mapped behind it.
WithVariable(es, n, v) ==
    LET k == Entries(es) + 1 IN
    IF Holding(es, n) # {}
      THEN [es EXCEPT ![Min(Holding(es, n))] = Entry(n, v)]
      ELSE SubSeq([es EXCEPT ![k] = Entry(n, v)], 1, k) \o <<Ended>>
            \o SubSeq(es, k + 2, Len(es))

\* The pages of a child of which the first m are those of its parent.
SeenByChild(es, m, new) == [k \in DOMAIN es |-> IF k <= m THEN new[k] ELSE es[k]]

CopiedEntry(e) ==
    IF e = Ended THEN e
    ELSE [e EXCEPT !.value = SubSeq(@, 1, Min({ValueLimit, Len(@)}))]

\* exec() copies what the c pointers of the caller lead to, empty entries too.
CopiedEntries(es, c) == [k \in 1 .. c |-> CopiedEntry(es[k])] \o <<Ended>>

\* fork() maps the pages of the areas to the child.
PagesInArea(p) == IF p = Shell THEN ShellCovered ELSE Covered
ForkedEntries(p) == SubSeq(entry[p], 1, Min({Len(entry[p]), PagesInArea(p)}))

\* A pointer per page, unless the last page is above the places: none matches then.
PointersTo(pages) == IF Len(pages) <= Slots THEN Len(pages) ELSE 0

-------------------------------------------------------------------------------
forked == {q \in live : parent[q] # None}

ExecInit ==
    /\ live = {Shell}
    /\ parent = [p \in Proc |-> None]
    /\ running = [p \in Proc |-> None]
    /\ table = [p \in Proc |-> {}]
    /\ content = [f \in Frame |-> [c \in Cell |-> Dirty]]
    /\ entry = [p \in Proc |-> IF p = Shell THEN Initial \o <<Ended>> ELSE <<Ended>>]
    /\ pointers = [p \in Proc |-> IF p = Shell THEN Len(Initial) + 1 ELSE 0]
    /\ shared = [p \in Proc |-> 0]
    /\ given = [p \in Proc |-> <<>>]
    /\ argv = [p \in Proc |-> <<>>]

EntriesOf(p) == Entries(entry[p])
HasRoom == MapThenSumSet(EntriesOf, live) < MaxEntries

\* The kernel writes to the pages, shared ones too (CR0.WP is not set): a child that
\* has not called exec() yet sees what its parent sets.
setenv(p, n, v) ==
    LET new == WithVariable(entry[p], n, v) IN
    /\ p \in live \ forked
    /\ Holding(entry[p], n) = {} => HasRoom
    /\ entry' = [r \in Proc |->
                    IF r = p THEN new
                    ELSE IF parent[r] = p THEN SeenByChild(entry[r], shared[r], new)
                    ELSE entry[r]]
    /\ UNCHANGED <<live, parent, image, pointers, shared, arguments>>

\* The shell, or a shell that it has started, makes a child for a command.  The
\* page behind the parent's first empty entry is replaced when that one is set.
fork(p, q) ==
    /\ p \in live \ forked
    /\ q \notin live
    /\ live' = live \cup {q}
    /\ parent' = [parent EXCEPT ![q] = p]
    /\ running' = [running EXCEPT ![q] = running[p]]
    /\ table' = [table EXCEPT ![q] = table[p]]
    /\ entry' = [entry EXCEPT ![q] = ForkedEntries(p)]
    /\ pointers' = [pointers EXCEPT ![q] = pointers[p]]
    /\ shared' = [shared EXCEPT ![q] = Min({Len(ForkedEntries(p)), Entries(entry[p]) + 1})]
    /\ given' = [given EXCEPT ![q] = given[p]]
    /\ argv' = [argv EXCEPT ![q] = argv[p]]
    /\ UNCHANGED content

\* exec() of a file that is found.  The pages that the child has shared stay those
\* of its parent.  A pointer to a page that the child does not have is an access
\* of the kernel that stops the machine (idt.c:620).
exec(q, line) ==
    LET args == parse_command(line)
        file == args[1]
        loaded == loadFile([table |-> table, content |-> content, last |-> 0], q, file)
        copied == CopiedEntries(entry[q], pointers[q])
    IN  /\ q \in forked
        /\ \A i \in DOMAIN args : args[i] # Pipe
        /\ file \in DOMAIN File
        /\ Cardinality(FreeFrames([table |-> table])) >= PagesOfFile(file)
        /\ pointers[q] <= Len(entry[q])
        /\ parent' = [parent EXCEPT ![q] = None]
        /\ table' = [loaded.table EXCEPT ![q] = @ \ table[q]]
        /\ content' = loaded.content
        /\ running' = [running EXCEPT ![q] = file]
        /\ entry' = [entry EXCEPT ![q] = copied]
        /\ pointers' = [pointers EXCEPT ![q] = PointersTo(copied)]
        /\ shared' = [shared EXCEPT ![q] = 0]
        /\ argv' = [argv EXCEPT ![q] = ArgumentsFound(args)]
        /\ given' = [given EXCEPT ![q] = Words(line)]
        /\ UNCHANGED live

\* A program ends, and its pages are cleared.  While a child that it forked has not
\* called exec() it does not end: the pages would be those of the child (see
\* AddressSpace).
exit(q) ==
    /\ q \in live \ (forked \cup {Shell})
    /\ \A p \in forked : parent[p] # q
    /\ live' = live \ {q}
    /\ running' = [running EXCEPT ![q] = None]
    /\ table' = [table EXCEPT ![q] = {}]
    /\ content' = [f \in Frame |-> IF \E e \in table[q] : e.frame = f
                                   THEN [c \in Cell |-> Zero] ELSE content[f]]
    /\ entry' = [entry EXCEPT ![q] = <<Ended>>]
    /\ pointers' = [pointers EXCEPT ![q] = 0]
    /\ given' = [given EXCEPT ![q] = <<>>]
    /\ argv' = [argv EXCEPT ![q] = <<>>]
    /\ UNCHANGED <<parent, shared>>

ExecNext ==
    \/ \E p \in Proc, n \in Name, v \in Value : setenv(p, n, v)
    \/ \E p, q \in Proc : fork(p, q)
    \/ \E q \in Proc, line \in Lines : exec(q, line)
    \/ \E q \in Proc : exit(q)

ExecSpec == ExecInit /\ [][ExecNext]_execVars

-------------------------------------------------------------------------------
(* Properties.                                                             *)

\* A program that was loaded has exactly the pages of its segments, with what
\* map_elf_file() has put there, whatever programs were loaded and ended since: page
\* n of a segment holds the bytes from HeaderSize times its place in the file on
\* (tarfs.c:156), those of the file only if that place is 0, and zeros behind
\* p_filesz.  Clearing the rest of a segment (tarfs.c:174) through the kernel's
\* window never reaches a page of another process.
ImagesAreIntact ==
    \A p \in {q \in live : running[q] # None} :
        LET segments == File[running[p]]
            Belongs(e, k) == e.page \in segments[k].page ..
                                (segments[k].page + PagesOf(segments[k]) - 1)
            At(e, k) == (e.page - segments[k].page) * PageSize
        IN  /\ \A k \in DOMAIN segments :
                   Cardinality({e \in table[p] : Belongs(e, k)}) = PagesOf(segments[k])
            /\ \A e \in table[p] : \E k \in DOMAIN segments :
                   /\ Belongs(e, k)
                   /\ content[e.frame] = [c \in Cell |->
                        IF At(e, k) + c < segments[k].filesz
                          THEN <<running[p], HeaderSize * (segments[k].offset + At(e, k)) + c>>
                          ELSE Zero]

\* The bytes of arguments, each with the one behind it.
BytesOf(args) ==
    LET bytes[k \in 0 .. Len(args)] ==
            IF k = 0 THEN 0 ELSE bytes[k - 1] + Len(args[Len(args) + 1 - k]) + 1
    IN bytes[Len(args)]

\* A command that starts a program has fewer words than parse_command() has room
\* for (sbush.c:172); the program finds as many arguments as it has words, each the
\* word or, if the page had no room for it, the beginning of it; and all of them
\* whole when together with the bytes between them they fit
\* (parse_command(), sbush.c:186, and exec(), task.c:1021, which packs them from
\* the last to the first).
ArgumentsArrive ==
    \A p \in live :
        /\ Len(given[p]) < ArgumentBuffer
        /\ Len(argv[p]) = Len(given[p])
        /\ \A i \in DOMAIN given[p] : IsPrefix(argv[p][i], given[p][i])
        /\ BytesOf(given[p]) <= ArgLimit + 1 => argv[p] = given[p]

\* The environments as dictionaries.  A process that has pointers to pages it does
\* not have hands on nothing: it cannot start a program.
Variables == [p \in Proc |-> [n \in Name |-> getenv(entry[p], n)]]
HandedOn == [p \in Proc |->
    IF pointers[p] > Len(entry[p]) THEN {}
    ELSE {entry[p][k].name : k \in 1 .. Min({Entries(entry[p]), pointers[p]})}]
Room == [p \in Proc |->
    IF pointers[p] > Len(entry[p]) THEN 0 ELSE Max({0, pointers[p] - Entries(entry[p])})]

Dict == INSTANCE Dictionary WITH dict <- Variables, handed <- HandedOn, room <- Room

\* setenv(), fork() and exec() together are the dictionaries of module Dictionary:
\* no call changes a variable of another process but for a child that has not
\* started its program, a value that is set replaces the old one, and a program
\* gets the variables of the one that started it as far as the pointers made at
\* that one's start lead to them, and only if its area holds them all.
ImplementsDictionary == Dict!Spec
===============================================================================
