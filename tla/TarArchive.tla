------------------------------ MODULE TarArchive ------------------------------
(***************************************************************************)
(* The archive that is the file system of SBUNIX (src/sys/tarfs.c): how a  *)
(* path is resolved, how a header is found, what a read returns and what   *)
(* a directory lists.  Nothing here has state.                             *)
(*                                                                         *)
(* A path is a sequence of names and slashes, with no two names next to    *)
(* each other.  An address counts cells, Block of them to a block of the   *)
(* archive; a cell stands for bytes and is NUL or not.                     *)
(***************************************************************************)
EXTENDS Integers, Sequences, SequencesExt

CONSTANTS
    Block,      \* cells in a block: 512 bytes
    Archive     \* the entries of the archive, in its order: name and size

Slash == "/"
Colon == ":"
Nul == "nul"
Root == <<Slash>>
Nameless == <<>>
NotFound == 0

\* tar ends an archive with blocks of zeros; the searches read them as
\* headers with an empty name and no data.
ZeroBlock == [name |-> Nameless, size |-> 0]
Headers == Archive \o <<ZeroBlock, ZeroBlock>>

IsDirectory(h) == h.name # Nameless /\ h.size = 0
Under(dir, name) == IsStrictPrefix(dir, name)

\* A path, and one that starts with a name and is written as a header's name is:
\* no slash twice, and no dots.
IsPath(path) ==
    /\ path \in Seq(STRING) /\ path # <<>>
    /\ \A k \in 1 .. Len(path) - 1 : path[k] = Slash \/ path[k + 1] = Slash
IsPlain(path) ==
    /\ path \in Seq(STRING) /\ path # <<>>
    /\ \A k \in DOMAIN path :
        IF k % 2 = 0 THEN path[k] = Slash ELSE path[k] \notin {Slash, ".", "..", Colon, Nul}

\* The directories of an entry are entries, and what is below a directory follows
\* it without a gap, as find and tar write them (Makefile:60).
ASSUME ArchiveAssumption ==
    /\ Block \in Nat \ {0, 1}
    /\ Archive \in Seq([name : Seq(STRING), size : Nat]) /\ Archive # <<>>
    /\ \A n \in DOMAIN Archive :
        /\ IsPlain(Archive[n].name)
        /\ IsDirectory(Archive[n]) <=> Last(Archive[n].name) = Slash
    /\ \A m, n \in DOMAIN Archive :
        Archive[m].name = Archive[n].name => m = n
    /\ \A n \in DOMAIN Archive : \A k \in DOMAIN Archive[n].name :
        Archive[n].name[k] = Slash =>
            \E m \in DOMAIN Archive : Archive[m].name = SubSeq(Archive[n].name, 1, k)
    /\ \A m, n \in DOMAIN Archive :
        Under(Archive[m].name, Archive[n].name) /\ IsDirectory(Archive[m]) =>
            m < n /\ \A k \in m + 1 .. n : Under(Archive[m].name, Archive[k].name)

-------------------------------------------------------------------------------
\* One step over a header: its block and its data, rounded up to blocks.
Step(h) == Block + ((h.size + Block - 1) \div Block) * Block

\* Where each header is, and behind the last where the archive ends.
Address ==
    LET address[n \in 1 .. Len(Headers) + 1] ==
            IF n = 1 THEN 1 ELSE address[n - 1] + Step(Headers[n - 1])
    IN address

BINARY_TARFS_START == 1
BINARY_TARFS_END == Address[Len(Headers) + 1]

\* The header at an address; its data starts one block later.
HeaderAt(a) == CHOOSE n \in DOMAIN Headers : Address[n] = a

\* The headers that the searches pass when they start at an address.
From(a) == {n \in DOMAIN Headers : Address[n] >= a}
FirstOf(S) == CHOOSE n \in S : \A m \in S : n <= m

Named(name) == {n \in DOMAIN Headers : Headers[n].name = name}

get_file_address(name) ==
    IF Named(name) = {} THEN NotFound
    ELSE LET n == FirstOf(Named(name)) IN
         IF Headers[n].size > 0 THEN Address[n] + Block ELSE Address[n]

get_dir_address(name) ==
    IF Named(name) = {} \/ Headers[FirstOf(Named(name))].size > 0 THEN NotFound
    ELSE Address[FirstOf(Named(name))]

\* The cells that are not NUL: the first of a header that has a name, and the
\* data of a file without the rest of its last block.
IsNul(a) ==
    \A n \in DOMAIN Archive :
        LET data == Address[n] + Block IN
            a # Address[n] /\ a \notin data .. data + Archive[n].size - 1

\* Mutant: a read always fills the buffer.
memreadAll(a, count) == count

\* memread(): the number of cells copied, up to the first NUL.
memread(a, count) ==
    CHOOSE k \in 0 .. count :
        /\ \A i \in 0 .. k - 1 : ~IsNul(a + i)
        /\ k = count \/ IsNul(a + k)

-------------------------------------------------------------------------------
\* Mutant: the slash that ends the name is taken for the one before it.
BackOne(output) ==
    IF Front(output) = <<>> THEN output
    ELSE SubSeq(output, 1, SelectLastInSeq(output, LAMBDA c : c = Slash))

\* "output" goes back to behind the slash before the last name, and stays
\* where it is behind the first slash.
Back(output) ==
    LET o == Front(output) IN
        IF o = <<>> THEN output ELSE SubSeq(o, 1, SelectLastInSeq(o, LAMBDA c : c = Slash))

Ended(output) == IF Last(output) = Slash THEN output ELSE Append(output, Slash)

\* remove_dotslash(): input is copied behind the working directory or the
\* root, without dots and double slashes.  With d = 1 the result ends in a slash.
remove_dotslash(cwd, input, d) ==
    LET Copy(out, c) ==
            CASE c = ".."  -> Back(out)
              [] c = "."   -> out
              [] c = Slash -> Ended(out)
              [] OTHER     -> Append(out, c)
        start == IF Head(input) = Slash THEN Root ELSE Ended(cwd)
        output[n \in 0 .. Len(input)] ==
            IF n = 0 THEN start ELSE Copy(output[n - 1], input[n])
        all == output[Len(input)]
    IN IF d = 1 THEN Ended(all) ELSE all

\* What the path means: the stack of names from the root.
Meaning(cwd, path) ==
    LET all == IF Head(path) = Slash THEN path ELSE cwd \o Root \o path
        stack[n \in 0 .. Len(all)] ==
            IF n = 0 THEN <<>>
            ELSE CASE all[n] \in {Slash, "."} -> stack[n - 1]
                   [] all[n] = ".." ->
                        IF stack[n - 1] = <<>> THEN <<>> ELSE Front(stack[n - 1])
                   [] OTHER -> Append(stack[n - 1], all[n])
    IN stack[Len(all)]

Spelled(stack) ==
    [n \in 1 .. 2 * Len(stack) + 1 |-> IF n % 2 = 1 THEN Slash ELSE stack[n \div 2]]

-------------------------------------------------------------------------------
\* PATH is a sequence of names, slashes and colons.
NoFile == <<>>

\* Where a directory that starts at i ends, and the array of getPATH().
EndOfDirectory(testfile, i) ==
    CHOOSE e \in i .. Len(testfile) :
        /\ testfile[e] \in {Colon, Nul}
        /\ \A k \in i .. e - 1 : testfile[k] \notin {Colon, Nul}

\* The directories that the loop of get_executable_path() tries, one each time round.
\* Behind the last one of PATH it has stepped over the NUL, and goes on with what
\* the stack held, up to a NUL where a directory would start.
DirectoriesTried(testfile) ==
    LET n == Len(testfile)
        loop[k \in 0 .. n] ==  \* where the next directory starts, and those before
            IF k = 0 THEN <<1, <<>> >>
            ELSE LET before == loop[k - 1]
                     i == before[1]
                     e == EndOfDirectory(testfile, i)
                 IN IF i = n + 1 \/ testfile[i] = Nul THEN before
                    ELSE <<e + 1, Append(before[2], SubSeq(testfile, i, e - 1))>>
    IN loop[n][2]

\* The name that is looked for in a directory: the first character of the path,
\* a slash, is left out.
InDirectory(dir, filename) == Tail(Ended(dir) \o filename)

FirstFound(dirs, filename) ==
    LET found == {k \in DOMAIN dirs :
                    get_file_address(InDirectory(dirs[k], filename)) # NotFound}
    IN IF found = {} THEN NoFile ELSE InDirectory(dirs[FirstOf(found)], filename)

\* Mutant: the search ends with the last directory that has the file.
LastInPath(cwd, filename, path, stack) ==
    IF Head(filename) = Slash THEN Tail(filename)
    ELSE LET here == Tail(remove_dotslash(cwd, filename, 0)) IN
         IF get_file_address(here) # NotFound THEN here
         ELSE FirstFound(Reverse(DirectoriesTried(path \o <<Nul>> \o stack)), filename)

\* get_executable_path() with the value of PATH in the first cells of an array
\* whose other cells are what the kernel's stack held.
get_executable_path(cwd, filename, path, stack) ==
    IF Head(filename) = Slash THEN Tail(filename)
    ELSE LET here == Tail(remove_dotslash(cwd, filename, 0)) IN
         IF get_file_address(here) # NotFound THEN here
         ELSE FirstFound(DirectoriesTried(path \o <<Nul>> \o stack), filename)

-------------------------------------------------------------------------------
\* get_first_directory() and get_sub_directory(): the name below dir, up to
\* and with its slash.
Below(dir, name) ==
    LET rest == SubSeq(name, Len(dir) + 1, Len(name)) IN
        IF Slash \in ToSet(rest) THEN SubSeq(rest, 1, 2) ELSE rest

\* Names of the archive do not start with a slash: for "/" nothing is cut off.
Prefix(dir) == IF dir = Root THEN <<>> ELSE dir

\* The headers that getDirEntries() passes for a directory at an address: all
\* for the root, for others up to the first that is not below the directory.
Passed(dir, start) ==
    IF dir = Root THEN From(start)
    ELSE {n \in From(start + Block) :
            \A m \in From(start + Block) : m <= n => Under(dir, Headers[m].name)}

\* Mutant: every header below the directory is an entry.
getDirEntriesAll(dir, start) ==
    LET entries[n \in 0 .. Len(Headers)] ==
            IF n = 0 THEN <<>>
            ELSE IF n \notin Passed(dir, start) THEN entries[n - 1]
            ELSE Append(entries[n - 1], Below(Prefix(dir), Headers[n].name))
    IN entries[Len(Headers)]

\* getDirEntries() into a buffer that is large enough: a name is left out if
\* it is that of the entry before.
getDirEntries(dir, start) ==
    LET passed == Passed(dir, start)
        entries[n \in 0 .. Len(Headers)] ==
            IF n = 0 THEN <<>>
            ELSE LET before == entries[n - 1]
                     name == Below(Prefix(dir), Headers[n].name)
                     same == before # <<>> /\ Last(before) = name
                 IN IF n \notin passed \/ same THEN before ELSE Append(before, name)
    IN entries[Len(Headers)]

\* What a directory holds: the first names below it.
Children(dir) ==
    {Below(Prefix(dir), Archive[n].name) :
        n \in {m \in DOMAIN Archive : dir = Root \/ Under(dir, Archive[m].name)}}
===============================================================================
