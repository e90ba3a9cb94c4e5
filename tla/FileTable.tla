------------------------------ MODULE FileTable ------------------------------
(***************************************************************************)
(* The descriptors of the processes: pages of descriptors that a task      *)
(* points to (fd_pointers) and shares with its children, the calls that    *)
(* open, read, list and close, and the working directory.                  *)
(*                                                                         *)
(* As under src/bin, only the shell forks, the child calls exec at once,   *)
(* and a program uses only what it has opened.  The pages of descriptors   *)
(* are never freed.                                                        *)
(***************************************************************************)
EXTENDS TarArchive, FiniteSets

CONSTANTS
    Task,           \* the Task structures kmalloc() can still provide
    sbush,
    Table,          \* the pages it can still provide for descriptors
    Pages,          \* entries of fd_pointers: 20
    PerPage,        \* descriptors on a page: 5
    LastReserved,   \* descriptors up to this one are reserved: 2
    OpenPaths,      \* arguments of open()
    DirPaths,       \* arguments of opendir()
    ChdirPaths,     \* arguments of chdir()
    Counts,         \* sizes of the buffers for read()
    Commands,       \* names of programs for exec()
    SearchPaths,    \* values of PATH, sequences of directories
    Leftovers       \* what the kernel's stack held behind a copy of PATH

NoPage == 0
NoDir == <<0, 0>>
Error == -1

Fd == 0 .. Pages * PerPage - 1
Usable == {fd \in Fd : fd > LastReserved}
Paths == OpenPaths \cup DirPaths \cup ChdirPaths

ASSUME FileAssumption ==
    /\ sbush \in Task
    /\ NoPage \notin Table
    /\ Pages \in Nat \ {0} /\ PerPage \in Nat \ {0}
    /\ LastReserved \in Nat /\ LastReserved < PerPage - 1
    /\ \A path \in Paths : IsPath(path)
    /\ Counts \subseteq Nat \ {0}
    /\ \A dirs \in SearchPaths :
        /\ dirs \in Seq(Seq(STRING))
        /\ \A k \in DOMAIN dirs :
            dirs[k] # <<>> /\ Head(dirs[k]) = Slash /\ (dirs[k] = Root \/ IsPlain(Tail(dirs[k])))
    /\ \A command \in Commands : IsPlain(command) /\ Last(command) # Slash
    /\ \A stack \in Leftovers : stack \in Seq(STRING) /\ stack # <<>> /\ Last(stack) = Nul

VARIABLES
    live, forked,
    fd_pointers,    \* of each task
    fd_count,
    slot,           \* the struct fileDescriptor at each place of each page
    used,           \* pages that kmalloc() has given out
    cwd,            \* PWD in the environment of each task
    opened,         \* history: what each program holds descriptors for
    listed          \* history: the names readdir() returned of each stream

vars == <<live, forked, fd_pointers, fd_count, slot, used, cwd, opened, listed>>

Place == Table \X (0 .. PerPage - 1)
Free == [name |-> Nameless, start |-> 0, offset |-> 0, d_prev_dir |-> Nameless,
         d_dirp |-> NoDir]
Nothing == [name |-> Nameless, start |-> 0, stream |-> FALSE]

\* get_fd_address(): the place of a descriptor.
get_fd_address(t, fd) == <<fd_pointers[t][fd \div PerPage], fd % PerPage>>

\* The number of the page of a DIR pointer: the first descriptor on the pages
\* that fd_count covers which has this pointer.
get_fd(t, dirp) ==
    LET Match == {fd \in Usable :
                    /\ fd \div PerPage < fd_count[t] \div PerPage
                    /\ \A page \in 0 .. fd \div PerPage : fd_pointers[t][page] # NoPage
                    /\ slot[get_fd_address(t, fd)].d_dirp = dirp}
    IN IF Match = {} THEN Error ELSE CHOOSE fd \in Match : \A other \in Match : fd <= other

kmalloc(given) == CHOOSE p \in Table \ given : TRUE
EmptyPointers == [page \in 0 .. Pages - 1 |-> NoPage]
FirstPage(p) == [EmptyPointers EXCEPT ![0] = p]
NothingOpened == [fd \in Usable |-> Nothing]

-------------------------------------------------------------------------------
\* initUserProcess(): the shell has no page of descriptors yet, and PWD=/.
Init ==
    /\ live = {sbush}
    /\ forked = {}
    /\ used = {}
    /\ fd_pointers = [t \in Task |-> EmptyPointers]
    /\ fd_count = [t \in Task |-> 0]
    /\ slot = [p \in Place |-> Free]
    /\ cwd = [t \in Task |-> Root]
    /\ opened = [t \in Task |-> NothingOpened]
    /\ listed = [p \in Place |-> <<>>]

\* Programs that make calls: a forked one only waits for its exec.
Runs(t) == t \in live \ forked
Holds(t, fd) == Runs(t) /\ opened[t][fd] # Nothing

\* Mutant: a descriptor counts as free unless it is a stream.
FreeFdsByPointer(t) ==
    {fd \in Usable : \/ fd_pointers[t][fd \div PerPage] = NoPage
                     \/ slot[get_fd_address(t, fd)].d_dirp = NoDir}

\* The descriptors that the loops of openFile() find: those without a name, and
\* all of a page that is not there yet.
FreeFds(t) ==
    {fd \in Usable : \/ fd_pointers[t][fd \div PerPage] = NoPage
                     \/ slot[get_fd_address(t, fd)].name = Nameless}

\* Mutant: one descriptor is counted, not those of its page.
CountedOne(t, new) == IF new THEN fd_count[t] + 1 ELSE fd_count[t]

Counted(t, new) == IF new THEN fd_count[t] + PerPage ELSE fd_count[t]

\* The end of openFile() and openDirectory(): the first free descriptor is
\* filled.  Every page has one that is not reserved, so that at most one page is
\* new.
Fill(t, name, start, stream) ==
    /\ FreeFds(t) # {}
    /\ LET fd == CHOOSE f \in FreeFds(t) : \A other \in FreeFds(t) : f <= other
           page == fd \div PerPage
           new == fd_pointers[t][page] = NoPage
           table == IF new THEN kmalloc(used) ELSE fd_pointers[t][page]
           place == <<table, fd % PerPage>>
       IN /\ new => Table \ used # {}
          /\ fd_pointers' = [fd_pointers EXCEPT ![t][page] = table]
          /\ fd_count' = [fd_count EXCEPT ![t] = Counted(t, new)]
          /\ used' = used \cup {table}
          /\ slot' = [slot EXCEPT ![place] =
                [name |-> name, start |-> start, offset |-> start, d_prev_dir |-> Nameless,
                 d_dirp |-> IF stream THEN place ELSE NoDir]]
          /\ opened' = [opened EXCEPT ![t][fd] =
                [name |-> name, start |-> start, stream |-> stream]]
          /\ listed' = [listed EXCEPT ![place] = <<>>]
    /\ UNCHANGED <<live, forked, cwd>>

\* The directories that chdir() can store in PWD.
Directory == {Root} \cup {Root \o h.name : h \in {e \in ToSet(Archive) : IsDirectory(e)}}

\* The name of a header: a path without its first slash.
Resolved == [dir \in Directory |-> [path \in Paths |-> [d \in {0, 1} |->
                Tail(remove_dotslash(dir, path, d))]]]

\* What open() finds: the root, or a file as it is named, or a directory.
FileFound == [dir \in Directory |-> [path \in OpenPaths |->
    LET plain == Resolved[dir][path][0]
        directory == Resolved[dir][path][1]
        file == get_file_address(plain)
    IN CASE path = Root                       -> <<Root, BINARY_TARFS_START>>
         [] path # Root /\ file # NotFound    -> <<plain, file>>
         [] OTHER                             -> <<directory, get_file_address(directory)>>]]

openFile(t, path) ==
    /\ Runs(t)
    /\ LET found == FileFound[cwd[t]][path] IN
        /\ found[2] # NotFound
        /\ Fill(t, found[1], found[2], FALSE)

DirectoryFound == [dir \in Directory |-> [path \in DirPaths |->
    LET directory == Resolved[dir][path][1] IN
        IF path = Root THEN <<Root, BINARY_TARFS_START>>
        ELSE <<directory, get_dir_address(directory)>>]]

openDirectory(t, path) ==
    /\ Runs(t)
    /\ LET found == DirectoryFound[cwd[t]][path] IN
        /\ found[2] # NotFound
        /\ Fill(t, found[1], found[2], TRUE)

readFile(t, fd, count) ==
    /\ Holds(t, fd)
    /\ ~opened[t][fd].stream
    /\ LET place == get_fd_address(t, fd) IN
        /\ slot[place].name # Nameless
        /\ slot' = [slot EXCEPT ![place].offset = @ + memread(@, count)]
    /\ UNCHANGED <<live, forked, fd_pointers, fd_count, used, cwd, opened, listed>>

\* closeFile() and closeDir() empty the name and leave the rest.
Release(t, fd, place) ==
    /\ slot' = [slot EXCEPT ![place].name = Nameless]
    /\ opened' = [opened EXCEPT ![t][fd] = Nothing]
    /\ UNCHANGED <<live, forked, fd_pointers, fd_count, used, cwd, listed>>

closeFile(t, fd) ==
    /\ Holds(t, fd)
    /\ ~opened[t][fd].stream
    /\ Release(t, fd, get_fd_address(t, fd))

\* The headers readDir() looks at: the root's stream starts at its offset, that
\* of another directory behind the header at its offset.
Ahead(s) ==
    IF s.name = Root THEN From(s.offset)
    ELSE LET rest == From(Address[HeaderAt(s.offset) + 1]) IN
         {n \in rest : \A m \in rest : m <= n => Under(s.name, Headers[m].name)}

Entry(s, n) == Below(Prefix(s.name), Headers[n].name)

\* Mutant: entries of subdirectories are not left out.
NextEntriesAll(s) == {n \in Ahead(s) : s.name # Nameless}

\* Those it returns: their name is not that of the last one returned.
NextEntries(s) == {n \in Ahead(s) : s.name # Nameless /\ Entry(s, n) # s.d_prev_dir}

\* A call at the end of the directory returns NULL and changes nothing.
readDir(t, fd) ==
    /\ Holds(t, fd)
    /\ opened[t][fd].stream
    /\ LET number == get_fd(t, get_fd_address(t, fd))
           place == get_fd_address(t, number)
           s == slot[place]
       IN /\ number # Error
          /\ NextEntries(s) # {}
          /\ LET n == FirstOf(NextEntries(s)) IN
             /\ slot' = [slot EXCEPT ![place].d_prev_dir = Entry(s, n),
                                     ![place].offset = IF s.name = Root THEN Address[n + 1]
                                                       ELSE Address[n]]
             /\ listed' = [listed EXCEPT ![place] = Append(@, Entry(s, n))]
    /\ UNCHANGED <<live, forked, fd_pointers, fd_count, used, cwd, opened>>

closeDir(t, fd) ==
    /\ Holds(t, fd)
    /\ opened[t][fd].stream
    /\ LET number == get_fd(t, get_fd_address(t, fd)) IN
        /\ number # Error
        /\ Release(t, fd, get_fd_address(t, number))

changeDirectory(t, path) ==
    /\ Runs(t)
    /\ get_dir_address(Resolved[cwd[t]][path][1]) # NotFound
    /\ cwd' = [cwd EXCEPT ![t] = remove_dotslash(cwd[t], path, 1)]
    /\ UNCHANGED <<live, forked, fd_pointers, fd_count, slot, used, opened, listed>>

\* createChildTask(), called by the shell: the child points to the pages of its parent.
fork(t) ==
    /\ t = sbush
    /\ \E child \in Task \ live :
        /\ live' = live \cup {child}
        /\ forked' = forked \cup {child}
        /\ fd_pointers' = [fd_pointers EXCEPT ![child] = fd_pointers[t]]
        /\ fd_count' = [fd_count EXCEPT ![child] = fd_count[t]]
        /\ cwd' = [cwd EXCEPT ![child] = cwd[t]]
    /\ UNCHANGED <<slot, used, opened, listed>>

\* createNewExecTask(): one new page of descriptors.
FreshPage(t) == FirstPage(kmalloc(used))

exec(t) ==
    /\ t \in forked
    /\ Table \ used # {}
    /\ used' = used \cup {kmalloc(used)}
    /\ \E task \in Task \ live :
        /\ live' = (live \ {t}) \cup {task}
        /\ forked' = forked \ {t}
        /\ fd_pointers' = [fd_pointers EXCEPT ![t] = EmptyPointers, ![task] = FreshPage(t)]
        /\ fd_count' = [fd_count EXCEPT ![t] = 0, ![task] = PerPage]
        /\ cwd' = [cwd EXCEPT ![t] = Root, ![task] = cwd[t]]
        /\ opened' = [opened EXCEPT ![t] = NothingOpened]
    /\ UNCHANGED <<slot, listed>>

\* A process that ends leaves its descriptors as they are.
Terminate(t) ==
    /\ t \in live \ {sbush}
    /\ live' = live \ {t}
    /\ forked' = forked \ {t}
    /\ fd_pointers' = [fd_pointers EXCEPT ![t] = EmptyPointers]
    /\ fd_count' = [fd_count EXCEPT ![t] = 0]
    /\ cwd' = [cwd EXCEPT ![t] = Root]
    /\ opened' = [opened EXCEPT ![t] = NothingOpened]
    /\ UNCHANGED <<slot, used, listed>>

Next ==
    \E t \in Task :
        \/ \E path \in OpenPaths : openFile(t, path)
        \/ \E path \in DirPaths : openDirectory(t, path)
        \/ \E path \in ChdirPaths : changeDirectory(t, path)
        \/ \E fd \in Usable :
            \/ \E count \in Counts : readFile(t, fd, count)
            \/ closeFile(t, fd)
            \/ readDir(t, fd)
            \/ closeDir(t, fd)
        \/ fork(t)
        \/ exec(t)
        \/ Terminate(t)

Spec == Init /\ [][Next]_vars

-------------------------------------------------------------------------------
Name == {h.name : h \in ToSet(Headers)} \cup {Root}
Slot == [name : Name, start : Nat, offset : Nat, d_prev_dir : Seq(STRING),
         d_dirp : Place \cup {NoDir}]

TypeOK ==
    /\ live \subseteq Task /\ forked \subseteq live
    /\ fd_pointers \in [Task -> [0 .. Pages - 1 -> Table \cup {NoPage}]]
    /\ fd_count \in [Task -> {PerPage * n : n \in 0 .. Pages}]
    /\ slot \in [Place -> Slot]
    /\ used \subseteq Table
    /\ \A t \in Task : cwd[t] \in Directory
    /\ opened \in [Task -> [Usable -> [name : Name, start : Nat, stream : BOOLEAN]]]
    /\ DOMAIN listed = Place

\* What a program has opened and not closed stays what it opened, whatever
\* its parent and its children open and close; a directory is found again by
\* its pointer.  A descriptor of the empty name, which open() gives for paths
\* like "/.", is free for the next open().
DescriptorsStay ==
    \A t \in live, fd \in Usable :
        Holds(t, fd) /\ opened[t][fd].name # Nameless =>
            LET place == get_fd_address(t, fd) IN
                /\ slot[place].name = opened[t][fd].name
                /\ slot[place].start = opened[t][fd].start
                /\ opened[t][fd].stream => get_fd(t, place) = fd

\* A descriptor changes hands only through its close: open() and opendir() never
\* give out one that the program still holds.
NoneIsGivenTwice ==
    [][\A t \in Task, fd \in Usable :
        Holds(t, fd) /\ opened[t][fd].name # Nameless =>
            opened'[t][fd] \in {opened[t][fd], Nothing}]_vars

HoldsNamed(t, fd, stream) ==
    Holds(t, fd) /\ opened[t][fd].stream = stream /\ opened[t][fd].name # Nameless

\* A read returns cells of the file only: it stops at the first NUL behind the
\* data, which is missing if the data fills its last block.
ReadsStayInside ==
    \A t \in live, fd \in Usable, n \in DOMAIN Archive :
        HoldsNamed(t, fd, FALSE) =>
            LET s == slot[get_fd_address(t, fd)] IN
                s.name = Archive[n].name /\ Archive[n].size % Block # 0 =>
                    s.offset <= s.start + Archive[n].size

\* A stream returns every entry of its directory once, and what getdents()
\* returns of it; that of the root also returns one entry without a name, which
\* is the end of the archive.
ListingIsExact ==
    \A t \in live, fd \in Usable : HoldsNamed(t, fd, TRUE) =>
        LET place == get_fd_address(t, fd)
            names == listed[place]
            entries == getDirEntries(slot[place].name, slot[place].start)
        IN  /\ IsInjective(names)
            /\ IsPrefix(names, entries)
            /\ ToSet(names) \subseteq Children(slot[place].name) \cup {Nameless}
            /\ NextEntries(slot[place]) = {} =>
                   /\ names = entries
                   /\ Children(slot[place].name) \subseteq ToSet(names)

\* Directories as they are written in PATH, each with its colon.
Join(dirs) ==
    LET join[k \in 0 .. Len(dirs)] ==
            IF k = 0 THEN <<>> ELSE join[k - 1] \o dirs[k] \o <<Colon>>
    IN join[Len(dirs)]

\* The file a command means: that in the working directory, or else that in the
\* first directory of PATH that has it.
Meant(dir, command, dirs) ==
    LET In(d) == Front(Tail(Spelled(Meaning(d, command))))
        tried == <<dir>> \o dirs
        has == {k \in DOMAIN tried : Named(In(tried[k])) # {}}
    IN IF has = {} THEN NoFile ELSE In(tried[FirstOf(has)])

\* A path means the same as a stack of names from the root, in every working
\* directory that chdir() can reach.  A command runs the first file of its name in
\* the working directory and those of PATH, whatever the kernel's stack holds;
\* and if there is none, a PATH that ends in a colon keeps the search from going on
\* in what the stack holds (get_executable_path(), tarfs.c:284).
PathsResolve ==
    \A dir \in {cwd[t] : t \in live} :
        /\ \A path \in Paths :
            LET meant == Spelled(Meaning(dir, path)) IN
                /\ remove_dotslash(dir, path, 1) = meant
                /\ Ended(remove_dotslash(dir, path, 0)) = meant
        /\ \A command \in Commands, dirs \in SearchPaths, stack \in Leftovers :
            LET meant == Meant(dir, command, dirs)
                path == Join(dirs)
            IN  /\ get_executable_path(dir, command, path, stack) = meant
                /\ meant # NoFile =>
                    get_executable_path(dir, command, Front(path), stack) = meant
===============================================================================
