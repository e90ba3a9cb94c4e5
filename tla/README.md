# A verification development for SBUNIX

SBUNIX is a preemptive 64-bit kernel with a shell and a few programs.  This
directory holds TLA+ modules translated from its C code, the TLC
configurations that check them on small instances, and theorems that TLAPS
checks for every instance.  `PROJECT.json` relates definitions to source lines,
runs to properties, and lists the hazards of the code.

To check one module: `tlc -config RunQueue_run.cfg MCRunQueue`; to check the
proofs: `tlapm PhysMemProofs.tla`, and the same for the other modules whose name
ends in `Proofs`.

## 1. Inventory

The kernel runs one handler at a time on one processor.  A system call masks
interrupts on entry (`SFMASK`, src/sys/syscall.c) and every gate of the
interrupt table clears the interrupt flag, so a handler runs to its end, and
`mutex` (src/sys/idt.c:352) keeps the timer from switching inside a system
call.  An action of a module is therefore a whole handler, and concurrency is
the order of handlers: system calls of the process that runs, timer ticks,
keys, page faults.

| component | state | operations | what makes it correct |
|---|---|---|---|
| Physical pages (`phyMemMapper.c`, `main.c`) | bitmap `availFrames`, `physfree`, `physend` | boot loop over the BIOS map, `pageAllocator`, `kdealloc` | a page is free or held by one owner, none is lost, all are in the kernel window |
| Kernel page tables (`virtualMemory.c`) | a PML4 per process and the tables below it | `identityMapping`, `mapPage`, `forceMapPage`, `mapPageForUser`, `getNewPML4ForUser`, `stackForUser`, `FreePageTables` | allocatable pages are mapped, a walk finds what was mapped, the kernel's half is the same everywhere |
| Processes (`task.c`) | a ring of `Task` linked by `next`, `deleteQueue` linked by the same field, `pidCount`, `foregroundPid` | `fork`, `exec`, `exit`, `kill`, `exitpid` (Ctrl-C), `waitpid`, `runNextTask`, `ps` | the ring stays a ring, numbers are unique, every process gets its turn, a wait ends when the process does |
| Address spaces (`task.c`, `idt.c`) | `memMap.mmap` (areas), page table of each task | copy-on-write `fork`, page fault, `malloc`, `free`, release at the end | each program sees a memory of its own |
| Heap lists (`task.c`) | list of areas, `isNextFreed` | `malloc`, `free`, `copyVMA` | allocations do not overlap and stay known to the fault handler |
| ELF loader (`tarfs.c`) | pages of a new program | `loadFile`, `map_elf_file` | the image stays what was copied, and nobody else's page is written |
| Arguments (`sbush.c`, `task.c`) | the words of a command, the page from 0x321000 | `parse_command`, `exec` | a program gets the words that were typed |
| Environment (`tarfs.c`, `task.c`) | pages from 0x302000, `envp` | `getenv`, `setenv`, `exec` | a dictionary per process, handed on as far as the area reaches |
| Timer (`idt.c`, `task.c`, `libc/unistd.c`) | tick counters, alarm and sleep counts of each task | tick, `alarm`, `signal`, `sleep` | no early and no lost wake-up, no starvation by a long slice |
| Keyboard and input (`idt.c`, `tarfs.c`, `sbush.c`) | ring buffer of a page, modifier flags | keys, backspace, `read(0)` polling | lines reach the shell once, in order, and whole or in known pieces |
| Console (`kprintf.c`) | cells, cursor, end of the row, count of rows | `kprintf`, key echo, backspace, `write` | the screen shows what was printed, and the line that is typed |
| Contexts (`task.s`, `idt.s`, `syscall.s`) | saved frame below `kernelRsp`, `count`, `add` | switch, fork return, handler of an alarm | a process resumes with the registers it had |
| File system (`tarfs.c`) | an archive in memory, descriptor pages of a task, `currPath` | `open`, `read`, `readdir`, `close`, `chdir` | descriptors name what was opened, paths resolve as in the archive |
| Clock, AHCI, PCI, boot scripts | devices | set-up | |

How they interact: every allocation of a structure, table or user page is a
`kmalloc()` (physical pages); `fork` copies the areas and shares the frames of
the parent, links the child behind it and copies its kernel stack; the timer
walks the ring, advances the counts of every task and switches; the keyboard
handler writes the buffer and the screen, and ends the foreground process through
`exitpid`, inside an interrupt; a program that waits, sleeps or reads polls, so it
depends on being scheduled.

What is hard: exit, kill, exec and Ctrl-C all relink the list the timer walks;
a structure's `next` links one of two queues; a wait polls for a number across
execs; parent and child fault on a shared page in any order; tables are built on
pages that were tables of ended processes; the end of a slice and the end of a
second coincide; the buffer's writer and reader wrap by different rules; a
backspace goes back over the end of a row; the allocator computes row and column
in four places.

## 2. Modules and runs

| module | models | abstract specification | proofs |
|---|---|---|---|
| `PhysMem` (`MCPhysMem`) | bitmap, boot loop, kernel window | `FrameAllocator` | `PhysMemProofs` |
| `PageTables` (`MCPageTables`) | the four levels, from creation to release | `PageMapping` | `PageTablesProofs` |
| `Areas` | `malloc`, `free` and the copy of `fork` as functions of a list of areas (no state) | | |
| `AddressSpace` (`MCAddressSpace`) | areas, user entries, copy-on-write | `PrivateMemory` | `AddressSpaceProofs` |
| `Heap` (`MCHeap`) | the list of areas under `malloc` and `free`, the shell's loops | | `ProgramsProofs` |
| `Exec` (`MCExec`) | loader, arguments, environment | `Dictionary` | `ProgramsProofs` |
| `RunQueue` (`MCRunQueue`) | ring, deleteQueue, process numbers, waiting | `RoundRobin` | `RunQueueProofs` |
| `Contexts` (`MCContexts`) | kernel stacks and registers, composed with `RunQueue` | | `ContextsProofs` |
| `Timers` | ticks, slices, sleep, alarm | | `DevicesProofs` |
| `Console` | the text on the screen (operators, no state of its own) | `Paper` | |
| `InputBuffer` (`MCInputBuffer`) | keys, ring buffer, the shell's reader, composed with `Console` | `Terminal` | `DevicesProofs` |
| `TarArchive` | the archive: look-up, reads, listings, paths (no state) | `Meaning`, `Children` | |
| `FileTable` (`MCFileTable`) | descriptors, their pages, working directories | | `FileTableProofs` |

MC modules only give values to constants; a definition headed "Mutant" is a
faulty variant of the one behind it, used to show that a property notices.
`TypeOK` documents the state of a module; it holds in each of the runs.

| run | module | question |
|---|---|---|
| `phys_run` | `MCPhysMem` | is every page free or held by one, whatever the memory map? |
| `tables_run` | `MCPageTables` | do walks find what was mapped, over released and reused tables? |
| `space_shell` | `MCAddressSpace` | is memory private under the programs of src/bin? |
| `space_exit` | `MCAddressSpace` | and if any program may fork and end? (violated) |
| `heap_run` | `MCHeap` | does `malloc` lose or overlap what is in use? |
| `exec_run` | `MCExec` | do image, arguments and environment arrive? |
| `queue_run` | `MCRunQueue` | do the queues, numbers and waits survive every order of calls? |
| `contexts_run` | `MCContexts` | does a program resume where it was? |
| `contexts_key` | `MCContexts` | and if Ctrl-C comes in another's slice? (violated) |
| `timers_run` | `Timers` | are wake-ups neither early nor lost? |
| `input_run` | `MCInputBuffer` | does the shell get, and the screen show, what is typed? |
| `files_run` | `MCFileTable` | do descriptors, reads, listings and paths mean what they say? |

### PhysMem

`availFrames` is a function from row and column to bits, as the code's array of
words; it extends over the rows reserved behind the bitmap (`allocateAHCI`),
because `markasFree` has no bound check and the boot loop writes there when the
machine has more memory than the bitmap covers.  `region` is the position of the
loop in `start()`; `initBitmap`, `markasFree`, `markasUsed` and `getFirstFrame`
translate the functions of those names.  `held` is a history variable: frames
handed out and not given back.  The kernel's stop after an exhausted `kmalloc`
(`memset` of `kernbase+0`, then a fault handler that spins) is `hung`.

- `NoDoubleAllocation`, `NoFrameLost`: over every order of allocations and
  releases a frame of a usable region is free or held, never both or neither.
- `AllocatableIsMapped`: what can be handed out is inside the window that
  `identityMapping` maps, whichever of its two ends applies.
- `ImplementsFrameAllocator`: the bitmap implements `FrameAllocator` with
  `free <- FreeFrames(...)`.

Visible in `initBitmap`, and part of the set `NoFrameLost` speaks of: the loop
visits the frame at `base+length` too, so the first page of the region behind a
usable one is handed out, whatever its type.

Instance: page size, row width and the first megabyte are the code's; the map
has six regions that show each case (hole, unusable, empty, both ends inside a
page, beyond the bitmap) and a dozen allocatable frames, few enough to run out.

### PageTables

A frame has a use and, as a table, entries; a virtual page is its four indices.
The kernel's window and the tables of `mapKernelMemory` are the initial state.
`Table` is one level of `mapPageForUser` ("present, else allocate, clear and link"),
used for three levels.  `getNewPML4ForUser` copies entry 511 of whatever PML4 is
loaded.  Any operation may come in any order on any structure, which is more than
fork, exec and the fault handler do with them.  `FreePageTables` keeps the flag bits
in the pointers it follows, reads beside the entries, and so releases the PDPTs
of the user's half and nothing below; `exec` releases no table of its caller
(`DropTables`).  Both leak pages, and neither breaks the properties:

- `WalksStayInTables`: an entry a walk may follow leads to a table of the next
  level in use, although released pages become tables again.
- `TablesAreExclusive`: no table is reached from two entries, but for the kernel's.
- `ProgramsReachOnlyData`: a program never reaches a table or a free page.
- `KernelHalfIsCommon`: the window is the same in every PML4, for ever.
- `ImplementsPageMapping`: the tables are one function from pages to frames per
  process, changed at one page at a time.

Instance: three entries per table stand for 512 (low, high, kernel), three user
pages of which two share a table and one needs every level of its own; 14 frames let
two processes be complete, end, and a third be built on what they released.

### AddressSpace

An area is a start and an end with the two marks of `malloc`, `areas` the lists of
them, `pte` the entries that a task's tables hold for user pages, `content` what is in
a frame.  `Visited` translates the page loop that starts at `v_start`.  `malloc` and `free`
are those of `Areas`, so what is behind a gap that is used again is cut off the list
(src/sys/task.c:833).  Pages of areas that are no longer in the list stay present and
writable, but `copyParentCr3Entries` does not visit them: a child does not get
them, and the end of the program does not release them.  The same holds of a
loaded page that no area has, as the environment's last ones.  The CPU's store, the
two kinds of page fault and a store by the kernel are separate actions; the store is
repeated after a fault.  `Sharers` is the count of tables with the same frame at the
same address in `_hndlr_isr14`.  `Freed` is `FreePageEntries`, with its look-up at the
physical address.

- `WritableIsExclusive`: a page that can be written without a fault is mapped
  nowhere else, in whatever order forks, faults and ends happen.
- `NoFreeFrameMapped`: a page a live process maps is not in the allocator.
- `ImplementsPrivateMemory`: shared frames and copies implement one memory per process
  (`PrivateMemory`): a store changes one process, and fork copies the pages that
  are `listed`.  `malloc` and `free` change what is listed and nothing that is stored
  (`Regroup`).
- violated: `NoFreeFrameMapped` in `space_exit` (a forked process that ends
  without exec releases its parent's pages).

`space_shell` has the programs behave as those of src/bin: only the shell forks, and
the child calls exec at once.  Instance: three structures, five frames, three
pages (image, heap, stack), two contents.  Two sharers and one copy are enough to
distinguish the outcomes of the fault; the third structure is the one exec needs.
The shell (`Allocators`) has up to two areas on the heap (`MaxAreas`, `HeapLimit`), so
that a gap is used again and what is behind it is cut off while its page is
present.  The lists of the first shell and of a program that exec starts have the two
orders of the code (see Heap).  `space_exit` has the page of the environment that
only the first shell's area covers in place of the image, and seven frames.

Not part of it: the pages that `setenv` stores on and maps (Exec has them); the page that
`free` releases by a wrong address; the end of a child by kill or Ctrl-C before its
exec, in `space_shell` (`CanEnd`).

### Areas and Heap

A list of areas has the order of the code, head first.  `malloc` translates the loop with
its break at a reusable gap and "newVma->next=NULL": the areas behind the gap leave
the list.  `free` unlinks by start address and marks the area in front.  `copyVMA` does not
copy the mark.  There are two lists to start from.  `initUserProcess` loads the first
shell before it appends the stack, which is last: `FirstAreas`.  `exec` puts the area of
arguments and environment in front and makes the stack before `loadFile` appends
the segments (src/sys/task.c:902): `ExecAreas` is arguments, stack, segments.  Four
programs use them: the first shell, a shell that was started for the keyboard and one
for a script, with their mallocs and frees of reading, splitting and running a
command, and one that does as it likes.

- `AreasAreApart`: arguments, image and stack stay in the list, and no two of the
  listed areas overlap.
- `NothingInUseIsLost`: a program that frees the youngest area first, and the shell,
  which frees in the wrong order but never uses what the list has lost, have all
  they use listed and apart.

The second is a statement about the programs as much as about `malloc`.  With the stack
last, freeing what follows marks the stack, behind which every size seems to fit; with a
segment last it is the segment, and the gap has a size.  `NothingInUseIsLost` holds for
both; a program that frees in another order may lose an area in use two calls later.
Instance: three sizes (so that a gap is too small, exact, or larger), three areas held,
three words in a command, the order of the sizes in sbush.c, and a limit of the
heap that leaves room for two commands.  `HeapAssumption` holds what loading gives:
`Starts` for both lists, that is segments in the order of their addresses, no marks,
and the stack above everything, wherever it is in the list; and `Limit`, which
bounds the heap, is not above the stack.

### Exec

A file is a list of segments; a cell of memory is a byte named by its distance from the
beginning of a file, zero, or what was there before.  `map_elf_file` copies page by page
into the first free frames.  It adds the segment's offset to a pointer to an
`Elf64_Ehdr` (src/sys/tarfs.c:156), so it reads at `HeaderSize` times the offset, 64 in
the code: only the first page of a segment at the file's beginning has the bytes that
belong there, and the names of the other cells go on behind the end of the file.  Then
it clears "p_memsz - p_filesz" bytes from `p_filesz` bytes behind the file's end on, by
the kernel's address, where the next frame follows.  `Scan` is one turn of the loop of
`parse_command`, whose array has `ArgumentBuffer` entries and never grows
(src/bin/sbush/sbush.c:172): with as many words or more it writes behind the array,
where the first word is.  `PushArgument` is one turn of `exec`'s loop.  `entry` is what is
on the pages of the environment, `pointers` how many of them the program was given.
`fork` gives a child the pages in the area: 32 of the first shell (`ShellCovered`), 31 of
a program that exec started (`Covered`, src/sys/task.c:1050), while `Slots`, 33, is the
number of places for pointers.  `setenv` writes in the kernel, past copy-on-write, so a
child that has not called exec sees what its parent sets (`shared`).  `setenv`, `fork`,
`exec` and `exit` are the actions.

- `ImagesAreIntact`: each loaded program has exactly its pages, with the bytes that
  were copied there and zeros behind them, whatever was loaded and ended since.  It
  says what those bytes are, scaled address included, and not that they are right.
- `ArgumentsArrive`: a command that starts a program has fewer words than the array, and
  the words typed are the arguments found, cut only if the page of 511 characters is
  full, and then from the first.
- `ImplementsDictionary`: the environments implement `Dictionary`, which says what is
  handed on: values cut to what `exec` copies, as many new names as the caller has
  pointers left (one more per generation), and nothing at all once they are more than
  the pages of the area: the child's exec then reads a page that is not there, in the
  kernel, and the machine stops (src/sys/idt.c:620), which `exec` shows by its
  guard `pointers[q] <= Len(entry[q])`.

`ExecAssumption` holds what the linker provides: segments start on pages of their
own, and one with memory behind its file part is at most a page with both.  Without it
the clearing goes into the next frame.  It also bounds a line by its buffer
(`LineBuffer`), 2000 bytes of a typed line and 64 of a script's.  `parse_command` takes
a one-letter first word for blanks, so such a command's name is another one; the
instance has this line.

Instance: two files of three pages over six frames of three cells (a third program
starts on released pages), three names, areas of four and three pages below five
places for pointers (the third program in a chain is given four pointers, and its
child, with three of the pages, starts nothing), six entries in all, room for six
words; four lines: one that just fits the page of arguments, one that overflows it and
has a background sign, one that is not found, and one with as many words as the array.
`SYMMETRY` is over the processes other than the shell and over two names that only
`setenv` uses.

### RunQueue

`next`, `pid_t`, `ppid_t`, `state` are the fields of `Task`; `runningThread`,
`deleteQueue`, `pidCount`, `foregroundPid` the globals.  Structures are never
freed by the code, so `Task` is the set of pages `kmalloc` can still provide and
bounds the number of forks and execs.  The `do ... while(temp != runningThread)`
walks are replaced by the set they visit (`Ring`) and `Pred`, the element the
loops stop at.  `waitFor` models the polling loop of the programs around
`waitpid`.  `UnknownCommands` switches `execNotFound` (exec of a missing file) on.

- `QueuesAreSound`: whatever system call or key relinks, the timer's walk closes and
  visits live structures, and no structure is in both queues.
- `PidsAreUnique`, `PidsAreNotReused`: numbers held by kill, wait and Ctrl-C name at
  most one process.
- `ImplementsRoundRobin`: the pointers implement a queue of process numbers; the
  refinement mapping follows `next` from `runningThread` and from `deleteQueue`.
- `WaitIsSound`, `WaiterGoesOn`: waiting ends after, and eventually after, the
  process does.  `WaitIsSound` leaves out a waiter that exec of a missing file
  restarts from its first frame: `execNotFound` abandons its wait.

Instance: four structures, so that the shell, two more and an exec between them
occur, without symmetry because progress is stated of each.  The waits are for
process 2 and for any.  Fairness: weak fairness of `runNextTask` (the timer cannot
be disabled by a program), and strong fairness of the poll of each waiter while it
runs: a waiting program only polls, and a slice of 3/19 second is more than a poll.  A
fork storm is bounded by the structures.

### Contexts

`Contexts` instantiates `RunQueue` as `Queue` and adds to each of its actions what
it does to kernel stacks and registers; `waitpid`, which touches neither, is left
out.  A position counts frames of 40 bytes from the end of a stack page, so
`kernelRsp`, `count` and `add` of the code become positions where a frame is
pushed and where it is looked for; reading another position than that of the last
frame gives `Nowhere`.  `rbx` stands for the registers that the timer and fork keep.
`at` is a history: where each program really is.

- `ResumesWhereItWas`: instruction pointer and registers of the running program
  are those of the point where it was interrupted, through switches, forks, ends,
  restarts and alarm handlers.  It relates four places that compute an address:
  the TSS, the save of `kernelRsp`, the frame of a new task and the frame the
  alarm rewrites.
- `StackIsBounded`: a kernel stack sinks only by restarts.
- violated: `ResumesWhereItWas` in `contexts_key`: Ctrl-C during another process's
  slice switches without storing that process's registers.

Instance: three structures (a fork with an exec, or two forks and two failed execs),
two points.  In `contexts_run` Ctrl-C comes while the process it ends runs;
`contexts_key` lifts this.  Not modelled: r8 to r15, which no switch keeps
(src/sys/idt.s:78), and rbp, which fork does not give to the child.

### Timers

`i` and `j` are the two counters of the handler; one action per branch: a second's
tick, the end of a slice, any other tick.  The ring is fixed (RunQueue covers
changes of it).  `ranFor`, `sleptFor`, `armedFor` are histories that count
ticks.  `getCounter` is the poll of `sleep()`.

- `SliceIsBounded`: the tick that completes a second skips the test for the end
  of the slice, but no process runs for two full slices.
- `NoneWakesEarly`: sleeps and alarms are never more than a second early, across
  alarms that replace one another.
- `AlarmHasHandler`: an alarm that counts always has a handler to jump to.
- `WakeUpsCome`: every sleep ends, and every alarm that is due goes off.

Instance: two processes, three ticks to a second and two to a slice (19 and 3 in
the code; coprime too, so every phase of the two occurs), and 0, 1 and 2 seconds.
Fairness: the timer ticks (`WF`), and a process that runs again and again
polls (`SF` of `getCounter` for each): a slice of 3/19 second is more than
the loop of `sleep()` takes.

### InputBuffer and Console

Positions are offsets from the start of the page, of 4096 bytes; `readline` counts lines
that are complete; the byte before and the bytes behind the page are there because
`handleBackspace` and `writeChar` reach them.  A key without a case of its own writes
what the tables have for it, which is NUL for NumLock, the 5 of the keypad and others
(src/sys/idt.c:242); the reader takes a NUL for the end of a line and for an empty
buffer.  A key is one action with its
handler; `getchar` is one `read(0,&c,1)` with one turn of `read_command()`.

`Console` has the screen as a function from cells to characters with `line_adr`,
`next_line_adrs` and `v_line_count`, and one operator per case of `kprintf`.
`InputBuffer` composes the two: each key that is stored is shown, and programs print
between keys (`writeFile`).

- `ImplementsTerminal`: until the page is used a second time, the shell takes each
  entered line once and in order, with backspace and typing ahead in between.  A line
  is one command unless it has a NUL or is longer than `CommandLimit` (2000,
  src/bin/sbush/sbush.c:247): then it is taken in pieces, and `Terminal` says which.
- `NoStuckModifier`: a flag is never left set by a release in any order.
- `BarsAreKept`: text never reaches the row of the bars.
- `EchoIsLine`: what is left of the cursor is the line Enter will give to the
  shell, over the ends of rows, scrolling, and backspaces that go back over both.
- `ImplementsPaper`: cells and counters implement a roll of paper (`Paper`): the end of
  what was printed, with the oldest lines lost.

`StepBack` takes a row off the cursor and not off `v_line_count`; `Paper` counts that as
a line lost for good.  Some two dozen of them would take the cursor of the code's
screen to its top; the bounds stay below that.

Instance: a page of five bytes and four characters typed, so that lines of length zero
to four and several lines occur and the page is used once; the keys are H and C, which
also have a meaning with Control, a key that writes NUL, Space, Enter and Backspace;
`CommandLimit` is zero, so that every line of more than one character is taken in
pieces; one text of programs, one right shift key and Control; a screen of five rows
of two cells that starts at the fourth, so that a line wraps, scrolls and is erased
over both.  `Slack` is the number of cells in front of the screen that are part of the
model; no cursor goes that far (`InputTypes`).  Not reached: `writeChar` stores a
character before it looks at the positions, so with no complete line to read the
writer goes on behind the page after its warning; and the reader wraps one byte behind
the page (src/sys/idt.c:770).

### TarArchive and FileTable

A path is a sequence of names and slashes, an address counts cells; a block has
`Block` cells (512 in the code) and a cell is NUL or not, which is all that
`memread` looks at.  Walks from header to header become the set of headers from an
address on.  `fd_pointers`, `fd_count` and `slot` are the fields of `Task` and of `struct
fileDescriptor`; `fork` copies the pointers, exec gives one new page, and the pages
are never freed.  `opened` and `listed` are histories: what a program may rely on,
and what `readdir` has returned.

- `DescriptorsStay`, `NoneIsGivenTwice`: over opens and closes on pages that a
  forked child also points to, a descriptor stays what was opened until its
  close, and a DIR pointer leads back to its descriptor (`get_fd`).
- `ReadsStayInside`: reads of any number end with the file.
- `ListingIsExact`: one name and an offset are enough to return every entry of a
  directory once, and `getdents` and `readdir`, two loops, return the same names.
- `PathsResolve`: `remove_dotslash` against the stack of names a path means, in every
  directory `chdir` reaches; and `get_executable_path` against the first file of a
  command's name in the working directory and those of PATH.

`get_executable_path` reads PATH from an array on the kernel's stack.  Behind the last
directory its index is one past the NUL, so the search goes on in what earlier calls
left there.  `Leftovers` is what that may be: zeros, or the rest of a longer PATH, which
brings back a directory that PATH no longer has.  A trailing colon prevents it.

Limits the properties name: a file that fills its last block has no NUL behind it;
a path like `/.` opens the zero block at the end of the archive under an empty name,
which leaves the descriptor free (src/sys/tarfs.c:468); the root's listing has one
entry without a name.  The instance has no path of the second kind.  As in src/bin
only the shell forks and its children call exec at once, so a program never works on
pages another program works on.

Instance: a directory in a directory with a file of two blocks, and in it one more
directory and one more file of that name, two values of PATH, two descriptors on
a page with number 0 reserved, two pages, three structures: the shell uses three
descriptors on two pages, or two programs use a page each.  A read asks for more than
the file has.

## 3. Proofs

`PhysMemProofs` proves, for every BIOS map, size of the bitmap, reserved area and
size of the window that satisfies the assumptions of `PhysMem`:

| theorem | statement |
|---|---|
| `TypeCorrect` | `Spec => []TypeOK` |
| `PagesAreExclusive` | `Spec => []NoDoubleAllocation` |
| `MemoryIsConserved` | `Spec => []NoFrameLost` |
| `WindowCoversMemory` | `Spec => []AllocatableIsMapped` |
| `BitmapImplementsAllocator` | `Spec => Abstract!Spec` |

The argument: lemmas about rows and columns (a frame is determined by its row and
column, the scan returns a free frame if one exists, marking changes one bit)
reduce the bitmap to the set of its free frames.  The invariant adds to the type
invariant that held frames are not free, that during the boot loop nothing is
held, that free and held frames are those of the regions read so far, and that
they lie below the end of the last region read.  `AllocatableIsMapped` alone is
not inductive: the window is fixed when the loop has ended, so the relation to
the regions must be carried through the loop.

Assumptions: the kernel's image is above one megabyte (linker script); the map
is ascending and a usable region does not reach beyond the reserved rows; sizes
are natural numbers.

`PageTablesProofs` proves, for any sets of processes, frames, indices and pages, and any
contents of the kernel's window:

| theorem | statement |
|---|---|
| `NoWalkIntoReleased` | `Spec => []WalksStayInTables` |
| `NoTableIsShared` | `Spec => []TablesAreExclusive` |
| `DataOnly` | `Spec => []ProgramsReachOnlyData` |
| `CommonKernel` | `Spec => []KernelHalfIsCommon` |
| `TablesImplementMapping` | `Spec => ImplementsPageMapping` |

The state is a pair of memory and roots (`Good(m, R)`), because one action maps
several pages in turn.  `Walks` and `Exclusive` must be carried together: that a walk
stays in tables needs that a table just taken is not one already linked, and that a
PDPT that `FreePageTables` releases is reached by nobody needs exclusiveness.  The
tables that are followed are those of live roots and all PDPTs and PDTs in use,
also those that an ended process has left: they are never walked, but their
entries still name pages, and a theorem about live tables only would not survive
their neighbours' release.  `WalksMeet` (two walks to the same table took the same
entries) then gives that changing one entry changes one page of one process, which is
the refinement's `Map`; `TableKeeps` gives that adding a level changes none.  The
steps of three levels are one lemma applied three times.

`AddressSpaceProofs` proves, for any sets of processes, frames and pages, any areas
of the image and any page size, under the hypothesis `OnlyShellForks`:

| theorem | statement |
|---|---|
| `CopyOnWriteIsPrivate` | `Spec => []WritableIsExclusive` |
| `MappedIsNotFree` | `Spec => []NoFreeFrameMapped` |
| `CopyOnWriteImplementsMemory` | `Spec => ImplementsPrivateMemory`, if also `KernelBuffers \subseteq {StackPage}` |

The hypothesis is needed: without it `space_exit` violates the second.  The
invariant `MapInv` adds what the fault handler and the release rely on and do not
check.  A frame has the same page number in every table that maps it
(`SamePageNumber`): the handler counts sharers at the faulting address only, and a
sharer elsewhere would be missed.  Only the shell and tasks forked since, not yet
exec'ed, share frames (`ProgramsAreAlone`): the release finds no sharer, so it is
right only when there is none.  A task outside the run queue maps nothing, and a
writable entry is present.  Each action is an instance of one of six lemmas about
tables (a fresh entry, the last sharer, a task that leaves, exec, fork, no change);
`malloc` and `free` change no table.

For the refinement the lists of areas matter: the child gets what the loops over them
visit.  No theorem says that all present pages are listed, because it is not so.  What
is needed is that an area lies in front of the stack or is the stack's (`Good`), which
`malloc` keeps wherever it cuts the list and whatever it marks, because `HeapLimit <=
StackStart`; and that a stack which is listed is present, and one that is present is
nobody else's (`StacksAreAlone`): `fork` copies it when it is listed and does not hand
it over otherwise.  `MallocForm` and `FreeForm` say what the two calls leave of a
list, `ListedParts` that fork shares or copies what is listed and nothing else.  Then
`Cell(t, p)`, the content that task `t` sees at page `p`, changes where the abstract
step says and nowhere else: `StoreSeen`, `FreshPage`, `ForkSeen`, `ExecSeen`,
`LeavingSeen` and, for the lists, `RegroupSeen` state it for every task and page.

The second hypothesis is about stores of the kernel (the `read` system call): nothing
under src/sys sets CR0.WP, so the read-only bit does not stop them, and one into a
shared page would be seen by two programs.  The shell's loop for the keyboard
reads into its stack, which is never shared.  Its loop for a script reads into a
byte from `malloc` (src/bin/sbush/sbush.c:103); a child started in the background
shares that page until it calls exec.  The theorem does not speak of this loop.

`DevicesProofs` proves, for any number of processes and any rate with
`TicksPerSecond > TicksPerSlice`:

| theorem | statement |
|---|---|
| `SlicesAreBounded` | `TimerSpec => []SliceIsBounded` |
| `AlarmsHaveHandlers` | `TimerSpec => []AlarmHasHandler` |
| `NobodyWakesEarly` | `TimerSpec => NoneWakesEarly` |

The handler tests `j % TicksPerSlice` in an `else` branch, so a slice that ends with
a second is missed and `j` runs on.  `CountersInv` says where the counters are then:
`j >= TicksPerSlice` implies `i = j - TicksPerSlice`, so the next multiple comes before
the second is full, and `j < 2 * TicksPerSlice`.  `AlarmHasHandler` is inductive
together with the types of the running task and of the two fields of an alarm.

`EarlyInv` relates each count to the history of ticks behind it (`Old`).  A count starts
at 1, in the middle of a second, and its first second may be a single tick: a count of
`c >= 2` is as old as `c - 2` full seconds, one tick, and the ticks of the second
that runs.  That the running second must be in it (`i`) is what makes the invariant
inductive at a second's tick.  The arguments have a greatest member
(`TimerAssumption`): they are ints in the code, and counts and histories stop at it
(`UpTo`).

The same module proves, for every size of the buffer, width and height of the screen,
and any number of characters, keys and printed texts, also where the buffer wraps
or overflows:

| theorem | statement |
|---|---|
| `NoneStaysDown` | `Spec => []NoStuckModifier` |
| `InputTypes` | `Spec => []TypeOK` |
| `BarsStay` | `Spec => []BarsAreKept` |

`InRow(screen, r)` says that the cursor is in row `r` of the screen and that the count
of rows covers it; each character keeps it for a row that is not above, and a
backspace for one that is above by one at most.  The rows are bounded from below
by the buffer: a backspace is shown only if it moves the writer back, and the room
it has for that (`Erasable`) grows by at most two with a character, so the cursor is
never more than `2 * TypedLimit` rows above the screen's first (`RowInv`).  Texts are
read by induction over their characters: two iterations with the same steps agree
(`SameIteration`), and one exists (`TextIsShown`).

`Timers` names its state and steps `Timer...` so that one module can extend both.

Until the buffer is used a second time the module also follows the lines.  The
hypothesis is `FirstUse == TypedLimit < Size`, a bound on the characters of a whole
history (4096 in the code); behind it the reader meets bytes of older lines, and
the two properties speak only of the time before:

| theorem | statement |
|---|---|
| `TerminalImplemented` | `FirstUse => (Spec => ImplementsTerminal)` |
| `EchoStays` | `FirstUse => (Spec => []EchoIsLine)` |

`TerminalInv` adds to the types that the reader is behind the writer, that `readline`
is the number of ends of lines between them, and that what the shell has read belongs
to a line that is complete.  A NUL may be among the characters: the shell takes it for
an end of its command, and what is behind it is the next one.  The entered lines are
those between the places of the ends of lines, in their order (`Place`, the member of
a set of numbers that has so many up to it), and the first goes on behind what the
shell has of it (`EnteredOf`).  Each of the five changes of the buffer then has a
lemma that says what becomes of the lines: a character (`TypeLine`), Enter
(`EnterLine`), backspace (`EraseLine`), reading the end of a line (`ReadEnd`) or
another character (`ReadMore`), with the spaces and NULs in front that the shell drops
(`TrimmedSpace`) and the pieces of a line that is not taken whole.  The echo needs one
fact more of the screen, that a character goes to the cell left of the new cursor and
moves the others by whole rows (`PutEcho`).

| theorem | statement |
|---|---|
| `PaperImplemented` | `PlainOutput => (Spec /\ []CursorOnScreen => ImplementsPaper)` |

A screen with its cursor in row `r` stands for a sheet of paper (`SheetAt`): the rows
before `r`, row `r` up to the cursor, and as lost the rows that `v_line_count` counts
beyond `r`.  Each case of a character then takes the sheet to what `Paper` types
(`PutSheet`, `EndLineSheet`, `StartSheet`, `StepBackSheet`); where a row ends, the line
is appended to those above, and a scroll drops the first (`CheckedSheet`, `RowsScrolled`).
Over a text the sheets of the screens between are the values of the recursive function
`Printed` (`StringSheet`, `PrintedIs`).  There are two hypotheses, and no bound on keys,
texts or rows.  `PlainOutput`: texts of programs have no backspace, as in src/bin; a
string shows one as a character (only a format knows it, src/sys/kprintf.c:199).
`CursorOnScreen`: the cursor is not taken back over the first row of the screen, which
`StepBack` does not prevent (section 2); in the instance it never is, since `Paper` has
no step for it.

`RunQueueProofs` proves, for any finite set of structures and any set of numbers that
are waited for, with and without failing execs:

| theorem | statement |
|---|---|
| `QueuesStaySound` | `Spec => []QueuesAreSound` |
| `PidsStayUnique` | `Spec => []PidsAreUnique` |
| `PidsAreFresh` | `Spec => PidsAreNotReused` |
| `WaitStaysSound` | `Spec => WaitIsSound` |
| `LinksImplementRoundRobin` | `Spec => ImplementsRoundRobin` |

A cycle is described without counting: a set that `next` does not leave, in which `next`
is injective and no smaller set is closed (`IsCycle`); a chain likewise.  Insertion
behind the running structure, removal and replacement keep a cycle, and appending
keeps a chain; every call of task.c is one or two of these.  The two queues stay apart
because a structure is unlinked from the ring before `next` is used for the
`deleteQueue`: the same field serves both.  `QueueInv` adds that numbers of both
queues are at most `pidCount`, which makes new ones fresh.

For the refinement, the structures are listed by a sequence in the order of `next`
(`RingOrder`, `DeadOrder`); `OrderInv` says that both queues have such a listing.  That
the walk of `Chain` meets what is listed, in that order, is shown with least numbers;
each action then is an insertion, a removal or a rotation of the listing, and so of
the process numbers that `RoundRobin` keeps.

`ContextsProofs` proves, over the same structures and any set of points:

| theorem | statement |
|---|---|
| `GoesOnWhereItWas` | `Spec => []ResumesWhereItWas`, under `KeysHitForeground` |
| `StackSinksNoFurther` | `Spec => []StackIsBounded` |

It instantiates `RunQueueProofs` over the variables of `Contexts` (`QueueAssumption` is
what the theorems about the queue assume), shows that the names by which `Contexts`
refers to the queue mean the same, and takes `QueueInv` from there.
`ContextInv` says that the frame of each task that does not run is where the switch
will look for it (`Good`: `kernelRsp`, `count` and the pushed frame agree) and that
an alarm's handler returns to where it took over (`Own`); `contexts_key` shows that the
hypothesis is needed.  The bound of the stack needs none: `StackInv` counts the failed
execs, each of which drops a structure, and a stack sinks by one with each at most.

`FileTableProofs` proves, for any numbers of processes, pages and descriptors, any
archive, paths, commands and values of PATH:

| theorem | statement |
|---|---|
| `OpenedStaysOpened` | `Spec => []DescriptorsStay` |
| `NoneTwice` | `Spec => NoneIsGivenTwice` |
| `ReadsEndWithData` | `Spec => []ReadsStayInside` |
| `PathsAreResolved` | `Spec => []PathsResolve` |
| `ListingsAreExact` | `Spec => []ListingIsExact` |

`FilesInv` has what `get_fd`, `open` and `close` rely on and do not check: a page is
pointed to from one place among programs that make calls (a child shares the pages
of the shell only until its exec); the pages fill `fd_pointers` from the front, and
`fd_count` covers them, which is how far `get_fd` looks; the pointer of a stream is
its own place.  The arithmetic of descriptor, page and place is `PageAndPlace` and
`DescriptorOf`.

`InsideInv` says of each descriptor that holds a file where its offset may be: from the
start of the data to the end of the entry's blocks, and to the first NUL if the
last block has one.  It needs to know where the headers are (`AddressIs`,
`AddressGrows`: no two entries share a cell) and what a path is resolved to: the
name that `open` stores is the one it has found a header by, and not the root's.

For `PathsResolve` the working directory stays one that the archive has
(`CwdInv`, `StaysInDirectory`).  The rest is about the recursive functions of
`TarArchive`, over paths of any length.  A path leads through stacks of names
(`IsWalk`); the output of `remove_dotslash` behind each element is the
stack, spelled, or the stack without its last slash (`OutputOf`, `OutputStep`), and
going back in it is dropping a name (`SpelledBack`).  The directories of PATH lie in
the text one behind the other (`JoinLies`, `LieOn`), each time round the loop reads the
next (`NextDirectory`), and with a NUL behind the last colon it ends there
(`TriedStart`); without the colon it goes on, but behind those of PATH.

`getDirEntries` compares a name with the one before it only.  A listing is still
without repetition (`ListOnce`), because the headers below a directory are next to
each other (`NamesInGroups`, `SubdirectoryRun`), and each header adds one name at its
end or none (`ListGrows`).  `ListingInv` says that every open stream is behind a header
of its directory, has returned the list up to there and keeps the last name of it
(`StandsAt`); the walk of `readdir` and `getdents` over the headers ahead returns the
next name (`AheadIs`, `NextName`, `OnlySame`), and where none is ahead the list is that of
the whole directory (`StandsExactly`).  `FilesInv` is needed for it: a stream that
another program could move would lose its place.

The assumptions: paths are sequences of names and slashes without two names next to each
other (`IsPath`), names of the archive and of commands have no double slashes and
no dots (`IsPlain`), directories of PATH are `/` or such a name behind it, as in
the PATH that the shell sets, and what the stack holds ends somewhere in a NUL.  The
archive is not empty, no name occurs twice, the directories of an entry are entries, and
what is below a directory follows it without a gap: find and tar write it so
(src/Makefile:60), and without the last of these a name could be listed twice.

`ProgramsProofs` proves of `Heap`, for any segments, sizes, and numbers of words and areas,
and for both orders of the list that a program starts with:

| theorem | statement |
|---|---|
| `ListIsInOrder` | `Spec => []AreasAreApart` |
| `NothingIsLost` | `Spec => []NothingInUseIsLost` |

Leaving out the stack's entry, which is second or last of what was loaded
(`StackPlace`), the list is in the order of the addresses (`ListInv`): a new area
starts above all those that stay in the list, also when it goes into a gap, because
the areas behind the gap are dropped.  Only the last of the loaded areas can be
marked; if that is the stack, what is added behind it starts above the last segment.
That nothing in use is dropped is a property of the callers.  `ShellInv` says where
the areas of the shell's words are, and that there is one gap at most, behind which
nothing is in use and into which the first `malloc` of the next command fits;
`OtherInv` is the order in which a careful program holds its areas.  The loop of
`malloc` is reduced to the place where it stops (`StopsAt`), found as a least number.

The same module proves of `Exec`, for any processes, files, names, values and commands:

| theorem | statement |
|---|---|
| `EnvironmentsAreDictionaries` | `ExecSpec => ImplementsDictionary` |
| `ImagesStayIntact` | `ExecSpec => []ImagesAreIntact` |
| `ArgumentsDoArrive` | `ExecSpec => []ArgumentsArrive` |

`EnvironmentInv` says that the pages of each process hold variables up to the first
empty entry, no name twice, that a program which has called exec has no more pointers
than pages, and that a forked child sees its parent's first pages (`Sees`).  The walks
of `getenv` and `setenv` then find the one entry of a name (`VariableIs`,
`NoVariable`), `WithVariable` changes or adds one (`PutMeans`), for the children that
see it too (`SeenIsPut`), a child's pages are the beginning of its parent's
(`ForkMeans`), and the copy that `exec` makes has the names that the pointers lead to,
with values that are cut (`StartMeans`).  The specification and what it builds on are
named `Exec...` (`ExecSpec`) where `Heap` has the plain name, so that one module can
extend both.

For the images, `ImageInv` says that the tables of two processes are the same or have no
frame in common, and are apart once both have called `exec`.  A page of a segment goes
to a free frame, of which there are enough because `exec` has counted them
(`SumsOfNumbers`); the rest of a segment is cleared through the kernel's window, where
frames follow each other, and stays in the segment's only page (`FrameOfCell`,
`ClearedBehind`): that is where the assumption on segments with variables is needed.
So `loadFile` changes no frame that any process maps (`FileLoaded`).

For the arguments, the scan of `parse_command` is compared with the words of the line
after each character (`Aligned`): the last word is between the start and the last
character, unless that is a blank.  A line whose first word has one letter is the
exception: its first argument begins with a blank (`Blanked`), and no file has such a
name, so that `exec` does not find it.  A line with as many words as the array or more
has something else in the place of its first word, which names no file either.  The
page of arguments only grows, and a string that is on it ends at its own NUL and stays
(`Holds`, `StringIs`, `HoldsStays`); what has been pushed is at most the bytes of the
arguments, which gives that all fit (`Packing`).

Only model-checked is liveness (`WaiterGoesOn`, `WakeUpsCome`), which the prover does not
support: every other property of the runs that hold is a theorem, some under the
hypotheses named above.

The induction theorems of the library take an operator as a parameter, which none of the
provers instantiates, and a fold of the community modules takes one too.  What is
computed step by step is therefore a recursive function in the modules; the proofs
show by induction over a set that there is a function with these steps
(`FileTableProofs`, `DevicesProofs`, `ProgramsProofs`).

## 4. Deviations

The runs show:

1. A forked process that ends releases its parent's pages (`space_exit`).
2. Ctrl-C loses the registers of the process it interrupts (`contexts_key`).

Visible in the definitions, without a run:

- exec of a missing file restarts the next task of the ring (`execNotFound`);
- a store of the kernel goes through a page that is shared and read only
  (`KernelWrite`; section 3, `CopyOnWriteImplementsMemory`);
- a full input buffer is written behind its end (`writeChar`);
- `waitpid(-1)` looks for siblings of the caller (`StillAlive`);
- only the first page of an area is supplied on demand (`isPartofCurrentVma`);
- the page at the end of a usable region is handed out (`initBitmap`);
- `malloc` that reuses a gap drops the areas behind it from the list (`Areas`): their pages
  stay present, but a child does not get them and they are never released
  (`Inherited`, `Freed` of `AddressSpace`);
- the pages of a segment, but for the first one of a file, are copied from 64 times
  their place in the file (`CopyPage`);
- more than 31 words in a command are written behind the array for them, over the first
  word (`parse_command`);
- NumLock and other keys without a character write a NUL, which splits a line
  (`KeyDefault`, `Collect`); a command ends behind 2001 characters, which with their NUL
  are more than the 2000 bytes allocated for them, and the next character is lost;
- a variable that is set changes the environment of a child that has not called exec
  (`setenv`);
- the tables below a PDPT are never released (`FreePageTables`), nor are any of a
  process that calls exec (`DropTables`);
- a variable set after the pointers of a program are used up is not handed on; and where
  the pointers lead to more pages than the area holds, 32 of the first shell and 31 of
  others, the exec of a child reads a page that is not there and stops the machine
  (`ForkedEntries`, and the guard of `exec`);
- a command of one letter is looked up under the word behind it (`Scan`);
- the search for a command that is in no directory of PATH goes on in what the
  kernel's stack held, unless PATH ends in a colon (`DirectoriesTried`).

## 5. Not modelled, and the plan

Not modelled: device set-up (PIC, PIT, PCI, and AHCI, whose call is commented out in
src/sys/main.c:50), the dispatch table of system calls, conversions of numbers and
colours on the screen, the bars at the bottom, the clock's registers, the boot
loader's scripts (third-party), and src/libc/env.c, which is commented out as a whole.
The checks of an ELF header (src/sys/tarfs.c:183) are left out: the files are those of
the build.  Also left out: a line of 2000 characters or more (64 in a script), which
runs into what is allocated behind its buffer; that a buffer for a command is there to
be written (`read_command`); and the end of a forked child before its exec, other than
in `space_exit`.  `exec` of `Exec` is that of a file that is found.  `free`'s release
of a page (src/sys/task.c:1131) computes an address with scaled arithmetic; it needs
the absolute addresses of the window, which no module has.  `alarm` that replaces one
that is due returns a number below zero (src/sys/task.c:1479); nothing uses it.
