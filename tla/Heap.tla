--------------------------------- MODULE Heap ---------------------------------
(***************************************************************************)
(* The areas of a process (the list memMap.mmap of VMAs) as malloc() and   *)
(* free() of src/sys/task.c change them, under two programs: the shell,    *)
(* with the mallocs and frees of its two loops, and a program that         *)
(* allocates and frees in any order.                                       *)
(*                                                                         *)
(* Addresses count units; the sizes of sbush.c keep their order.  The page *)
(* that free() releases and the pages of the VMAs themselves are left out. *)
(***************************************************************************)
EXTENDS Areas

CONSTANTS
    FirstAreas,     \* the areas of the first shell when it starts
    ExecAreas,      \* those of a program that exec() starts
    Sizes,          \* of the areas the other program allocates
    CommandSize, LineSize, CharSize, ArgsSize,   \* of those of the shell
    TokenSizes,
    MaxTokens,      \* bound: the words of a command
    MaxHeld,        \* bound: the areas the other program holds
    Limit           \* bound: the end of the highest area

\* exec() puts the area of arguments and environment in front and the stack
\* behind it, before loadFile() appends the segments of the program, which a
\* linker lists by their addresses.  initUserProcess() loads the segments of the
\* first shell before it appends the stack.  The stack is above everything.
Starts(list, stack) ==
    /\ list \in Seq(VMA) /\ Len(list) >= 3
    /\ \A k \in DOMAIN list : /\ list[k].start < list[k].end
                              /\ list[k].grows_down <=> k = stack
                              /\ ~list[k].isNextFreed
    /\ \A k \in DOMAIN list : \A j \in 1 .. k - 1 :
            j # stack => list[j].end <= list[k].start
    /\ \A k \in DOMAIN list : k # stack => list[k].end <= list[stack].start
    /\ Limit <= list[stack].start

\* The line of a script is smaller than the array for its words (sbush.c:8, 12).
ASSUME HeapAssumption ==
    /\ Sizes \subseteq Nat \ {0}
    /\ {CommandSize, LineSize, CharSize, ArgsSize} \cup TokenSizes \subseteq Nat \ {0}
    /\ LineSize <= ArgsSize
    /\ Starts(FirstAreas, Len(FirstAreas))
    /\ Starts(ExecAreas, 2)
    /\ Limit \in Nat /\ MaxTokens \in Nat /\ MaxHeld \in Nat

VARIABLES
    program,        \* "first" and "keyboard" shells read keys, "script" a file
    mmap,           \* the list of areas
    held,           \* what the program has allocated and still uses
    step,           \* of the shell: "prompt", "words" or "run"
    inOrder         \* every free() so far was of the youngest area

vars == <<program, mmap, held, step, inOrder>>

Keyboards == {"first", "keyboard"}
ShellLoops == Keyboards \cup {"script"}

Loaded == IF program = "first" THEN FirstAreas ELSE ExecAreas

-------------------------------------------------------------------------------
Fits(list) == list[Len(list)].end <= Limit

Block(list, use) ==
    [start |-> list[Len(list)].start, end |-> list[Len(list)].end, use |-> use]

\* The loop over a script starts by reading a line that it ignores.
Init ==
    /\ program \in ShellLoops \cup {"other"}
    /\ program = "script" =>
        LET line == malloc(Loaded, LineSize)
        IN Fits(line) /\ Fits(malloc(line, CharSize))
    /\ mmap = IF program = "script" THEN malloc(malloc(Loaded, LineSize), CharSize)
              ELSE Loaded
    /\ held = <<>>
    /\ step = "prompt"
    /\ inOrder = TRUE

\* A program that allocates, frees and forks as it likes; after fork() it is the
\* child that is followed.
Malloc(size) ==
    LET list == malloc(mmap, size) IN
    /\ program = "other"
    /\ Len(held) < MaxHeld
    /\ Fits(list)
    /\ mmap' = list
    /\ held' = Append(held, Block(list, "any"))
    /\ UNCHANGED <<program, step, inOrder>>

Free(k) ==
    /\ program = "other"
    /\ mmap' = free(mmap, held[k].start)
    /\ held' = RemoveAt(held, k)
    /\ inOrder' = (inOrder /\ k = Len(held))
    /\ UNCHANGED <<program, step>>

Fork ==
    /\ program = "other"
    /\ mmap' = copyVMA(mmap)
    /\ UNCHANGED <<program, held, step, inOrder>>

\* read_command() and, of a script, read_line(), with parse_command()'s array.
\* main()'s test for an empty command is never true: read_command() goes on
\* until it has a character.
ReadCommand ==
    LET line == malloc(mmap, CommandSize)
        list == malloc(line, ArgsSize)
    IN /\ program \in Keyboards
       /\ step = "prompt"
       /\ Fits(line) /\ Fits(list)
       /\ mmap' = list
       /\ held' = <<Block(line, "command"), Block(list, "com_args")>>
       /\ step' = "words"
       /\ UNCHANGED <<program, inOrder>>

\* parse_command() of an empty line returns NULL and leaves its array allocated.
EmptyLine ==
    LET line == malloc(mmap, LineSize)
        char == malloc(line, CharSize)
        list == malloc(char, ArgsSize)
    IN /\ program = "script"
       /\ step = "prompt"
       /\ Fits(line) /\ Fits(char) /\ Fits(list)
       /\ mmap' = list
       /\ UNCHANGED <<program, held, step, inOrder>>

ReadLine ==
    LET line == malloc(mmap, LineSize)
        char == malloc(line, CharSize)
        list == malloc(char, ArgsSize)
    IN /\ program = "script"
       /\ step = "prompt"
       /\ Fits(line) /\ Fits(char) /\ Fits(list)
       /\ mmap' = list
       /\ held' = <<Block(line, "command"), Block(list, "com_args")>>
       /\ step' = "words"
       /\ UNCHANGED <<program, inOrder>>

\* token(): one word of the command.
Token(size) ==
    LET list == malloc(mmap, size) IN
    /\ program \in ShellLoops
    /\ step = "words"
    /\ Len(held) < 2 + MaxTokens
    /\ Fits(list)
    /\ mmap' = list
    /\ held' = Append(held, Block(list, "token"))
    /\ UNCHANGED <<program, step, inOrder>>

\* The words are complete, at least one; the command runs in a child.
Execute ==
    /\ program \in ShellLoops
    /\ step = "words"
    /\ Len(held) > 2
    /\ step' = "run"
    /\ UNCHANGED <<program, mmap, held, inOrder>>

\* main() frees the command, except that of a script, and the array; the words
\* stay allocated, but nothing uses them.
FreeCommand ==
    /\ program \in ShellLoops
    /\ step = "run"
    /\ mmap' = free(IF program = "script" THEN mmap ELSE free(mmap, held[1].start),
                    held[2].start)
    /\ held' = <<>>
    /\ step' = "prompt"
    /\ UNCHANGED <<program, inOrder>>

Next ==
    \/ \E size \in Sizes : Malloc(size)
    \/ \E k \in DOMAIN held : Free(k)
    \/ Fork
    \/ ReadCommand
    \/ EmptyLine
    \/ ReadLine
    \/ \E size \in TokenSizes : Token(size)
    \/ Execute
    \/ FreeCommand

Spec == Init /\ [][Next]_vars

-------------------------------------------------------------------------------
Apart(a, b) == a.end <= b.start \/ b.end <= a.start
Listed(b) == \E k \in DOMAIN mmap : mmap[k].start = b.start /\ mmap[k].end = b.end

\* Whatever malloc() cuts off the list, it never loses the arguments, the image
\* or the stack, and the areas that are left never overlap: the fault handler
\* finds them by where they start.
AreasAreApart ==
    /\ Len(mmap) >= Len(Loaded)
    /\ \A k \in DOMAIN Loaded : /\ mmap[k].start = Loaded[k].start
                                /\ mmap[k].end = Loaded[k].end
    /\ \A j, k \in DOMAIN mmap : j < k => Apart(mmap[j], mmap[k])

Sound == /\ \A k \in DOMAIN held : Listed(held[k])
         /\ \A j, k \in DOMAIN held : j < k => Apart(held[j], held[k])

\* A program that frees the youngest area first, across any number of forks,
\* loses none and is given none twice: the gaps it leaves are of size zero.  The
\* shell frees in the wrong order, so that malloc() drops the words of the
\* previous command from the list; what the current command uses is all listed
\* and nothing of it overlaps, whether the mark that stays behind the image is
\* the stack's, behind which every size fits, or that of the last segment.
NothingInUseIsLost == inOrder \/ program \in ShellLoops => Sound
===============================================================================
