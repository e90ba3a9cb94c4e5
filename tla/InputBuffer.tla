------------------------------ MODULE InputBuffer -----------------------------
(***************************************************************************)
(* The standard input: the keyboard handler and the ring buffer it fills   *)
(* (src/sys/idt.c), the read of descriptor 0 (src/sys/tarfs.c), and the    *)
(* loop in which the shell collects a command (src/bin/sbush/sbush.c).     *)
(* The handler shows each key on the screen, where programs print too.     *)
(***************************************************************************)
EXTENDS Console, FiniteSetsExt

CONSTANTS
    Size,          \* bytes of the buffer, 0x1000 in the code
    Letter,        \* characters of the keys without a meaning of their own
    Modifier,      \* the modifier keys there are
    CommandLimit,  \* characters behind which a command ends, 2000 in the code
    TypedLimit,    \* bound: the characters that are typed
    Output,        \* texts that programs print
    Warning,       \* what writeChar() prints when the buffer is full
    FirstRows,     \* the rows in which the kernel's own lines may end
    PrintLimit     \* bound: the texts that are printed

Space == Blank
\* Keys with a meaning of their own when Control is down.
CtrlKey == {"h", "c"}
\* The characters of keys without a case of their own, NUL for those that have none
\* in the tables (NumLock, the 5 of the keypad, ...), and all that lines consist of.
Key == Letter \cup CtrlKey \cup {Nul}
Char == Key \cup {Space}

ASSUME InputAssumption ==
    /\ Size \in Nat \ {0, 1}
    /\ TypedLimit \in Nat
    /\ CommandLimit \in Nat
    /\ Letter \cap {Newline, Return, Backspace, Space, Nul} = {}    \* see Key
    /\ Modifier \subseteq {"leftShift", "rightShift", "control"}
    /\ FirstRows \subseteq 0 .. (Rows - 1)
    /\ Output \cup {Warning} \subseteq Seq(STRING)
    /\ \A k \in DOMAIN Warning : Warning[k] # Backspace
    /\ Slack >= Width * (2 * TypedLimit)
    /\ PrintLimit \in Nat

VARIABLES
    input,         \* the buffer and its positions, from the start of the page
    shift, control,
    down,          \* the modifier keys that are held down
    inputStr,      \* what the shell has read of its next command
    command,       \* the last command it read
    typed,         \* characters put into the buffer so far
    screen,        \* the text on the screen, see Console
    printed,       \* texts printed by programs so far
    interrupted    \* history: the line being typed has other text in or behind it

keyVars == <<shift, control, down>>
shellVars == <<inputStr, command>>
screenVars == <<screen, printed, interrupted>>
vars == <<input, keyVars, shellVars, typed, screenVars>>

\* The bytes at -1 and from Size on are not part of the page.
Position == -1 .. (Size + TypedLimit)

-------------------------------------------------------------------------------
Readable(s) ==
    /\ s.readline > 0
    /\ \/ s.writePosition > s.readPosition /\ s.indicator = 0
       \/ s.readPosition > s.writePosition /\ s.indicator = 1

NextChar(s) == IF Readable(s) THEN s.buf[s.readPosition] ELSE Nul

\* Mutant: the count of lines goes down with every character.
readCharAnyLine(s) ==
    IF ~Readable(s) THEN s
    ELSE LET wraps == s.readPosition = Size IN
         [s EXCEPT !.buf[s.readPosition] = Nul,
                   !.readPosition = IF wraps THEN 0 ELSE @ + 1,
                   !.indicator = IF wraps THEN 0 ELSE @,
                   !.readline = @ - 1]

\* What readChar() leaves; NextChar is what it returns.
readChar(s) ==
    IF ~Readable(s) THEN s
    ELSE LET wraps == s.readPosition = Size IN
         [s EXCEPT !.buf[s.readPosition] = Nul,
                   !.readPosition = IF wraps THEN 0 ELSE @ + 1,
                   !.indicator = IF wraps THEN 0 ELSE @,
                   !.readline = IF NextChar(s) = Newline THEN @ - 1 ELSE @]

\* writeChar(c): at the end of the page a character is read, and writing
\* goes on at the start when the reader has left it.
writeChar(s, c) ==
    LET stored  == [s EXCEPT !.buf[s.writePosition] = c, !.writePosition = @ + 1]
        read    == IF stored.writePosition = Size THEN readChar(stored) ELSE stored
        wrapped == IF stored.writePosition = Size /\ read.readPosition # 0
                     THEN [read EXCEPT !.writePosition = 0, !.indicator = 1]
                     ELSE read
        full    == IF wrapped.writePosition = wrapped.readPosition - 1
                     THEN [wrapped EXCEPT !.indicator = 1] ELSE wrapped
    IN  [full EXCEPT !.readline = IF c = Newline THEN @ + 1 ELSE @]

\* handleBackspace() removes the last character unless it ends a line.
handleBackspace(s) ==
    CASE s.writePosition = s.readPosition ->
            [s EXCEPT !.buf[s.writePosition] = Nul]
      [] /\ s.writePosition > s.readPosition
         /\ s.indicator = 0
         /\ s.buf[s.writePosition - 1] # Newline ->
            [s EXCEPT !.writePosition = @ - 1, !.buf[s.writePosition - 1] = Nul]
      [] /\ s.readPosition > s.writePosition
         /\ s.indicator = 1
         /\ s.buf[s.writePosition - 1] # Newline ->
            IF s.writePosition = 0
              THEN [s EXCEPT !.writePosition = Size, !.indicator = 0,
                             !.buf[Size] = Nul]
              ELSE [s EXCEPT !.writePosition = @ - 1,
                             !.buf[s.writePosition - 1] = Nul]
      [] OTHER -> s

\* The ends of lines between the positions, in their order, and what is between two
\* positions; behind the last end is the line that is being typed.
Newlines(s) == {k \in s.readPosition .. (s.writePosition - 1) : s.buf[k] = Newline}
EndsUpTo(s, k) == {l \in Newlines(s) : l <= k}
End(s, n) ==
    IF n = 0 THEN s.readPosition - 1
    ELSE Min({k \in Newlines(s) : Cardinality(EndsUpTo(s, k)) = n})
Between(s, from, to) == [k \in 1 .. (to - from - 1) |-> s.buf[from + k]]
Nth(s, n) == Between(s, End(s, n - 1), End(s, n))
LastEnd(s) == Max({s.readPosition - 1} \cup Newlines(s))
LineTyped(s) == Between(s, LastEnd(s), s.writePosition)

-------------------------------------------------------------------------------
\* set_input_buf(), and a screen with the kernel's first lines.
Init ==
    /\ input = [buf |-> [p \in Position |-> Nul], writePosition |-> 0,
                readPosition |-> 0, indicator |-> 0, readline |-> 0]
    /\ shift = 0 /\ control = 0
    /\ down = {}
    /\ inputStr = <<>> /\ command = <<>>
    /\ typed = 0
    /\ screen \in {ScreenAt(row) : row \in FirstRows}
    /\ printed = 0
    /\ interrupted = FALSE

\* What writeChar() prints when it leaves the positions as in s.
Warnings(s) == (IF s.writePosition = Size THEN Warning ELSE <<>>)
            \o (IF s.writePosition = s.readPosition - 1 THEN Warning ELSE <<>>)

\* Enter and Space are written before they are shown, the other keys after.
Typed(c) ==
    LET s == writeChar(input, c)
        text == IF c \in {Newline, Space} THEN Warnings(s) \o <<c>>
                ELSE <<c>> \o Warnings(s)
    IN  /\ typed < TypedLimit
        /\ typed' = typed + 1
        /\ input' = s
        /\ screen' = kprintf(screen, text)
        /\ interrupted' = (LineTyped(s) # <<>> /\ (interrupted \/ Len(text) > 1))
        /\ UNCHANGED <<keyVars, shellVars, printed>>

\* The key Backspace.  It is shown only if it takes a character off the buffer.
Erase ==
    LET s == handleBackspace(input) IN
    /\ input' = s
    /\ screen' = IF s.writePosition = input.writePosition THEN screen
                 ELSE kprintf(screen, <<Backspace>>)
    /\ interrupted' = (LineTyped(s) # <<>> /\ interrupted)
    /\ UNCHANGED <<keyVars, shellVars, typed, printed>>

\* The keys Enter and Space write whatever is held down.
KeyText(c) == c \in {Newline, Space} /\ Typed(c)

\* Another key: Shift wins over Control; with Control, H erases, C ends the
\* process in the foreground (see RunQueue), and no key writes.
KeyDefault(c) ==
    IF shift = 1 \/ control = 0 THEN Typed(c)
    ELSE IF c = "h" THEN Erase
    ELSE UNCHANGED vars

\* A program prints, write(1, text) and write(2, text).
writeFile(text) ==
    /\ printed < PrintLimit
    /\ printed' = printed + 1
    /\ screen' = kprintfString(screen, text)
    /\ interrupted' = (LineTyped(input) # <<>>)
    /\ UNCHANGED <<input, keyVars, shellVars, typed>>

ModifierDown(k) ==
    /\ down' = down \cup {k}
    /\ shift' = IF k = "control" THEN shift ELSE 1
    /\ control' = IF k = "control" THEN 1 ELSE control
    /\ UNCHANGED <<input, shellVars, typed, screenVars>>

\* Mutant: the key on the right has no case of its own.
ModifierUpLeft(k) ==
    /\ k \in down
    /\ down' = down \ {k}
    /\ shift' = IF k = "leftShift" THEN 0 ELSE shift
    /\ control' = IF k = "rightShift" THEN control ELSE 0
    /\ UNCHANGED <<input, shellVars, typed, screenVars>>

\* The cases of the switch fall through: every release clears control.
ModifierUp(k) ==
    /\ k \in down
    /\ down' = down \ {k}
    /\ shift' = IF k = "control" THEN shift ELSE 0
    /\ control' = 0
    /\ UNCHANGED <<input, shellVars, typed, screenVars>>

\* One turn of the loop of read_command() with the character c.
Collect(c) ==
    \/ /\ inputStr # <<>>
       /\ c = Nul \/ (Len(inputStr) > CommandLimit)
       /\ command' = inputStr /\ inputStr' = <<>>
    \/ /\ inputStr = <<>> /\ c \in {Nul, Space}
       /\ UNCHANGED shellVars
    \/ /\ c # Nul /\ (inputStr = <<>> => c # Space) /\ Len(inputStr) <= CommandLimit
       /\ inputStr' = Append(inputStr, c)
       /\ UNCHANGED command

\* Mutant: the end of the line is handed to the program.
getcharKeepsNewline ==
    /\ Collect(NextChar(input))
    /\ input' = readChar(input)
    /\ UNCHANGED <<keyVars, typed, screenVars>>

\* getchar() of the shell: one read(0, &c, 1), which turns the end of the
\* line into NUL, and what read_command() does with it.
getchar ==
    /\ Collect(IF NextChar(input) = Newline THEN Nul ELSE NextChar(input))
    /\ input' = readChar(input)
    /\ UNCHANGED <<keyVars, typed, screenVars>>

Next ==
    \/ \E c \in {Newline, Space} : KeyText(c)
    \/ \E c \in Key : KeyDefault(c)
    \/ Erase
    \/ \E k \in Modifier : ModifierDown(k) \/ ModifierUp(k)
    \/ getchar
    \/ \E text \in Output : writeFile(text)

Spec == Init /\ [][Next]_vars

-------------------------------------------------------------------------------
TypeOK ==
    /\ input \in [buf : [Position -> Char \cup {Newline}],
                  writePosition : 0 .. (Size + TypedLimit),
                  readPosition : 0 .. Size,
                  indicator : {0, 1}, readline : Nat]
    /\ shift \in {0, 1} /\ control \in {0, 1}
    /\ down \subseteq Modifier
    /\ inputStr \in Seq(Char \ {Nul})
    /\ command \in Seq(Char \ {Nul})
    /\ typed \in 0 .. TypedLimit
    /\ screen.line_adr \in Cells
    /\ screen.v_line_count \in 1 .. Rows

\* A modifier counts as held only while one of its keys is: the releases
\* never leave one stuck, in whatever order keys go down and up.
NoStuckModifier ==
    /\ shift = 1 => down \cap {"leftShift", "rightShift"} # {}
    /\ control = 1 => "control" \in down

Trimmed(s) ==
    LET Solid == {k \in 1 .. Len(s) : s[k] \notin {Space, Nul}} IN
    IF Solid = {} THEN <<>> ELSE SubSeq(s, Min(Solid), Len(s))

Entered ==
    [n \in 1 .. Cardinality(Newlines(input)) |->
        IF n = 1 /\ inputStr # <<>> THEN inputStr \o Nth(input, 1)
        ELSE Trimmed(Nth(input, n))]

Lines == INSTANCE Terminal WITH
    line    <- LineTyped(input),
    entered <- Entered

\* Until the buffer is used for the second time, the commands the shell reads are the
\* lines as they were entered, a line with a NUL in it or of more characters than the
\* loop takes in pieces: the count of lines that a reader waits for, backspace, and
\* the NUL that is a key, the end of a line and "nothing to read" agree.
ImplementsTerminal == Lines!Spec

\* The bars are not overwritten, wherever rows end, are taken back and scroll: the
\* count of rows is never behind the row the cursor is in.
BarsAreKept == \A p \in Cells : p >= TextEnd => screen.cell[p] = Bar

\* What is left of the cursor is the line that Enter will give to the shell, over
\* the ends of rows, scrolling and backspaces that go back over both: unless
\* something else was printed meanwhile, or the line has scrolled away.
EchoIsLine ==
    LET line == LineTyped(input)
        at(k) == screen.line_adr - Len(line) + k - 1
    IN  ~interrupted =>
            \A k \in DOMAIN line : at(k) >= 0 => screen.cell[at(k)] = line[k]

Row == (screen.next_line_adrs \div Width) - 1
Shown(from, to) == [k \in 1 .. (to - from) |-> screen.cell[from + k - 1]]

\* What keys print, with a warning or without.
Echoes == {<<c>> : c \in Char \cup {Newline}}
     \cup {Warning \o <<c>> : c \in {Newline, Space}}
     \cup {<<c>> \o Warning : c \in Key}

Roll == INSTANCE Paper WITH
    Texts <- Output \cup Echoes \cup {<<Backspace>>},
    above <- [r \in 1 .. Row |-> Shown((r - 1) * Width, r * Width)],
    line  <- Shown(Row * Width, screen.line_adr),
    lost  <- screen.v_line_count - (Row + 1)

\* Two pointers and a count of rows show the end of all that was printed: above
\* the cursor nothing is lost but the oldest lines.
ImplementsPaper == Roll!Spec
===============================================================================
