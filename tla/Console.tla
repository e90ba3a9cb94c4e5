-------------------------------- MODULE Console --------------------------------
(***************************************************************************)
(* The text on the screen as kprintf() of src/sys/kprintf.c leaves it: the *)
(* cells, where the next character goes, where its row ends, and a count   *)
(* of the rows that decides when the screen scrolls.                       *)
(*                                                                         *)
(* An address counts cells (a character and a colour) from the start of    *)
(* the screen.  The row behind the text holds the bars for clock and keys. *)
(* Formats are left out: a text is what its conversions have produced.     *)
(***************************************************************************)
EXTENDS Integers, Sequences

CONSTANTS
    Width, Rows,   \* of the text, 80 and 24 in the code
    Slack          \* bound: cells in front of the screen that are looked at

ASSUME ConsoleAssumption ==
    /\ Width \in Nat \ {0}
    /\ Rows \in Nat \ {0}
    /\ Slack \in Nat

Newline == "\n"
Return == "\r"
Backspace == "^H"
Blank == " "
Nul == "0"
Bar == "="

TextEnd == Width * Rows
Cells == -Slack .. (TextEnd + Width - 1)

-------------------------------------------------------------------------------
\* A screen with its cursor at the start of a row, as the kernel's first lines
\* leave it.
ScreenAt(row) ==
    [cell |-> [p \in Cells |-> IF p < TextEnd THEN Nul ELSE Bar],
     line_adr |-> row * Width,
     next_line_adrs |-> (row + 1) * Width,
     v_line_count |-> row + 1]

Scrolled(cell) ==
    [p \in Cells |-> IF p \in 0 .. (TextEnd - Width - 1) THEN cell[p + Width]
                     ELSE IF p \in (TextEnd - Width) .. (TextEnd - 1) THEN Nul
                     ELSE cell[p]]

\* Mutant: one row more before the screen scrolls.
check_if_line_fullLate(s) ==
    IF s.line_adr # s.next_line_adrs THEN s
    ELSE IF s.v_line_count <= Rows
    THEN [s EXCEPT !.v_line_count = @ + 1, !.next_line_adrs = @ + Width]
    ELSE [s EXCEPT !.cell = Scrolled(@), !.line_adr = s.next_line_adrs - Width]

\* Mutant: the cursor goes on in the last row.
check_if_line_fullLastRow(s) ==
    IF s.line_adr # s.next_line_adrs THEN s
    ELSE IF s.v_line_count < Rows
    THEN [s EXCEPT !.v_line_count = @ + 1, !.next_line_adrs = @ + Width]
    ELSE [s EXCEPT !.cell = Scrolled(@), !.line_adr = TextEnd - Width,
                   !.next_line_adrs = TextEnd]

\* At the end of a row: the next one, or, if the count of rows is used up, the
\* same one of a screen that has scrolled.  The count goes on without effect.
check_if_line_full(s) ==
    IF s.line_adr # s.next_line_adrs THEN s
    ELSE IF s.v_line_count < Rows
    THEN [s EXCEPT !.v_line_count = @ + 1, !.next_line_adrs = @ + Width]
    ELSE [s EXCEPT !.cell = Scrolled(@), !.line_adr = s.next_line_adrs - Width]

\* A character without a meaning of its own.
Put(s, c) ==
    check_if_line_full([s EXCEPT !.cell[s.line_adr] = c, !.line_adr = @ + 1])

EndLine(s) ==
    check_if_line_full(
        [s EXCEPT !.cell = [p \in Cells |->
                      IF p \in s.line_adr .. (s.next_line_adrs - 1) THEN Blank ELSE @[p]],
                  !.line_adr = s.next_line_adrs])

StartOfLine(s) == [s EXCEPT !.line_adr = s.next_line_adrs - Width]

\* Mutant: the end of the row stays where it was.
StepBackInRow(s) ==
    [s EXCEPT !.line_adr = @ - 1, !.cell[s.line_adr - 1] = Blank]

\* At the start of a row the one above becomes the current one, but it is not
\* taken off the count of rows.
StepBack(s) ==
    [s EXCEPT !.next_line_adrs = IF s.line_adr = @ - Width THEN @ - Width ELSE @,
              !.line_adr = @ - 1,
              !.cell[s.line_adr - 1] = Blank]

\* One character of a format, and of a string or character that is formatted:
\* only the first knows backspace.
Format(s, c) ==
    CASE c = Newline -> EndLine(s)
      [] c = Return -> StartOfLine(s)
      [] c = Backspace -> StepBack(s)
      [] OTHER -> Put(s, c)

Formatted(s, c) ==
    CASE c = Newline -> EndLine(s)
      [] c = Return -> StartOfLine(s)
      [] OTHER -> Put(s, c)

\* kprintf(text), and kprintf("%s", text), character by character.
kprintf(s, text) ==
    LET shown[n \in 0 .. Len(text)] ==
            IF n = 0 THEN s ELSE Format(shown[n - 1], text[n])
    IN shown[Len(text)]

kprintfString(s, text) ==
    LET shown[n \in 0 .. Len(text)] ==
            IF n = 0 THEN s ELSE Formatted(shown[n - 1], text[n])
    IN shown[Len(text)]
===============================================================================
