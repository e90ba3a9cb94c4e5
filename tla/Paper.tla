--------------------------------- MODULE Paper ---------------------------------
(***************************************************************************)
(* What the console shows of the text that is printed: the lines above the *)
(* current one, the oldest gone first, and the current line up to the      *)
(* cursor.  A backspace that goes back over the end of a line costs one    *)
(* line of the screen for good.                                            *)
(***************************************************************************)
EXTENDS Integers, Sequences, SequencesExt

CONSTANTS Width, Rows, Texts, Newline, Return, Backspace, Blank

VARIABLES above,    \* the lines above the current one that are visible
          line,     \* the current line, left of the cursor
          lost      \* lines of the screen that are no longer used

paperVars == <<above, line, lost>>

Sheet == [above |-> above, line |-> line, lost |-> lost]

EndOfLine(s, last) ==
    LET all == Append(s.above, last) IN
    [s EXCEPT !.above = IF Len(all) + s.lost < Rows THEN all ELSE Tail(all),
              !.line = <<>>]

Typed(s, c) ==
    CASE c = Newline ->
            EndOfLine(s, s.line \o [k \in 1 .. (Width - Len(s.line)) |-> Blank])
      [] c = Return -> [s EXCEPT !.line = <<>>]
      [] c = Backspace /\ s.line # <<>> -> [s EXCEPT !.line = Front(@)]
      [] c = Backspace /\ s.line = <<>> ->
            [above |-> Front(s.above), line |-> Front(Last(s.above)),
             lost |-> s.lost + 1]
      [] OTHER -> IF Len(s.line) + 1 = Width THEN EndOfLine(s, Append(s.line, c))
                  ELSE [s EXCEPT !.line = Append(@, c)]

Init ==
    /\ line = <<>>
    /\ lost = 0

Printed(text) ==
    LET sheet[n \in 0 .. Len(text)] ==
            IF n = 0 THEN Sheet ELSE Typed(sheet[n - 1], text[n])
    IN sheet[Len(text)]

\* A backspace is printed alone, and with something to take back.
Emit(text) ==
    /\ text = <<Backspace>> => above # <<>> \/ line # <<>>
    /\ LET sheet == Printed(text) IN
       /\ lost' = sheet.lost
       /\ line' = sheet.line
       /\ above' = sheet.above

Next == \E text \in Texts : Emit(text)

Spec == Init /\ [][Next]_paperVars
===============================================================================
