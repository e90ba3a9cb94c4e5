---------------------------- MODULE DevicesProofs ----------------------------
(***************************************************************************)
(* The interrupts of the keyboard and of the timer.  Keyboard: modifiers,  *)
(* the positions of the input buffer and the rows of the screen, for every *)
(* size of buffer and screen and any number of characters and texts; the   *)
(* lines that go from the keys to the shell, and their echo, until the     *)
(* buffer wraps; and the screen as the end of a roll of paper.  Timer:     *)
(* slices, sleeps and alarms, for any rates of its counters.               *)
(*                                                                         *)
(* For the paper, a screen with its cursor in row r stands for a sheet     *)
(* (SheetAt): the rows before r, row r up to the cursor, and the lines     *)
(* that v_line_count counts and the cursor has left.  Each character takes *)
(* the sheet to what Paper types; over a text, the sheets of the screens   *)
(* between are the ones of the recursive function there.                   *)
(***************************************************************************)
EXTENDS InputBuffer, Timers, TLAPS, WellFoundedInduction, SequenceTheorems, FiniteSetTheorems

\* A modifier that is held down is released with its own key.
THEOREM NoneStaysDown == Spec => []NoStuckModifier
<1>1. Init => NoStuckModifier
  BY DEF Init, NoStuckModifier
<1>2. NoStuckModifier /\ [Next]_vars => NoStuckModifier'
  <2> SUFFICES ASSUME NoStuckModifier, [Next]_vars PROVE NoStuckModifier'
    OBVIOUS
  <2>1. ASSUME NEW k \in Modifier, ModifierDown(k)
        PROVE  NoStuckModifier'
    <3>1. k \in {"leftShift", "rightShift", "control"}
      BY InputAssumption
    <3> QED BY <2>1, <3>1 DEF ModifierDown, NoStuckModifier
  <2>2. ASSUME NEW k \in Modifier, ModifierUp(k)
        PROVE  NoStuckModifier'
    <3>1. down' = down \ {k} /\ shift' = (IF k = "control" THEN shift ELSE 0) /\ control' # 1
      BY <2>2, SMT DEF ModifierUp
    <3>2. CASE k = "control"
      <4>1. shift' = 1 => down \cap {"leftShift", "rightShift"} # {}
        BY <3>1, <3>2 DEF NoStuckModifier
      <4>2. \A l \in {"leftShift", "rightShift"} : l # k
        BY <3>2
      <4> QED BY <3>1, <4>1, <4>2 DEF NoStuckModifier
    <3>3. CASE k # "control"
      <4>1. shift' # 1
        BY <3>1, <3>3, SMT
      <4> QED BY <3>1, <4>1 DEF NoStuckModifier
    <3> QED BY <3>2, <3>3
  <2>3. CASE UNCHANGED keyVars
    BY <2>3 DEF keyVars, NoStuckModifier
  <2>4. [\/ \E c \in {Newline, Space} : KeyText(c)
         \/ \E c \in Key : KeyDefault(c)
         \/ Erase
         \/ getchar
         \/ \E text \in Output : writeFile(text)]_vars => UNCHANGED keyVars
    BY DEF KeyText, KeyDefault, Typed, Erase, getchar, writeFile, vars
  <2> QED BY <2>1, <2>2, <2>3, <2>4 DEF Next
<1> QED BY <1>1, <1>2, PTL DEF Spec

-------------------------------------------------------------------------------
(* The rows of the screen. *)

\* Rows lie behind each other.
LEMMA RowsGrow ==
    ASSUME NEW a \in Int, NEW b \in Int
    PROVE  /\ Width * a \in Int /\ Width * (a + 1) = Width * a + Width
           /\ a <= b => Width * a <= Width * b
           /\ Width * a < Width * b => a < b
<1>1. Width \in Nat \ {0}
  BY ConsoleAssumption
<1>2. Width * a \in Int /\ Width * (a + 1) = Width * a + Width
  BY <1>1, SMT
<1>3. a <= b => Width * a <= Width * b
  BY <1>1, SMT
<1>4. b <= a => Width * b <= Width * a
  BY <1>1, SMT
<1> QED BY <1>1, <1>2, <1>3, <1>4, SMT

\* A screen with its cursor in row r, counted from 0, or at its end; the count of
\* rows covers that row, and the bars are there.
OnRow(s, r) ==
    /\ s = [cell |-> s.cell, line_adr |-> s.line_adr, next_line_adrs |-> s.next_line_adrs,
            v_line_count |-> s.v_line_count]
    /\ s.cell = [p \in Cells |-> s.cell[p]]
    /\ s.next_line_adrs = Width * (r + 1)
    /\ s.line_adr \in Int /\ Width * r <= s.line_adr /\ s.line_adr <= s.next_line_adrs
    /\ s.v_line_count \in 1 .. Rows /\ r < s.v_line_count
    /\ \A p \in Cells : p >= TextEnd => s.cell[p] = Bar

\* Between two characters the cursor is not at the end of its row.
InRow(s, r) == OnRow(s, r) /\ s.line_adr < s.next_line_adrs

\* The text ends behind the last row.
LEMMA TextEndIs ==
    ASSUME NEW r \in Int, NEW v \in 1 .. Rows, r < v
    PROVE  Width * (r + 1) <= TextEnd /\ TextEnd \in Nat
<1>1. Rows \in Nat /\ Width \in Nat
  BY ConsoleAssumption
<1>2. r + 1 \in Int /\ r + 1 <= Rows
  BY <1>1, SMT
<1> QED BY <1>1, <1>2, RowsGrow, SMT DEF TextEnd

\* The bars do not scroll.
LEMMA ScrolledBars ==
    ASSUME NEW cell, \A p \in Cells : p >= TextEnd => cell[p] = Bar
    PROVE  \A p \in Cells : p >= TextEnd => Scrolled(cell)[p] = Bar
<1>1. TextEnd \in Nat /\ Width \in Nat /\ Cells \subseteq Int
  BY ConsoleAssumption, SMT DEF TextEnd, Cells
<1> QED BY <1>1, SMT DEF Scrolled

\* At the end of a row the cursor goes to the next one, or the screen scrolls.
LEMMA CheckedRow ==
    ASSUME NEW s, NEW r \in Int, OnRow(s, r)
    PROVE  \E q \in Int : r <= q /\ InRow(check_if_line_full(s), q)
<1> DEFINE c == check_if_line_full(s)
<1>1. /\ Width \in Nat \ {0} /\ Rows \in Nat /\ Width * r \in Int
      /\ Width * (r + 1) = Width * r + Width
      /\ Width * ((r + 1) + 1) = Width * (r + 1) + Width
  BY RowsGrow, ConsoleAssumption, SMT
<1>2. CASE s.line_adr # s.next_line_adrs
  <2>1. c = s
    BY <1>2 DEF check_if_line_full
  <2> QED BY <1>1, <1>2, <2>1, SMT DEF OnRow, InRow
<1>3. CASE s.line_adr = s.next_line_adrs /\ s.v_line_count < Rows
  <2>1. c = [s EXCEPT !.v_line_count = @ + 1, !.next_line_adrs = @ + Width]
    BY <1>3 DEF check_if_line_full
  <2>2. c = [cell |-> s.cell, line_adr |-> s.line_adr, next_line_adrs |-> s.next_line_adrs + Width,
             v_line_count |-> s.v_line_count + 1]
    BY <2>1 DEF OnRow
  <2>3. InRow(c, r + 1)
    BY <1>1, <1>3, <2>2, SMT DEF OnRow, InRow
  <2> QED BY <2>3, SMT
<1>4. CASE s.line_adr = s.next_line_adrs /\ ~(s.v_line_count < Rows)
  <2>1. c = [s EXCEPT !.cell = Scrolled(@), !.line_adr = s.next_line_adrs - Width]
    BY <1>4 DEF check_if_line_full
  <2>2. c = [cell |-> Scrolled(s.cell), line_adr |-> s.next_line_adrs - Width,
             next_line_adrs |-> s.next_line_adrs, v_line_count |-> s.v_line_count]
    BY <2>1 DEF OnRow
  <2>3. /\ Scrolled(s.cell) = [p \in Cells |-> Scrolled(s.cell)[p]]
        /\ \A p \in Cells : p >= TextEnd => Scrolled(s.cell)[p] = Bar
    <3>1. \A p \in Cells : p >= TextEnd => s.cell[p] = Bar
      BY DEF OnRow
    <3>2. \A p \in Cells : p >= TextEnd => Scrolled(s.cell)[p] = Bar
      BY <3>1, ScrolledBars
    <3> QED BY <3>2 DEF Scrolled
  <2>4. InRow(c, r)
    BY <1>1, <1>4, <2>2, <2>3, SMT DEF OnRow, InRow
  <2> QED BY <2>4, SMT
<1> QED BY <1>2, <1>3, <1>4

\* Each case of a character.
LEMMA PutRow ==
    ASSUME NEW s, NEW c, NEW r \in Int, InRow(s, r)
    PROVE  \E q \in Int : r <= q /\ InRow(Put(s, c), q)
<1>u. PICK u : u = [s EXCEPT !.cell[s.line_adr] = c, !.line_adr = @ + 1]
  OBVIOUS
<1>0. s = [cell |-> s.cell, line_adr |-> s.line_adr, next_line_adrs |-> s.next_line_adrs,
            v_line_count |-> s.v_line_count]
  BY DEF InRow, OnRow
<1>1. u = [cell |-> [s.cell EXCEPT ![s.line_adr] = c], line_adr |-> s.line_adr + 1,
           next_line_adrs |-> s.next_line_adrs, v_line_count |-> s.v_line_count]
  BY <1>0, <1>u
<1>2. /\ TextEnd \in Nat /\ s.next_line_adrs <= TextEnd /\ s.next_line_adrs \in Int
      /\ Width * r \in Int
  <2>1. r < s.v_line_count /\ s.v_line_count \in 1 .. Rows /\ s.next_line_adrs = Width * (r + 1)
    BY DEF InRow, OnRow
  <2>2. r + 1 \in Int
    BY SMT
  <2>3. Width * r \in Int /\ Width * (r + 1) \in Int
    BY <2>2, RowsGrow
  <2> QED BY <2>1, <2>3, TextEndIs
<1>3. u.cell = [p \in Cells |-> u.cell[p]] /\ \A p \in Cells : p >= TextEnd => u.cell[p] = Bar
  <2>1. ASSUME NEW p \in Cells, p >= TextEnd PROVE p # s.line_adr
    BY <1>2, <2>1, SMT DEF InRow, OnRow, Cells
  <2> QED BY <1>1, <2>1 DEF InRow, OnRow
<1>4. OnRow(u, r)
  BY <1>1, <1>2, <1>3, SMT DEF InRow, OnRow
<1>5. check_if_line_full(u) = Put(s, c)
  BY <1>u DEF Put
<1> QED BY <1>4, <1>5, CheckedRow

\* The end of a line fills its row.
LEMMA EndLineRow ==
    ASSUME NEW s, NEW r \in Int, InRow(s, r)
    PROVE  \E q \in Int : r <= q /\ InRow(EndLine(s), q)
<1> DEFINE blanks == [p \in Cells |->
                        IF p \in s.line_adr .. (s.next_line_adrs - 1) THEN Blank ELSE s.cell[p]]
<1>u. PICK u : u = [s EXCEPT !.cell = blanks, !.line_adr = s.next_line_adrs]
  OBVIOUS
<1>0. s = [cell |-> s.cell, line_adr |-> s.line_adr, next_line_adrs |-> s.next_line_adrs,
            v_line_count |-> s.v_line_count]
  BY DEF InRow, OnRow
<1>1. u = [cell |-> blanks, line_adr |-> s.next_line_adrs,
           next_line_adrs |-> s.next_line_adrs, v_line_count |-> s.v_line_count]
  BY <1>0, <1>u
<1>2. /\ TextEnd \in Nat /\ s.next_line_adrs <= TextEnd /\ s.next_line_adrs \in Int
      /\ Width * r \in Int
  <2>1. r < s.v_line_count /\ s.v_line_count \in 1 .. Rows /\ s.next_line_adrs = Width * (r + 1)
    BY DEF InRow, OnRow
  <2>2. r + 1 \in Int
    BY SMT
  <2>3. Width * r \in Int /\ Width * (r + 1) \in Int
    BY <2>2, RowsGrow
  <2> QED BY <2>1, <2>3, TextEndIs
<1>3. u.cell = [p \in Cells |-> u.cell[p]] /\ \A p \in Cells : p >= TextEnd => u.cell[p] = Bar
  <2>1. ASSUME NEW p \in Cells, p >= TextEnd PROVE p \notin s.line_adr .. (s.next_line_adrs - 1)
    BY <1>2, <2>1, SMT DEF InRow, OnRow, Cells
  <2> QED BY <1>1, <2>1 DEF InRow, OnRow
<1>4. check_if_line_full(u) = EndLine(s)
  BY <1>u DEF EndLine
<1>5. OnRow(u, r)
  BY <1>1, <1>2, <1>3, SMT DEF InRow, OnRow
<1> QED BY <1>4, <1>5, CheckedRow

\* A return stays in the row.
LEMMA StartRow ==
    ASSUME NEW s, NEW r \in Int, InRow(s, r)
    PROVE  InRow(StartOfLine(s), r)
<1>0. s = [cell |-> s.cell, line_adr |-> s.line_adr, next_line_adrs |-> s.next_line_adrs,
            v_line_count |-> s.v_line_count]
  BY DEF InRow, OnRow
<1>1. StartOfLine(s) = [cell |-> s.cell, line_adr |-> s.next_line_adrs - Width,
           next_line_adrs |-> s.next_line_adrs, v_line_count |-> s.v_line_count]
  BY <1>0 DEF StartOfLine
<1>2. Width \in Nat \ {0} /\ Width * r \in Int /\ Width * (r + 1) = Width * r + Width
  BY RowsGrow, ConsoleAssumption
<1> QED BY <1>1, <1>2, SMT DEF InRow, OnRow

\* A step back may go to the row above.
LEMMA StepBackRow ==
    ASSUME NEW s, NEW r \in Int, InRow(s, r)
    PROVE  \E q \in Int : r - 1 <= q /\ InRow(StepBack(s), q)
<1>u. PICK u : u = StepBack(s)
  OBVIOUS
<1> DEFINE above == s.line_adr = s.next_line_adrs - Width
<1>0. s = [cell |-> s.cell, line_adr |-> s.line_adr, next_line_adrs |-> s.next_line_adrs,
            v_line_count |-> s.v_line_count]
  BY DEF InRow, OnRow
<1>1. u = [cell |-> [s.cell EXCEPT ![s.line_adr - 1] = Blank], line_adr |-> s.line_adr - 1,
           next_line_adrs |-> IF above THEN s.next_line_adrs - Width ELSE s.next_line_adrs,
           v_line_count |-> s.v_line_count]
  BY <1>0, <1>u DEF StepBack
<1>2. /\ TextEnd \in Nat /\ s.next_line_adrs <= TextEnd /\ s.next_line_adrs \in Int
      /\ Width * r \in Int
  <2>1. r < s.v_line_count /\ s.v_line_count \in 1 .. Rows /\ s.next_line_adrs = Width * (r + 1)
    BY DEF InRow, OnRow
  <2>2. r + 1 \in Int
    BY SMT
  <2>3. Width * r \in Int /\ Width * (r + 1) \in Int
    BY <2>2, RowsGrow
  <2> QED BY <2>1, <2>3, TextEndIs
<1>3. u.cell = [p \in Cells |-> u.cell[p]] /\ \A p \in Cells : p >= TextEnd => u.cell[p] = Bar
  <2>1. ASSUME NEW p \in Cells, p >= TextEnd PROVE p # s.line_adr - 1
    BY <1>2, <2>1, SMT DEF InRow, OnRow, Cells
  <2> QED BY <1>1, <2>1 DEF InRow, OnRow
<1>4. /\ Width \in Nat \ {0} /\ Width * r \in Int /\ Width * (r + 1) = Width * r + Width
      /\ Width * (r - 1) \in Int /\ Width * r = Width * (r - 1) + Width
  <2>1. r - 1 \in Int /\ (r - 1) + 1 = r
    BY SMT
  <2> QED BY <2>1, RowsGrow, ConsoleAssumption
<1>5. CASE above
  <2>1. r - 1 \in Int /\ (r - 1) + 1 = r /\ r - 1 <= r - 1 /\ r - 1 < r
    BY SMT
  <2>2. InRow(u, r - 1)
    BY <1>1, <1>3, <1>4, <1>5, <2>1, SMT DEF InRow, OnRow
  <2> QED BY <1>u, <2>1, <2>2
<1>6. CASE ~above
  <2>1. /\ s.line_adr \in Int /\ s.next_line_adrs = Width * (r + 1)
        /\ Width * r <= s.line_adr /\ s.line_adr < s.next_line_adrs
        /\ s.v_line_count \in 1 .. Rows /\ r < s.v_line_count
    BY DEF InRow, OnRow
  <2>2. s.line_adr - 1 \in Int /\ Width * r <= s.line_adr - 1 /\ s.line_adr - 1 < Width * (r + 1)
    BY <1>4, <1>6, <2>1, SMT
  <2>3. /\ u.line_adr = s.line_adr - 1 /\ u.next_line_adrs = s.next_line_adrs
        /\ u.v_line_count = s.v_line_count
        /\ u = [cell |-> u.cell, line_adr |-> u.line_adr, next_line_adrs |-> u.next_line_adrs,
                v_line_count |-> u.v_line_count]
    BY <1>1, <1>6
  <2>4. u.line_adr <= u.next_line_adrs
    BY <1>4, <2>1, <2>2, <2>3, SMT
  <2>5. InRow(u, r)
    BY <1>3, <2>1, <2>2, <2>3, <2>4 DEF InRow, OnRow
  <2>6. r - 1 <= r
    BY SMT
  <2> QED BY <1>u, <2>5, <2>6
<1> QED BY <1>5, <1>6

\* Every character but Backspace leaves the cursor in its row or a later one.
LEMMA FormattedRow ==
    ASSUME NEW s, NEW c, NEW r \in Int, InRow(s, r)
    PROVE  \E q \in Int : r <= q /\ InRow(Formatted(s, c), q)
<1>1. Formatted(s, c) \in {EndLine(s), StartOfLine(s), Put(s, c)}
  BY DEF Formatted
<1>2. r <= r
  BY SMT
<1> QED BY <1>1, <1>2, PutRow, EndLineRow, StartRow

\* A format and a string differ in the backspace only.
LEMMA FormatRow ==
    ASSUME NEW s, NEW c, c # Backspace
    PROVE  Format(s, c) = Formatted(s, c)
<1>1. CASE c = Newline
  BY <1>1 DEF Format, Formatted
<1>2. CASE c = Return
  BY <1>2 DEF Format, Formatted, Newline, Return
<1>3. CASE c # Newline /\ c # Return
  BY <1>3 DEF Format, Formatted
<1> QED BY <1>1, <1>2, <1>3

-------------------------------------------------------------------------------
(* Texts, character by character. *)

\* A nonempty set of numbers has a least one.
LEMMA LeastNumber ==
    ASSUME NEW T \in SUBSET Nat, T # {}
    PROVE  \E x \in T : \A y \in T : x <= y
<1>1. \E x \in T : \A y \in T : ~(<<y, x>> \in OpToRel(<, Nat))
  BY NatLessThanWellFounded, WFMin
<1>2. PICK x \in T : \A y \in T : ~(<<y, x>> \in OpToRel(<, Nat))
  BY <1>1
<1>3. \A y \in T : ~(y < x)
  BY <1>2 DEF OpToRel
<1> QED BY <1>3, SMT

\* Induction up to a number, over a set.
LEMMA Induction ==
    ASSUME NEW L \in Nat, NEW T, 0 \in T, \A n \in 0 .. L - 1 : n \in T => n + 1 \in T
    PROVE  \A n \in 0 .. L : n \in T
<1> DEFINE Out == {n \in 0 .. L : n \notin T}
<1>1. CASE Out # {}
  <2>1. PICK x \in Out : \A y \in Out : x <= y
    <3>1. Out \in SUBSET Nat
      OBVIOUS
    <3> QED BY <1>1, <3>1, LeastNumber
  <2>2. x \in Nat /\ x # 0 /\ x <= L /\ x \notin T
    OBVIOUS
  <2>3. x - 1 \in 0 .. L - 1 /\ (x - 1) + 1 = x /\ x - 1 \in 0 .. L /\ ~(x <= x - 1)
    BY <2>2, SMT
  <2>4. x - 1 \in T
    BY <2>1, <2>3
  <2> QED BY <2>2, <2>3, <2>4
<1> QED BY <1>1

\* Two iterations with the same steps are the same.
GoTogether(f, g, L) ==
    f[0] = g[0] /\ \A n \in 1 .. L : f[n - 1] = g[n - 1] => f[n] = g[n]

\* ... at each number.
LEMMA SameIteration ==
    ASSUME NEW L \in Nat, NEW f, NEW g, GoTogether(f, g, L)
    PROVE  \A n \in 0 .. L : f[n] = g[n]
<1> USE DEF GoTogether
<1> DEFINE T == {n \in 0 .. L : f[n] = g[n]}
<1>1. 0 \in T
  BY SMT
<1>2. ASSUME NEW n \in 0 .. L - 1, n \in T PROVE n + 1 \in T
  <2>1. n + 1 \in 1 .. L /\ n + 1 \in 0 .. L /\ (n + 1) - 1 = n
    BY SMT
  <2>2. f[(n + 1) - 1] = g[(n + 1) - 1]
    BY <1>2, <2>1
  <2>3. f[n + 1] = g[n + 1]
    BY <2>1, <2>2
  <2> QED BY <2>1, <2>3
<1> HIDE DEF T
<1>3. \A n \in 0 .. L : n \in T
  BY <1>1, <1>2, Induction
<1> QED BY <1>3 DEF T

\* The screen after each character of a text that kprintf prints.
IsShown(f, L, s, text) ==
    f = [n \in 0 .. L |-> IF n = 0 THEN s ELSE Format(f[n - 1], text[n])]

\* There is such a sequence of screens, and kprintf takes its last one.
LEMMA TextIsShown ==
    ASSUME NEW s, NEW text, Len(text) \in Nat
    PROVE  \E f : IsShown(f, Len(text), s, text) /\ kprintf(s, text) = f[Len(text)]
<1> DEFINE L == Len(text)
           T == {k \in 0 .. L : \E f : IsShown(f, k, s, text)}
<1>1. 0 \in T
  <2>1. IsShown([n \in 0 .. 0 |-> s], 0, s, text)
    BY SMT DEF IsShown
  <2> QED BY <2>1
<1>2. ASSUME NEW k \in 0 .. L - 1, k \in T PROVE k + 1 \in T
  <2>1. PICK f : IsShown(f, k, s, text)
    BY <1>2
  <2> DEFINE g == [n \in 0 .. k + 1 |-> IF n = 0 THEN s ELSE Format(f[n - 1], text[n])]
  <2>2. ASSUME NEW n \in 0 .. k PROVE g[n] = f[n]
    <3>1. n \in 0 .. k + 1
      BY SMT
    <3>2. f[n] = IF n = 0 THEN s ELSE Format(f[n - 1], text[n])
      BY <2>1 DEF IsShown
    <3> QED BY <3>1, <3>2
  <2>3. ASSUME NEW n \in 0 .. k + 1
        PROVE  g[n] = IF n = 0 THEN s ELSE Format(g[n - 1], text[n])
    <3>1. CASE n = 0
      BY <3>1
    <3>2. CASE n # 0
      <4>1. n - 1 \in 0 .. k
        BY <3>2, SMT
      <4>2. g[n - 1] = f[n - 1]
        BY <2>2, <4>1
      <4> QED BY <3>2, <4>2
    <3> QED BY <3>1, <3>2
  <2>4. g = [n \in 0 .. k + 1 |-> g[n]]
    OBVIOUS
  <2> HIDE DEF g
  <2>5. IsShown(g, k + 1, s, text)
    BY <2>3, <2>4 DEF IsShown
  <2>6. k + 1 \in 0 .. L
    BY SMT
  <2> QED BY <2>5, <2>6
<1> HIDE DEF T
<1>3. \A k \in 0 .. L : k \in T
  BY <1>1, <1>2, Induction
<1>4. L \in T
  BY <1>3, SMT
<1>5. \E f : IsShown(f, L, s, text)
  BY <1>4 DEF T
<1> DEFINE h == CHOOSE f : IsShown(f, L, s, text)
<1>6. IsShown(h, L, s, text)
  BY <1>5
<1>7. kprintf(s, text) = h[L]
  BY DEF kprintf, IsShown
<1> QED BY <1>6, <1>7

\* The screen after each character of a text that kprintfString prints.
IsStringShown(f, L, s, text) ==
    f = [n \in 0 .. L |-> IF n = 0 THEN s ELSE Formatted(f[n - 1], text[n])]

\* There is such a sequence of screens, and kprintfString takes its last one.
LEMMA StringIsShown ==
    ASSUME NEW s, NEW text, Len(text) \in Nat
    PROVE  \E f : IsStringShown(f, Len(text), s, text) /\ kprintfString(s, text) = f[Len(text)]
<1> DEFINE L == Len(text)
           T == {k \in 0 .. L : \E f : IsStringShown(f, k, s, text)}
<1>1. 0 \in T
  <2>1. IsStringShown([n \in 0 .. 0 |-> s], 0, s, text)
    BY SMT DEF IsStringShown
  <2> QED BY <2>1
<1>2. ASSUME NEW k \in 0 .. L - 1, k \in T PROVE k + 1 \in T
  <2>1. PICK f : IsStringShown(f, k, s, text)
    BY <1>2
  <2> DEFINE g == [n \in 0 .. k + 1 |-> IF n = 0 THEN s ELSE Formatted(f[n - 1], text[n])]
  <2>2. ASSUME NEW n \in 0 .. k PROVE g[n] = f[n]
    <3>1. n \in 0 .. k + 1
      BY SMT
    <3>2. f[n] = IF n = 0 THEN s ELSE Formatted(f[n - 1], text[n])
      BY <2>1 DEF IsStringShown
    <3> QED BY <3>1, <3>2
  <2>3. ASSUME NEW n \in 0 .. k + 1
        PROVE  g[n] = IF n = 0 THEN s ELSE Formatted(g[n - 1], text[n])
    <3>1. CASE n = 0
      BY <3>1
    <3>2. CASE n # 0
      <4>1. n - 1 \in 0 .. k
        BY <3>2, SMT
      <4>2. g[n - 1] = f[n - 1]
        BY <2>2, <4>1
      <4> QED BY <3>2, <4>2
    <3> QED BY <3>1, <3>2
  <2>4. g = [n \in 0 .. k + 1 |-> g[n]]
    OBVIOUS
  <2> HIDE DEF g
  <2>5. IsStringShown(g, k + 1, s, text)
    BY <2>3, <2>4 DEF IsStringShown
  <2>6. k + 1 \in 0 .. L
    BY SMT
  <2> QED BY <2>5, <2>6
<1> HIDE DEF T
<1>3. \A k \in 0 .. L : k \in T
  BY <1>1, <1>2, Induction
<1>4. L \in T
  BY <1>3, SMT
<1>5. \E f : IsStringShown(f, L, s, text)
  BY <1>4 DEF T
<1> DEFINE h == CHOOSE f : IsStringShown(f, L, s, text)
<1>6. IsStringShown(h, L, s, text)
  BY <1>5
<1>7. kprintfString(s, text) = h[L]
  BY DEF kprintfString, IsStringShown
<1> QED BY <1>6, <1>7

\* A text without backspaces is a string.
LEMMA NoStepBack ==
    ASSUME NEW s, NEW text, NEW f, NEW L \in Nat, IsShown(f, L, s, text),
           \A k \in 1 .. L : text[k] # Backspace
    PROVE  IsStringShown(f, L, s, text)
<1>1. ASSUME NEW n \in 0 .. L PROVE f[n] = IF n = 0 THEN s ELSE Formatted(f[n - 1], text[n])
  <2>1. f[n] = IF n = 0 THEN s ELSE Format(f[n - 1], text[n])
    BY DEF IsShown
  <2>2. n # 0 => n \in 1 .. L
    BY SMT
  <2>3. n # 0 => Format(f[n - 1], text[n]) = Formatted(f[n - 1], text[n])
    BY <2>2, FormatRow
  <2> QED BY <2>1, <2>3
<1>2. f = [n \in 0 .. L |-> f[n]]
  BY DEF IsShown
<1> QED BY <1>1, <1>2 DEF IsStringShown

\* The cursor goes down with the characters of a string.
LEMMA StringRows ==
    ASSUME NEW s, NEW text, NEW f, NEW L \in Nat, IsStringShown(f, L, s, text),
           NEW r \in Int, InRow(s, r)
    PROVE  \E q \in Int : r <= q /\ InRow(f[L], q)
<1> DEFINE T == {n \in 0 .. L : \E q \in Int : r <= q /\ InRow(f[n], q)}
<1>1. 0 \in T
  <2>1. f[0] = s /\ r <= r
    BY SMT DEF IsStringShown
  <2> QED BY <2>1
<1>2. ASSUME NEW n \in 0 .. L - 1, n \in T PROVE n + 1 \in T
  <2>1. PICK q \in Int : r <= q /\ InRow(f[n], q)
    BY <1>2
  <2>2. n + 1 \in 0 .. L /\ n + 1 # 0 /\ (n + 1) - 1 = n
    BY SMT
  <2>3. f[n + 1] = Formatted(f[n], text[n + 1])
    BY <2>2 DEF IsStringShown
  <2>4. PICK t \in Int : q <= t /\ InRow(f[n + 1], t)
    BY <2>1, <2>3, FormattedRow
  <2>5. r <= t
    BY <2>1, <2>4, SMT
  <2> QED BY <2>2, <2>4, <2>5
<1> HIDE DEF T
<1>3. \A n \in 0 .. L : n \in T
  BY <1>1, <1>2, Induction
<1> QED BY <1>3 DEF T

\* Strings, and formats without backspaces.
LEMMA StringRow ==
    ASSUME NEW s, NEW text, Len(text) \in Nat, NEW r \in Int, InRow(s, r)
    PROVE  \E q \in Int : r <= q /\ InRow(kprintfString(s, text), q)
<1>1. PICK f : IsStringShown(f, Len(text), s, text) /\ kprintfString(s, text) = f[Len(text)]
  BY StringIsShown
<1>2. \E q \in Int : r <= q /\ InRow(f[Len(text)], q)
  BY <1>1, StringRows
<1> QED BY <1>1, <1>2

\* The same of a text.
LEMMA TextRow ==
    ASSUME NEW s, NEW text, Len(text) \in Nat, NEW r \in Int, InRow(s, r),
           \A k \in 1 .. Len(text) : text[k] # Backspace
    PROVE  \E q \in Int : r <= q /\ InRow(kprintf(s, text), q)
<1>1. PICK f : IsShown(f, Len(text), s, text) /\ kprintf(s, text) = f[Len(text)]
  BY TextIsShown
<1>2. IsStringShown(f, Len(text), s, text)
  BY <1>1, NoStepBack
<1>3. \E q \in Int : r <= q /\ InRow(f[Len(text)], q)
  BY <1>2, StringRows
<1> QED BY <1>1, <1>3

\* A text of one character.
LEMMA OneShown ==
    ASSUME NEW s, NEW c
    PROVE  kprintf(s, <<c>>) = Format(s, c)
<1>1. Len(<<c>>) = 1 /\ Len(<<c>>) \in Nat /\ <<c>>[1] = c
  BY SMT
<1>2. PICK f : IsShown(f, Len(<<c>>), s, <<c>>) /\ kprintf(s, <<c>>) = f[Len(<<c>>)]
  BY <1>1, TextIsShown
<1>3. f = [n \in 0 .. 1 |-> IF n = 0 THEN s ELSE Format(f[n - 1], <<c>>[n])]
  BY <1>1, <1>2 DEF IsShown
<1>4. f[0] = s /\ f[1] = Format(f[1 - 1], <<c>>[1]) /\ 1 - 1 = 0
  BY <1>3, SMT
<1> QED BY <1>1, <1>2, <1>4

-------------------------------------------------------------------------------
(* The positions of the input buffer. *)

\* What a byte of the buffer may be, and what the shell keeps of them.
Byte == Char \cup {Newline}
Kept == Char \ {Nul}

\* The byte of an empty buffer is one of a key, too.
LEMMA NulIsByte == Nul \in Byte /\ Nul \in Char /\ Newline \in Byte
  BY DEF Byte, Char, Key

\* The buffer after n characters: the writer is behind the page by no more than
\* them, and behind the reader on the page unless indicator tells that it is ahead.
BufferInv(s, n) ==
    /\ s \in [buf : [Position -> Byte], writePosition : Nat, readPosition : 0 .. Size,
              indicator : {0, 1}, readline : Nat]
    /\ s.writePosition <= Size + n
    /\ s.indicator = 0 => s.readPosition <= s.writePosition

\* The backspaces that the positions have room for.
Erasable(s) == s.writePosition + (IF s.indicator = 1 THEN Size + 1 ELSE 0)

\* What the reader takes and leaves.
LEMMA ReadType ==
    ASSUME NEW n \in Nat, NEW s, BufferInv(s, n)
    PROVE  /\ BufferInv(readChar(s), n) /\ NextChar(s) \in Byte
           /\ readChar(s).writePosition = s.writePosition
           /\ Erasable(readChar(s)) <= Erasable(s)
<1>1. Size \in Nat \ {0, 1} /\ TypedLimit \in Nat
  BY InputAssumption
<1>2. CASE ~Readable(s)
  <2>1. readChar(s) = s /\ NextChar(s) = Nul
    BY <1>2 DEF readChar, NextChar
  <2> QED BY <1>1, <2>1, NulIsByte, SMT DEF BufferInv, Erasable
<1>3. CASE Readable(s)
  <2>1. PICK u : u = readChar(s)
    OBVIOUS
  <2> DEFINE wraps == s.readPosition = Size
  <2>2. u = [s EXCEPT !.buf[s.readPosition] = Nul,
                      !.readPosition = IF wraps THEN 0 ELSE @ + 1,
                      !.indicator = IF wraps THEN 0 ELSE @,
                      !.readline = IF NextChar(s) = Newline THEN @ - 1 ELSE @]
    BY <1>3, <2>1 DEF readChar
  <2>3. /\ s.readPosition \in Position /\ s.readline > 0
        /\ s.writePosition > s.readPosition \/ s.indicator = 1
    BY <1>1, <1>3, SMT DEF BufferInv, Position, Readable
  <2>4. NextChar(s) \in Byte
    BY <1>3, <2>3 DEF NextChar, BufferInv
  <2>5. /\ u.buf = [s.buf EXCEPT ![s.readPosition] = Nul]
        /\ u.writePosition = s.writePosition
        /\ u.readPosition = (IF wraps THEN 0 ELSE s.readPosition + 1)
        /\ u.indicator = (IF wraps THEN 0 ELSE s.indicator)
        /\ u.readline = (IF NextChar(s) = Newline THEN s.readline - 1 ELSE s.readline)
        /\ u = [buf |-> u.buf, writePosition |-> u.writePosition, readPosition |-> u.readPosition,
                indicator |-> u.indicator, readline |-> u.readline]
    BY <2>2 DEF BufferInv
  <2>6. u.buf \in [Position -> Byte]
    BY <2>5, NulIsByte DEF BufferInv
  <2>7. /\ u.writePosition \in Nat /\ u.readPosition \in 0 .. Size /\ u.indicator \in {0, 1}
        /\ u.readline \in Nat /\ u.writePosition <= Size + n
        /\ u.indicator = 0 => u.readPosition <= u.writePosition
    BY <1>1, <2>3, <2>5, SMT DEF BufferInv
  <2>8. BufferInv(u, n)
    BY <2>5, <2>6, <2>7 DEF BufferInv
  <2>9. Erasable(u) <= Erasable(s)
    BY <1>1, <2>5, <2>7, SMT DEF Erasable, BufferInv
  <2> QED BY <2>1, <2>4, <2>5, <2>8, <2>9
<1> QED BY <1>2, <1>3

\* A character that is stored makes room for one more backspace, or for two where the
\* writer goes on at the start of the page.
LEMMA WriteType ==
    ASSUME NEW n \in Nat, n < TypedLimit, NEW s, BufferInv(s, n), NEW c \in Char \cup {Newline}
    PROVE  /\ BufferInv(writeChar(s, c), n + 1)
           /\ Erasable(writeChar(s, c)) <= Erasable(s) + 2
<1>1. Size \in Nat \ {0, 1} /\ TypedLimit \in Nat /\ c \in Byte
  BY InputAssumption DEF Byte
<1>2. PICK stored : stored = [s EXCEPT !.buf[s.writePosition] = c, !.writePosition = @ + 1]
  OBVIOUS
<1>3. /\ stored.buf = [s.buf EXCEPT ![s.writePosition] = c]
      /\ stored.writePosition = s.writePosition + 1
      /\ stored.readPosition = s.readPosition /\ stored.indicator = s.indicator
      /\ stored.readline = s.readline
      /\ stored = [buf |-> stored.buf, writePosition |-> stored.writePosition,
                   readPosition |-> stored.readPosition, indicator |-> stored.indicator,
                   readline |-> stored.readline]
  BY <1>2 DEF BufferInv
<1>4. BufferInv(stored, n + 1)
  <2>1. stored.buf \in [Position -> Byte]
    BY <1>1, <1>3 DEF BufferInv
  <2>2. /\ stored.writePosition \in Nat /\ stored.writePosition <= Size + (n + 1)
        /\ stored.indicator = 0 => stored.readPosition <= stored.writePosition
    BY <1>1, <1>3, SMT DEF BufferInv
  <2> QED BY <1>3, <2>1, <2>2 DEF BufferInv
<1>5. PICK read : read = IF stored.writePosition = Size THEN readChar(stored) ELSE stored
  OBVIOUS
<1>6. /\ BufferInv(read, n + 1) /\ Erasable(read) <= Erasable(stored)
      /\ read.writePosition = stored.writePosition
  <2>1. n + 1 \in Nat /\ Erasable(stored) \in Int
    BY <1>1, <1>4, SMT DEF BufferInv, Erasable
  <2> QED BY <1>4, <1>5, <2>1, ReadType, SMT
<1>7. PICK wrapped : wrapped = IF stored.writePosition = Size /\ read.readPosition # 0
                                 THEN [read EXCEPT !.writePosition = 0, !.indicator = 1]
                                 ELSE read
  OBVIOUS
<1>8. ASSUME stored.writePosition = Size /\ read.readPosition # 0
      PROVE  BufferInv(wrapped, n + 1) /\ Erasable(wrapped) <= Erasable(s) + 2
  <2>1. /\ wrapped.buf = read.buf /\ wrapped.readPosition = read.readPosition
        /\ wrapped.readline = read.readline /\ wrapped.writePosition = 0 /\ wrapped.indicator = 1
        /\ wrapped = [buf |-> wrapped.buf, writePosition |-> wrapped.writePosition,
                      readPosition |-> wrapped.readPosition, indicator |-> wrapped.indicator,
                      readline |-> wrapped.readline]
    BY <1>6, <1>7, <1>8 DEF BufferInv
  <2>2. BufferInv(wrapped, n + 1)
    BY <1>1, <1>6, <2>1, SMT DEF BufferInv
  <2>3. Erasable(wrapped) = Size + 1 /\ s.writePosition = Size - 1
    BY <1>1, <1>3, <1>8, <2>1, SMT DEF Erasable, BufferInv
  <2>4. Erasable(s) >= s.writePosition /\ Erasable(s) \in Int
    BY <1>1, SMT DEF Erasable, BufferInv
  <2> QED BY <1>1, <2>2, <2>3, <2>4, SMT
<1>9. ASSUME ~(stored.writePosition = Size /\ read.readPosition # 0)
      PROVE  BufferInv(wrapped, n + 1) /\ Erasable(wrapped) <= Erasable(s) + 2
  <2>1. wrapped = read
    BY <1>7, <1>9
  <2>2. Erasable(stored) = Erasable(s) + 1 /\ Erasable(s) \in Int /\ Erasable(read) \in Int
    BY <1>1, <1>3, <1>6, SMT DEF Erasable, BufferInv
  <2> QED BY <1>6, <2>1, <2>2, SMT
<1>10. BufferInv(wrapped, n + 1) /\ Erasable(wrapped) <= Erasable(s) + 2
  BY <1>8, <1>9
<1>11. PICK full : full = IF wrapped.writePosition = wrapped.readPosition - 1
                            THEN [wrapped EXCEPT !.indicator = 1] ELSE wrapped
  OBVIOUS
<1>12. full = wrapped
  <2>1. wrapped.writePosition = wrapped.readPosition - 1 => wrapped.indicator = 1
    BY <1>10, SMT DEF BufferInv
  <2>2. wrapped.indicator = 1 => [wrapped EXCEPT !.indicator = 1] = wrapped
    BY <1>10 DEF BufferInv
  <2> QED BY <1>11, <2>1, <2>2
<1>13. PICK u : u = [full EXCEPT !.readline = IF c = Newline THEN @ + 1 ELSE @]
  OBVIOUS
<1>14. writeChar(s, c) = u
  BY <1>2, <1>5, <1>7, <1>11, <1>13 DEF writeChar
<1>15. /\ u.buf = wrapped.buf /\ u.writePosition = wrapped.writePosition
       /\ u.readPosition = wrapped.readPosition /\ u.indicator = wrapped.indicator
       /\ u.readline = (IF c = Newline THEN wrapped.readline + 1 ELSE wrapped.readline)
       /\ u = [buf |-> u.buf, writePosition |-> u.writePosition, readPosition |-> u.readPosition,
                indicator |-> u.indicator, readline |-> u.readline]
  BY <1>10, <1>12, <1>13 DEF BufferInv
<1>16. u.readline \in Nat
  BY <1>10, <1>15, SMT DEF BufferInv
<1> QED BY <1>10, <1>14, <1>15, <1>16 DEF BufferInv, Erasable

\* A backspace that moves the position uses up room for one.
LEMMA BackType ==
    ASSUME NEW n \in Nat, NEW s, BufferInv(s, n)
    PROVE  /\ BufferInv(handleBackspace(s), n)
           /\ Erasable(handleBackspace(s)) <= Erasable(s)
           /\ handleBackspace(s).writePosition # s.writePosition
                => Erasable(handleBackspace(s)) <= Erasable(s) - 1
<1>1. Size \in Nat \ {0, 1} /\ TypedLimit \in Nat /\ Nul \in Byte
  BY InputAssumption, NulIsByte
<1>2. PICK u : u = handleBackspace(s)
  OBVIOUS
<1> DEFINE Shape == u = [buf |-> u.buf, writePosition |-> u.writePosition,
                         readPosition |-> u.readPosition, indicator |-> u.indicator,
                         readline |-> u.readline]
           Rest == u.readPosition = s.readPosition /\ u.readline = s.readline /\ Shape
<1>3. CASE s.writePosition = s.readPosition
  <2>0. ~(s.writePosition > s.readPosition) /\ ~(s.readPosition > s.writePosition)
    BY <1>3, SMT DEF BufferInv
  <2>1. u = [s EXCEPT !.buf[s.writePosition] = Nul]
    BY <1>2, <1>3, <2>0 DEF handleBackspace
  <2>2. /\ u.buf = [s.buf EXCEPT ![s.writePosition] = Nul] /\ u.writePosition = s.writePosition
        /\ u.indicator = s.indicator /\ Rest
    BY <2>1 DEF BufferInv
  <2>3. u.buf \in [Position -> Byte]
    BY <1>1, <2>2 DEF BufferInv
  <2>4. BufferInv(u, n) /\ Erasable(u) = Erasable(s)
    BY <2>2, <2>3 DEF BufferInv, Erasable
  <2> QED BY <1>1, <1>2, <2>2, <2>4, SMT DEF BufferInv, Erasable
<1>4. CASE /\ s.writePosition # s.readPosition
           /\ s.writePosition > s.readPosition
           /\ s.indicator = 0
           /\ s.buf[s.writePosition - 1] # Newline
  <2>1. u = [s EXCEPT !.writePosition = @ - 1, !.buf[s.writePosition - 1] = Nul]
    BY <1>2, <1>4 DEF handleBackspace
  <2>2. /\ u.buf = [s.buf EXCEPT ![s.writePosition - 1] = Nul]
        /\ u.writePosition = s.writePosition - 1
        /\ u.indicator = s.indicator /\ Rest
    BY <2>1 DEF BufferInv
  <2>3. u.buf \in [Position -> Byte]
    BY <1>1, <2>2 DEF BufferInv
  <2>4. /\ u.writePosition \in Nat /\ u.writePosition <= Size + n
        /\ u.readPosition <= u.writePosition
    BY <1>1, <1>4, <2>2, SMT DEF BufferInv
  <2>5. BufferInv(u, n)
    BY <2>2, <2>3, <2>4 DEF BufferInv
  <2> QED BY <1>1, <1>2, <1>4, <2>2, <2>5, SMT DEF BufferInv, Erasable
<1>5. CASE /\ s.readPosition > s.writePosition
           /\ s.indicator = 1
           /\ s.buf[s.writePosition - 1] # Newline
  <2>1. s.writePosition # s.readPosition /\ ~(s.writePosition > s.readPosition /\ s.indicator = 0)
    BY <1>5, SMT DEF BufferInv
  <2>2. u = IF s.writePosition = 0
              THEN [s EXCEPT !.writePosition = Size, !.indicator = 0, !.buf[Size] = Nul]
              ELSE [s EXCEPT !.writePosition = @ - 1, !.buf[s.writePosition - 1] = Nul]
    BY <1>2, <1>5, <2>1 DEF handleBackspace
  <2>3. CASE s.writePosition = 0
    <3>1. u = [s EXCEPT !.writePosition = Size, !.indicator = 0, !.buf[Size] = Nul]
      BY <2>2, <2>3
    <3>2. u.buf = [s.buf EXCEPT ![Size] = Nul] /\ u.writePosition = Size /\ u.indicator = 0 /\ Rest
      BY <3>1 DEF BufferInv
    <3>3. u.buf \in [Position -> Byte]
      BY <1>1, <3>2 DEF BufferInv
    <3>4. /\ u.writePosition \in Nat /\ u.writePosition <= Size + n
          /\ u.readPosition <= u.writePosition
      BY <1>1, <3>2, SMT DEF BufferInv
    <3>5. BufferInv(u, n)
      BY <3>2, <3>3, <3>4 DEF BufferInv
    <3> QED BY <1>1, <1>2, <1>5, <2>3, <3>2, <3>5, SMT DEF BufferInv, Erasable
  <2>4. CASE s.writePosition # 0
    <3>1. u = [s EXCEPT !.writePosition = @ - 1, !.buf[s.writePosition - 1] = Nul]
      BY <2>2, <2>4
    <3>2. /\ u.buf = [s.buf EXCEPT ![s.writePosition - 1] = Nul]
          /\ u.writePosition = s.writePosition - 1
          /\ u.indicator = s.indicator /\ Rest
      BY <3>1 DEF BufferInv
    <3>3. u.buf \in [Position -> Byte]
      BY <1>1, <3>2 DEF BufferInv
    <3>4. u.writePosition \in Nat /\ u.writePosition <= Size + n
      BY <1>1, <2>4, <3>2, SMT DEF BufferInv
    <3>5. BufferInv(u, n)
      BY <1>5, <3>2, <3>3, <3>4, SMT DEF BufferInv
    <3> QED BY <1>1, <1>2, <1>5, <2>4, <3>2, <3>5, SMT DEF BufferInv, Erasable
  <2> QED BY <2>3, <2>4
<1>6. CASE /\ s.writePosition # s.readPosition
           /\ ~(/\ s.writePosition > s.readPosition
                /\ s.indicator = 0
                /\ s.buf[s.writePosition - 1] # Newline)
           /\ ~(/\ s.readPosition > s.writePosition
                /\ s.indicator = 1
                /\ s.buf[s.writePosition - 1] # Newline)
  <2>1. u = s
    BY <1>2, <1>6 DEF handleBackspace
  <2> QED BY <1>1, <1>2, <2>1, SMT DEF BufferInv, Erasable
<1> QED BY <1>3, <1>4, <1>5, <1>6

-------------------------------------------------------------------------------
\* What the kernel prints for a key is a text without backspaces.
Quiet == {x \in STRING \cup Char \cup {Newline} : x # Backspace}

\* The warnings of a full buffer, and the keys.
LEMMA WarningIsQuiet == Warning \in Seq(Quiet)
<1>1. Warning \in Seq(STRING)
  BY InputAssumption
<1>2. Warning \in [1 .. Len(Warning) -> STRING] /\ Len(Warning) \in Nat
  BY <1>1, LenProperties
<1>3. \A k \in 1 .. Len(Warning) : Warning[k] \in Quiet
  BY <1>2, InputAssumption DEF Quiet
<1>4. Warning \in [1 .. Len(Warning) -> Quiet]
  BY <1>2, <1>3
<1> QED BY <1>2, <1>4, IsASeq

\* No key writes a backspace.
LEMMA KeyIsQuiet == Char \cup {Newline} \subseteq Quiet
<1>1. \A c \in Letter : c # Backspace
  BY InputAssumption
<1>2. \A c \in CtrlKey \cup {Space, Newline, Nul} : c # Backspace
  BY DEF CtrlKey, Space, Newline, Backspace, Blank, Nul
<1> QED BY <1>1, <1>2 DEF Char, Key, Quiet

\* A key and the warnings in front of it or behind it.
LEMMA QuietText ==
    ASSUME NEW s, NEW c \in Char \cup {Newline},
           NEW text \in {Warnings(s) \o <<c>>, <<c>> \o Warnings(s)}
    PROVE  Len(text) \in Nat /\ \A k \in 1 .. Len(text) : text[k] # Backspace
<1>1. PICK one : one = IF s.writePosition = Size THEN Warning ELSE <<>>
  OBVIOUS
<1>2. PICK two : two = IF s.writePosition = s.readPosition - 1 THEN Warning ELSE <<>>
  OBVIOUS
<1>3. one \in Seq(Quiet) /\ two \in Seq(Quiet)
  BY <1>1, <1>2, WarningIsQuiet, EmptySeq
<1>4. PICK both : both = one \o two
  OBVIOUS
<1>5. both \in Seq(Quiet) /\ Warnings(s) = both
  BY <1>1, <1>2, <1>3, <1>4, ConcatProperties DEF Warnings
<1>6. PICK key : key = <<c>>
  OBVIOUS
<1>7. key \in Seq(Quiet)
  BY <1>6, KeyIsQuiet
<1>8. both \o key \in Seq(Quiet) /\ key \o both \in Seq(Quiet)
  BY <1>5, <1>7, ConcatProperties
<1>9. text \in Seq(Quiet)
  BY <1>5, <1>6, <1>8
<1>10. Len(text) \in Nat /\ \A k \in 1 .. Len(text) : text[k] \in Quiet
  BY <1>9, LenProperties, ElementOfSeq
<1> QED BY <1>10 DEF Quiet

-------------------------------------------------------------------------------
(* The inductive invariant of the types: a row is taken back only by a backspace *)
(* that there was room for, so that the cursor stays on the cells.               *)

\* The cursor is in a row that the room for backspaces cannot take above the first ...
RowInv ==
    \E r \in Int : InRow(screen, r) /\ Erasable(input) - 2 * typed <= r

\* ... of a screen and of an input buffer with these types.
DevicesInv ==
    /\ typed \in 0 .. TypedLimit
    /\ BufferInv(input, typed)
    /\ shift \in {0, 1} /\ control \in {0, 1}
    /\ down \subseteq Modifier
    /\ inputStr \in Seq(Kept) /\ command \in Seq(Kept)
    /\ Len(inputStr) <= CommandLimit + 1
    /\ RowInv

\* The screen that the kernel leaves to the first program.
LEMMA ScreenInit ==
    ASSUME NEW row \in FirstRows
    PROVE  row \in Nat /\ InRow(ScreenAt(row), row)
<1>1. row \in 0 .. (Rows - 1) /\ Rows \in Nat \ {0} /\ Width \in Nat \ {0}
  BY InputAssumption, ConsoleAssumption
<1>2. row \in Int /\ row + 1 \in 1 .. Rows
  BY <1>1, SMT
<1>3. Width * row \in Int /\ Width * (row + 1) = Width * row + Width
  BY <1>2, RowsGrow
<1>4. PICK s : s = ScreenAt(row)
  OBVIOUS
<1>5. /\ s.cell = [p \in Cells |-> IF p < TextEnd THEN Nul ELSE Bar]
      /\ s.line_adr = row * Width /\ s.next_line_adrs = (row + 1) * Width
      /\ s.v_line_count = row + 1
      /\ s = [cell |-> s.cell, line_adr |-> s.line_adr, next_line_adrs |-> s.next_line_adrs,
              v_line_count |-> s.v_line_count]
  BY <1>4 DEF ScreenAt
<1>6. row * Width = Width * row /\ (row + 1) * Width = Width * (row + 1)
  BY <1>1, <1>2, SMT
<1>7. TextEnd \in Int /\ Cells \subseteq Int
  BY <1>1, ConsoleAssumption, SMT DEF TextEnd, Cells
<1>8. \A p \in Cells : p >= TextEnd => s.cell[p] = Bar
  BY <1>5, <1>7, SMT
<1>9. s.cell = [p \in Cells |-> s.cell[p]]
  BY <1>5
<1>10. s.line_adr \in Int /\ s.line_adr < s.next_line_adrs /\ s.line_adr <= s.next_line_adrs
       /\ Width * row <= s.line_adr /\ row < s.v_line_count
  BY <1>1, <1>2, <1>3, <1>5, <1>6, SMT
<1>11. InRow(s, row)
  BY <1>2, <1>5, <1>6, <1>8, <1>9, <1>10 DEF InRow, OnRow
<1> QED BY <1>1, <1>4, <1>11, SMT

\* The invariant holds initially, ...
LEMMA DevicesInit == Init => DevicesInv
<1> SUFFICES ASSUME Init PROVE DevicesInv
  OBVIOUS
<1>1. Size \in Nat \ {0, 1} /\ TypedLimit \in Nat
  BY InputAssumption
<1>2. /\ input.buf = [p \in Position |-> Nul] /\ input.writePosition = 0 /\ input.readPosition = 0
      /\ input.indicator = 0 /\ input.readline = 0
      /\ input = [buf |-> input.buf, writePosition |-> input.writePosition,
                  readPosition |-> input.readPosition, indicator |-> input.indicator,
                  readline |-> input.readline]
  BY DEF Init
<1>3. BufferInv(input, 0)
  <2>1. input.buf \in [Position -> Byte]
    BY <1>2, NulIsByte
  <2> QED BY <1>1, <1>2, <2>1, SMT DEF BufferInv
<1>4. PICK row \in FirstRows : screen = ScreenAt(row)
  BY DEF Init
<1>5. row \in Nat /\ InRow(screen, row)
  BY <1>4, ScreenInit
<1>6. typed = 0 /\ Erasable(input) = 0
  BY <1>2, SMT DEF Init, Erasable
<1>7. row \in Int /\ 0 - 2 * 0 <= row
  BY <1>5, SMT
<1>8. RowInv
  BY <1>5, <1>6, <1>7 DEF RowInv
<1>9. typed \in 0 .. TypedLimit
  BY <1>1, <1>6, SMT
<1>10. inputStr \in Seq(Kept) /\ command \in Seq(Kept) /\ Len(inputStr) = 0
  BY EmptySeq DEF Init
<1>11. Len(inputStr) <= CommandLimit + 1
  BY <1>10, InputAssumption, SMT
<1> QED BY <1>3, <1>6, <1>8, <1>9, <1>10, <1>11 DEF Init, DevicesInv

\* A character that is stored and shown.
LEMMA TypedStep ==
    ASSUME DevicesInv, NEW c \in Char \cup {Newline}, Typed(c)
    PROVE  DevicesInv'
<1> DEFINE s == writeChar(input, c)
           text == IF c \in {Newline, Space} THEN Warnings(s) \o <<c>>
                   ELSE <<c>> \o Warnings(s)
<1>1. /\ typed < TypedLimit /\ typed' = typed + 1 /\ input' = s
      /\ screen' = kprintf(screen, text) /\ UNCHANGED <<keyVars, shellVars>>
  BY DEF Typed
<1>2. typed \in Nat /\ TypedLimit \in Nat /\ typed' \in 0 .. TypedLimit
  BY <1>1, InputAssumption, SMT DEF DevicesInv
<1>3. BufferInv(s, typed + 1) /\ Erasable(s) <= Erasable(input) + 2
  BY <1>1, <1>2, WriteType DEF DevicesInv
<1>4. PICK r \in Int : InRow(screen, r) /\ Erasable(input) - 2 * typed <= r
  BY DEF DevicesInv, RowInv
<1>5. Len(text) \in Nat /\ \A k \in 1 .. Len(text) : text[k] # Backspace
  BY QuietText
<1> HIDE DEF text, s
<1>6. PICK q \in Int : r <= q /\ InRow(kprintf(screen, text), q)
  BY <1>4, <1>5, TextRow
<1>7. Erasable(s) \in Int /\ Erasable(input) \in Int
  <2>1. s.writePosition \in Nat /\ input.writePosition \in Nat /\ Size \in Nat
    BY <1>3, InputAssumption DEF BufferInv, DevicesInv
  <2> QED BY <2>1, SMT DEF Erasable
<1>8. Erasable(s) - 2 * (typed + 1) <= q
  BY <1>2, <1>3, <1>4, <1>6, <1>7, SMT
<1>9. RowInv'
  BY <1>1, <1>6, <1>8 DEF RowInv, Erasable
<1> QED BY <1>1, <1>2, <1>3, <1>9 DEF DevicesInv, BufferInv, keyVars, shellVars

\* A backspace.
LEMMA EraseStep ==
    ASSUME DevicesInv, Erase
    PROVE  DevicesInv'
<1> DEFINE s == handleBackspace(input)
<1>1. /\ input' = s /\ UNCHANGED <<keyVars, shellVars, typed>>
      /\ screen' = IF s.writePosition = input.writePosition THEN screen
                   ELSE kprintf(screen, <<Backspace>>)
  BY DEF Erase
<1>2. typed \in Nat
  BY SMT DEF DevicesInv
<1>3. /\ BufferInv(s, typed) /\ Erasable(s) <= Erasable(input)
      /\ s.writePosition # input.writePosition => Erasable(s) <= Erasable(input) - 1
  BY <1>2, BackType DEF DevicesInv
<1>4. PICK r \in Int : InRow(screen, r) /\ Erasable(input) - 2 * typed <= r
  BY DEF DevicesInv, RowInv
<1> HIDE DEF s
<1>5. Erasable(s) \in Int /\ Erasable(input) \in Int
  BY <1>2, <1>3, InputAssumption, SMT DEF Erasable, BufferInv, DevicesInv
<1>6. \E q \in Int : InRow(screen', q) /\ Erasable(s) - 2 * typed <= q
  <2>1. CASE s.writePosition = input.writePosition
    <3>1. Erasable(s) - 2 * typed <= r
      BY <1>2, <1>3, <1>4, <1>5, SMT
    <3> QED BY <1>1, <1>4, <2>1, <3>1
  <2>2. CASE s.writePosition # input.writePosition
    <3>1. kprintf(screen, <<Backspace>>) = StepBack(screen)
      BY OneShown DEF Format, Backspace, Newline, Return
    <3>2. PICK q \in Int : r - 1 <= q /\ InRow(StepBack(screen), q)
      BY <1>4, StepBackRow
    <3>3. Erasable(s) - 2 * typed <= q
      BY <1>2, <1>3, <1>4, <1>5, <2>2, <3>2, SMT
    <3> QED BY <1>1, <2>2, <3>1, <3>2, <3>3
  <2> QED BY <2>1, <2>2
<1>7. RowInv'
  BY <1>1, <1>6 DEF RowInv, Erasable
<1> QED BY <1>1, <1>3, <1>7 DEF DevicesInv, BufferInv, keyVars, shellVars

\* A program prints.
LEMMA PrintStep ==
    ASSUME DevicesInv, NEW text \in Output, writeFile(text)
    PROVE  DevicesInv'
<1>1. screen' = kprintfString(screen, text) /\ UNCHANGED <<input, keyVars, shellVars, typed>>
  BY DEF writeFile
<1>2. Len(text) \in Nat
  <2>1. text \in Seq(STRING)
    BY InputAssumption
  <2> QED BY <2>1, LenProperties
<1>3. PICK r \in Int : InRow(screen, r) /\ Erasable(input) - 2 * typed <= r
  BY DEF DevicesInv, RowInv
<1>4. PICK q \in Int : r <= q /\ InRow(kprintfString(screen, text), q)
  BY <1>2, <1>3, StringRow
<1>5. Erasable(input) - 2 * typed \in Int
  BY InputAssumption, SMT DEF Erasable, BufferInv, DevicesInv
<1>6. Erasable(input) - 2 * typed <= q
  BY <1>3, <1>4, <1>5, SMT
<1>7. RowInv'
  BY <1>1, <1>4, <1>6 DEF RowInv, Erasable
<1> QED BY <1>1, <1>7 DEF DevicesInv, BufferInv, keyVars, shellVars

\* The shell reads.
LEMMA GetcharStep ==
    ASSUME DevicesInv, getchar
    PROVE  DevicesInv'
<1>1. PICK char : char = NextChar(input)
  OBVIOUS
<1>2. PICK c : c = IF char = Newline THEN Nul ELSE char
  OBVIOUS
<1>3. /\ input' = readChar(input) /\ UNCHANGED <<keyVars, typed, screenVars>>
      /\ Collect(c)
  BY <1>1, <1>2 DEF getchar
<1>4. typed \in Nat
  BY SMT DEF DevicesInv
<1>5. /\ BufferInv(readChar(input), typed) /\ char \in Byte
      /\ Erasable(readChar(input)) <= Erasable(input)
  BY <1>1, <1>4, ReadType DEF DevicesInv
<1>6. c # Nul => c \in Kept
  BY <1>2, <1>5 DEF Byte, Kept
<1>7. inputStr \in Seq(Kept) /\ command \in Seq(Kept) /\ Len(inputStr) <= CommandLimit + 1
      /\ CommandLimit \in Nat /\ Len(inputStr) \in Nat
  <2>1. inputStr \in Seq(Kept) /\ command \in Seq(Kept) /\ Len(inputStr) <= CommandLimit + 1
    BY DEF DevicesInv
  <2> QED BY <2>1, LenProperties, InputAssumption
<1>8. c # Nul => Append(inputStr, c) \in Seq(Kept) /\ Len(Append(inputStr, c)) = Len(inputStr) + 1
  BY <1>6, <1>7, AppendProperties
<1>9. inputStr' \in Seq(Kept) /\ command' \in Seq(Kept) /\ Len(inputStr') <= CommandLimit + 1
  <2>1. CASE command' = inputStr /\ inputStr' = <<>>
    <3>1. <<>> \in Seq(Kept) /\ Len(<<>>) = 0
      BY EmptySeq
    <3>2. 0 <= CommandLimit + 1
      BY <1>7, SMT
    <3> QED BY <1>7, <2>1, <3>1, <3>2
  <2>2. CASE UNCHANGED shellVars
    BY <1>7, <2>2 DEF shellVars
  <2>3. CASE /\ c # Nul /\ Len(inputStr) <= CommandLimit
             /\ inputStr' = Append(inputStr, c) /\ UNCHANGED command
    <3>1. Len(inputStr) + 1 <= CommandLimit + 1
      BY <1>7, <2>3, SMT
    <3> QED BY <1>7, <1>8, <2>3, <3>1
  <2> QED BY <1>3, <2>1, <2>2, <2>3 DEF Collect
<1>10. PICK r \in Int : InRow(screen, r) /\ Erasable(input) - 2 * typed <= r
  BY DEF DevicesInv, RowInv
<1>11. Erasable(input) \in Int /\ Erasable(readChar(input)) \in Int
  BY <1>5, InputAssumption, SMT DEF Erasable, BufferInv, DevicesInv
<1>12. Erasable(readChar(input)) - 2 * typed <= r
  BY <1>4, <1>5, <1>10, <1>11, SMT
<1>13. RowInv'
  BY <1>3, <1>10, <1>12 DEF RowInv, Erasable, screenVars
<1> QED BY <1>3, <1>5, <1>9, <1>13 DEF DevicesInv, BufferInv, keyVars

\* A modifier.
LEMMA ModifierStep ==
    ASSUME DevicesInv, NEW k \in Modifier,
           ModifierDown(k) \/ ModifierUp(k)
    PROVE  DevicesInv'
<1>1. UNCHANGED <<input, shellVars, typed, screenVars>>
  BY DEF ModifierDown, ModifierUp
<1>2. /\ shift' \in {0, 1} /\ control' \in {0, 1}
      /\ down' \subseteq Modifier
  BY DEF ModifierDown, ModifierUp, DevicesInv
<1> QED BY <1>1, <1>2 DEF DevicesInv, BufferInv, RowInv, Erasable, shellVars, screenVars

\* ... and over every step.
LEMMA DevicesStep == DevicesInv /\ [Next]_vars => DevicesInv'
<1> SUFFICES ASSUME DevicesInv, [Next]_vars PROVE DevicesInv'
  OBVIOUS
<1>1. ASSUME NEW c \in {Newline, Space}, KeyText(c) PROVE DevicesInv'
  <2>1. c \in Char \cup {Newline} /\ Typed(c)
    BY <1>1 DEF KeyText, Char
  <2> QED BY <2>1, TypedStep
<1>2. CASE UNCHANGED vars
  BY <1>2 DEF vars, DevicesInv, BufferInv, RowInv, Erasable, keyVars, shellVars, screenVars
<1>3. ASSUME NEW c \in Key, KeyDefault(c) PROVE DevicesInv'
  <2>1. c \in Char \cup {Newline}
    BY DEF Char
  <2>2. Typed(c) \/ Erase \/ UNCHANGED vars
    BY <1>3 DEF KeyDefault
  <2> QED BY <1>2, <2>1, <2>2, TypedStep, EraseStep
<1>4. CASE Erase
  BY <1>4, EraseStep
<1>5. CASE getchar
  BY <1>5, GetcharStep
<1>6. ASSUME NEW text \in Output, writeFile(text) PROVE DevicesInv'
  BY <1>6, PrintStep
<1>7. ASSUME NEW k \in Modifier, ModifierDown(k) \/ ModifierUp(k)
      PROVE  DevicesInv'
  BY <1>7, ModifierStep
<1> QED BY <1>1, <1>2, <1>3, <1>4, <1>5, <1>6, <1>7 DEF Next

\* It is an invariant.
LEMMA DevicesInvariant == Spec => []DevicesInv
  BY DevicesInit, DevicesStep, PTL DEF Spec

\* The modifiers, the buffer, what the shell has read and the cursor stay in their
\* ranges, for every number of characters, backspaces and rows.
THEOREM InputTypes == Spec => []TypeOK
<1>1. DevicesInv => TypeOK
  <2> SUFFICES ASSUME DevicesInv PROVE TypeOK
    OBVIOUS
  <2>1. /\ Size \in Nat \ {0, 1} /\ TypedLimit \in Nat /\ Width \in Nat \ {0} /\ Rows \in Nat \ {0}
        /\ Slack \in Nat /\ Slack >= Width * (2 * TypedLimit)
        /\ typed \in 0 .. TypedLimit
    BY InputAssumption, ConsoleAssumption DEF DevicesInv
  <2>2. /\ input.buf \in [Position -> Byte] /\ input.writePosition \in Nat
        /\ input.readPosition \in 0 .. Size /\ input.indicator \in {0, 1} /\ input.readline \in Nat
        /\ input.writePosition <= Size + typed
        /\ input = [buf |-> input.buf, writePosition |-> input.writePosition,
                    readPosition |-> input.readPosition, indicator |-> input.indicator,
                    readline |-> input.readline]
    BY DEF DevicesInv, BufferInv
  <2>3. input.writePosition \in 0 .. (Size + TypedLimit)
    BY <2>1, <2>2, SMT
  <2>4. Byte = Char \cup {Newline} /\ Kept = Char \ {Nul}
    BY DEF Byte, Kept
  <2>5. input \in [buf : [Position -> Char \cup {Newline}],
                   writePosition : 0 .. (Size + TypedLimit), readPosition : 0 .. Size,
                   indicator : {0, 1}, readline : Nat]
    BY <2>2, <2>3, <2>4
  <2>6. PICK r \in Int : InRow(screen, r) /\ Erasable(input) - 2 * typed <= r
    BY DEF DevicesInv, RowInv
  <2>7. /\ screen.line_adr \in Int /\ Width * r <= screen.line_adr
        /\ screen.line_adr < Width * (r + 1)
        /\ screen.v_line_count \in 1 .. Rows /\ r < screen.v_line_count
    BY <2>6 DEF InRow, OnRow
  <2>8. 0 - 2 * TypedLimit <= r
    <3>1. Erasable(input) \in Nat
      BY <2>1, <2>2, SMT DEF Erasable
    <3> QED BY <2>1, <2>6, <3>1, SMT
  <2>9. Width * (r + 1) <= TextEnd /\ TextEnd \in Nat
    BY <2>7, TextEndIs
  <2>10. Width * (0 - 2 * TypedLimit) <= Width * r /\ Width * r \in Int
    <3>1. 0 - 2 * TypedLimit \in Int
      BY <2>1, SMT
    <3> QED BY <2>8, <3>1, RowsGrow
  <2>11. Width * (0 - 2 * TypedLimit) = 0 - Width * (2 * TypedLimit) /\ Width * (2 * TypedLimit) \in Int
    BY <2>1, SMT
  <2>12. screen.line_adr \in Cells
    BY <2>1, <2>7, <2>9, <2>10, <2>11, SMT DEF Cells
  <2> QED BY <2>1, <2>4, <2>5, <2>7, <2>12 DEF TypeOK, DevicesInv
<1> QED BY <1>1, DevicesInvariant, PTL

\* Wherever rows end, are taken back and scroll, no character is put where the bars
\* are: the count of rows covers the row of the cursor.
THEOREM BarsStay == Spec => []BarsAreKept
<1>1. DevicesInv => BarsAreKept
  BY DEF DevicesInv, RowInv, InRow, OnRow, BarsAreKept
<1> QED BY <1>1, DevicesInvariant, PTL

-------------------------------------------------------------------------------
(* The elements of a set of numbers in their order. *)

\* The members up to one of them, and the member that has n up to it.
Below(T, k) == {l \in T : l <= k}
Place(T, n) == Min({k \in T : Cardinality(Below(T, k)) = n})

\* A greater element has more below it.
LEMMA BelowGrows ==
    ASSUME NEW T \in SUBSET Nat, IsFiniteSet(T), NEW k \in T, NEW l \in T, k < l
    PROVE  Cardinality(Below(T, k)) < Cardinality(Below(T, l))
<1>1. IsFiniteSet(Below(T, k)) /\ IsFiniteSet(Below(T, l))
  <2>1. Below(T, k) \in SUBSET T /\ Below(T, l) \in SUBSET T
    BY DEF Below
  <2> QED BY <2>1, FS_Subset
<1>2. Below(T, k) \cup {l} \in SUBSET Below(T, l) /\ l \notin Below(T, k)
  <2>1. l <= l /\ ~(l <= k) /\ k \in Nat /\ l \in Nat
    BY SMT
  <2>2. ASSUME NEW x \in T, x <= k PROVE x <= l
    <3>1. x \in Nat
      OBVIOUS
    <3> QED BY <2>1, <2>2, <3>1, SMT
  <2> QED BY <2>1, <2>2 DEF Below
<1>3. Cardinality(Below(T, k) \cup {l}) = Cardinality(Below(T, k)) + 1
  BY <1>1, <1>2, FS_AddElement
<1>4. Cardinality(Below(T, k) \cup {l}) <= Cardinality(Below(T, l))
  BY <1>1, <1>2, FS_Subset
<1>5. Cardinality(Below(T, k)) \in Nat /\ Cardinality(Below(T, l)) \in Nat
  BY <1>1, FS_CardinalityType
<1> QED BY <1>3, <1>4, <1>5, SMT

\* The least of one number.
LEMMA MinOne == ASSUME NEW x \in Int PROVE Min({x}) = x
  BY SMT DEF Min

\* An element is at its place.
LEMMA PlaceIs ==
    ASSUME NEW T \in SUBSET Nat, IsFiniteSet(T), NEW k \in T, NEW n,
           Cardinality(Below(T, k)) = n
    PROVE  Place(T, n) = k
<1>1. ASSUME NEW l \in T, Cardinality(Below(T, l)) = n PROVE l = k
  <2>1. IsFiniteSet(Below(T, k))
    <3>1. Below(T, k) \in SUBSET T
      BY DEF Below
    <3> QED BY <3>1, FS_Subset
  <2>2. Cardinality(Below(T, k)) \in Nat
    BY <2>1, FS_CardinalityType
  <2>3. ~(l < k) /\ ~(k < l)
    <3>1. l < k => Cardinality(Below(T, l)) < Cardinality(Below(T, k))
      BY BelowGrows
    <3>2. k < l => Cardinality(Below(T, k)) < Cardinality(Below(T, l))
      BY BelowGrows
    <3> QED BY <1>1, <2>2, <3>1, <3>2, SMT
  <2>4. l \in Nat /\ k \in Nat
    OBVIOUS
  <2> QED BY <2>3, <2>4, SMT
<1>2. {l \in T : Cardinality(Below(T, l)) = n} = {k}
  BY <1>1
<1>3. k \in Int
  BY SMT
<1> QED BY <1>2, <1>3, MinOne DEF Place

\* Every place is taken.
LEMMA PlaceExists ==
    ASSUME NEW T \in SUBSET Nat, IsFiniteSet(T), NEW n \in 1 .. Cardinality(T)
    PROVE  Place(T, n) \in T /\ Cardinality(Below(T, Place(T, n))) = n
<1> DEFINE M == Cardinality(T)
           Good(m) == m = 0 \/ \E k \in T : Cardinality(Below(T, k)) = m
           G == {m \in 0 .. M : Good(m)}
<1>1. M \in Nat
  BY FS_CardinalityType
<1>2. 0 \in G
  BY <1>1, SMT
<1>3. ASSUME NEW m \in 0 .. M - 1, m \in G PROVE m + 1 \in G
  <2>1. PICK B \in SUBSET T : /\ Cardinality(B) = m
                              /\ \A l \in T \ B : Below(T, l) \ B = {x \in T \ B : x <= l}
                              /\ \A l \in T \ B : B \subseteq Below(T, l)
    <3>1. CASE m = 0
      <4>1. Cardinality({}) = 0
        BY FS_EmptySet
      <4> QED BY <3>1, <4>1 DEF Below
    <3>2. CASE m # 0
      <4>1. PICK k \in T : Cardinality(Below(T, k)) = m
        BY <1>3, <3>2
      <4>2. ASSUME NEW l \in T \ Below(T, k) PROVE k < l
        BY <4>2, SMT DEF Below
      <4>3. ASSUME NEW l \in T \ Below(T, k)
            PROVE  /\ Below(T, l) \ Below(T, k) = {x \in T \ Below(T, k) : x <= l}
                   /\ Below(T, k) \subseteq Below(T, l)
        <5>1. k < l /\ l \in Nat /\ k \in Nat
          BY <4>2
        <5>2. ASSUME NEW x \in T, x <= k PROVE x <= l
          <6>1. x \in Nat
            OBVIOUS
          <6> QED BY <5>1, <5>2, <6>1, SMT
        <5> QED BY <5>2 DEF Below
      <4>4. Below(T, k) \in SUBSET T
        BY DEF Below
      <4> QED BY <4>1, <4>3, <4>4
    <3> QED BY <3>1, <3>2
  <2>2. T \ B # {}
    <3>1. m # Cardinality(T)
      BY <1>1, SMT
    <3>2. T \ B = {} => B = T
      OBVIOUS
    <3> QED BY <2>1, <3>1, <3>2
  <2>3. PICK l \in T \ B : \A x \in T \ B : l <= x
    <3>1. T \ B \in SUBSET Nat
      OBVIOUS
    <3> QED BY <2>2, <3>1, LeastNumber
  <2>4. Below(T, l) = B \cup {l}
    <3>1. {x \in T \ B : x <= l} = {l}
      <4>1. ASSUME NEW x \in T \ B, x <= l PROVE x = l
        BY <2>3, <4>1, SMT
      <4>2. l <= l
        BY SMT
      <4> QED BY <4>1, <4>2
    <3>2. Below(T, l) \ B = {l} /\ B \subseteq Below(T, l)
      BY <2>1, <3>1
    <3> QED BY <3>2
  <2>5. IsFiniteSet(B)
    BY FS_Subset
  <2>6. Cardinality(Below(T, l)) = m + 1
    BY <2>1, <2>4, <2>5, FS_AddElement
  <2> QED BY <1>1, <2>6, SMT
<1> HIDE DEF G
<1>4. \A m \in 0 .. M : m \in G
  BY <1>1, <1>2, <1>3, Induction
<1>5. n \in G /\ n # 0
  BY <1>1, <1>4, SMT
<1>6. PICK k \in T : Cardinality(Below(T, k)) = n
  BY <1>5 DEF G
<1> QED BY <1>6, PlaceIs

\* The last place, ...
LEMMA PlaceOfLast ==
    ASSUME NEW T \in SUBSET Nat, IsFiniteSet(T), T # {}
    PROVE  /\ Cardinality(T) \in Nat \ {0} /\ Place(T, Cardinality(T)) \in T
           /\ \A l \in T : l <= Place(T, Cardinality(T))
<1>1. Cardinality(T) \in Nat \ {0}
  BY FS_CardinalityType, FS_EmptySet
<1>2. PICK k : k = Place(T, Cardinality(T))
  OBVIOUS
<1>3. k \in T /\ Cardinality(Below(T, k)) = Cardinality(T)
  BY <1>1, <1>2, PlaceExists, SMT
<1>4. Below(T, k) = T
  <2>1. Below(T, k) \in SUBSET T
    BY DEF Below
  <2> QED BY <1>3, <2>1, FS_Subset
<1> QED BY <1>1, <1>2, <1>3, <1>4 DEF Below

\* ... the first, ...
LEMMA PlaceOfFirst ==
    ASSUME NEW T \in SUBSET Nat, IsFiniteSet(T), NEW x \in T, \A l \in T : x <= l
    PROVE  Place(T, 1) = x
<1>1. Below(T, x) = {x}
  <2>1. ASSUME NEW l \in T, l <= x PROVE l = x
    <3>1. l \in Nat /\ x \in Nat /\ x <= l
      OBVIOUS
    <3> QED BY <2>1, <3>1, SMT
  <2>2. x <= x
    BY SMT
  <2> QED BY <2>1, <2>2 DEF Below
<1>2. Cardinality({x}) = 1
  BY FS_Singleton
<1> QED BY <1>1, <1>2, PlaceIs

\* ... the places when the first is taken away, ...
LEMMA PlaceBehindFirst ==
    ASSUME NEW T \in SUBSET Nat, IsFiniteSet(T), NEW x \in T, \A l \in T : x <= l,
           NEW n \in 1 .. (Cardinality(T) - 1)
    PROVE  Place(T \ {x}, n) = Place(T, n + 1)
<1>1. Cardinality(T) \in Nat
  BY FS_CardinalityType
<1>2. n + 1 \in 1 .. Cardinality(T) /\ n \in Nat /\ n # 0
  BY <1>1, SMT
<1>3. PICK k : k = Place(T, n + 1)
  OBVIOUS
<1>4. k \in T /\ Cardinality(Below(T, k)) = n + 1
  BY <1>2, <1>3, PlaceExists
<1>5. k # x
  <2>1. Place(T, 1) = x
    BY PlaceOfFirst
  <2>2. 1 \in 1 .. Cardinality(T)
    BY <1>1, <1>2, SMT
  <2>3. Cardinality(Below(T, x)) = 1
    BY <2>1, <2>2, PlaceExists
  <2> QED BY <1>2, <1>4, <2>3, SMT
<1>6. Below(T \ {x}, k) = Below(T, k) \ {x} /\ x \in Below(T, k)
  BY <1>4 DEF Below
<1>7. IsFiniteSet(Below(T, k))
  <2>1. Below(T, k) \in SUBSET T
    BY DEF Below
  <2> QED BY <2>1, FS_Subset
<1>8. Cardinality(Below(T \ {x}, k)) = n
  <2>1. Cardinality(Below(T, k) \ {x}) = Cardinality(Below(T, k)) - 1
    BY <1>6, <1>7, FS_RemoveElement
  <2> QED BY <1>2, <1>4, <1>6, <2>1, SMT
<1>9. IsFiniteSet(T \ {x}) /\ T \ {x} \in SUBSET Nat /\ k \in T \ {x}
  BY <1>4, <1>5, FS_RemoveElement
<1> QED BY <1>3, <1>8, <1>9, PlaceIs

\* ... and when there is one more behind them.
LEMMA PlaceOfNext ==
    ASSUME NEW T \in SUBSET Nat, IsFiniteSet(T), NEW x \in Nat, \A l \in T : l < x
    PROVE  /\ Cardinality(T \cup {x}) = Cardinality(T) + 1
           /\ Place(T \cup {x}, Cardinality(T) + 1) = x
           /\ \A n \in 1 .. Cardinality(T) : Place(T \cup {x}, n) = Place(T, n)
<1>1. x \notin T /\ Cardinality(T) \in Nat
  <2>1. ~(x < x)
    BY SMT
  <2> QED BY <2>1, FS_CardinalityType
<1>2. IsFiniteSet(T \cup {x}) /\ T \cup {x} \in SUBSET Nat
      /\ Cardinality(T \cup {x}) = Cardinality(T) + 1
  BY <1>1, FS_AddElement
<1>3. Below(T \cup {x}, x) = T \cup {x}
  <2>1. x <= x /\ \A l \in T : l <= x
    BY SMT
  <2> QED BY <2>1 DEF Below
<1>4. Place(T \cup {x}, Cardinality(T) + 1) = x
  BY <1>2, <1>3, PlaceIs
<1>5. ASSUME NEW n \in 1 .. Cardinality(T) PROVE Place(T \cup {x}, n) = Place(T, n)
  <2>1. PICK k : k = Place(T, n)
    OBVIOUS
  <2>2. k \in T /\ Cardinality(Below(T, k)) = n
    BY <2>1, PlaceExists
  <2>3. Below(T \cup {x}, k) = Below(T, k)
    <3>1. ~(x <= k)
      BY <2>2, SMT
    <3> QED BY <3>1 DEF Below
  <2> QED BY <1>2, <2>1, <2>2, <2>3, PlaceIs
<1> QED BY <1>2, <1>4, <1>5

-------------------------------------------------------------------------------
(* The buffer before it wraps: its positions and the lines between them. *)

\* The buffer is not used a second time.
FirstUse == TypedLimit < Size

\* Then the reader stays behind the writer, and readline is the number of ends of lines
\* between them: the shell takes no NUL of an empty buffer for the end of a command.
FirstInv(s, n) ==
    /\ BufferInv(s, n)
    /\ s.indicator = 0 /\ s.writePosition <= n
    /\ s.readline = Cardinality(Newlines(s))

\* The ends of lines are numbers between the positions.
LEMMA NewlinesType ==
    ASSUME NEW s, NEW n \in Nat, FirstInv(s, n), n <= TypedLimit
    PROVE  /\ Size \in Nat /\ TypedLimit \in Nat
           /\ s.readPosition \in Nat /\ s.writePosition \in Nat
           /\ s.readPosition <= s.writePosition /\ s.writePosition <= TypedLimit
           /\ s.readPosition .. s.writePosition \subseteq Position
           /\ Newlines(s) \in SUBSET Nat /\ IsFiniteSet(Newlines(s))
           /\ Cardinality(Newlines(s)) \in Nat
           /\ \A k \in Newlines(s) : s.readPosition <= k /\ k < s.writePosition
<1>1. Size \in Nat /\ TypedLimit \in Nat
  BY InputAssumption
<1>2. /\ s.readPosition \in Nat /\ s.writePosition \in Nat
      /\ s.readPosition <= s.writePosition /\ s.writePosition <= TypedLimit
  BY <1>1, SMT DEF FirstInv, BufferInv
<1>3. s.readPosition .. s.writePosition \subseteq Position
  BY <1>1, <1>2, SMT DEF Position
<1>4. Newlines(s) \in SUBSET (s.readPosition .. (s.writePosition - 1))
  BY DEF Newlines
<1>5. IsFiniteSet(s.readPosition .. (s.writePosition - 1))
  <2>1. s.readPosition \in Int /\ s.writePosition - 1 \in Int
    BY <1>2, SMT
  <2> QED BY <2>1, FS_Interval
<1>6. IsFiniteSet(Newlines(s))
  BY <1>4, <1>5, FS_Subset
<1>7. \A k \in s.readPosition .. (s.writePosition - 1) :
          k \in Nat /\ s.readPosition <= k /\ k < s.writePosition
  BY <1>2, SMT
<1> QED BY <1>1, <1>2, <1>3, <1>4, <1>6, <1>7, FS_CardinalityType

\* The ends are at their places.
LEMMA EndIs ==
    ASSUME NEW s, NEW n
    PROVE  End(s, n) = IF n = 0 THEN s.readPosition - 1 ELSE Place(Newlines(s), n)
  BY DEF End, EndsUpTo, Place, Below

\* The end of a line is behind the one before.
LEMMA EndsAscend ==
    ASSUME NEW s, NEW n \in Nat, FirstInv(s, n), n <= TypedLimit,
           NEW m \in 1 .. Cardinality(Newlines(s))
    PROVE  /\ End(s, m) \in Newlines(s) /\ End(s, m) \in Int
           /\ End(s, m - 1) \in Int /\ End(s, m - 1) < End(s, m)
           /\ s.readPosition - 1 <= End(s, m - 1)
<1>1. PICK T : T = Newlines(s)
  OBVIOUS
<1>2. /\ s.readPosition \in Nat /\ T \in SUBSET Nat /\ IsFiniteSet(T) /\ Cardinality(T) \in Nat
      /\ \A k \in T : s.readPosition <= k
  BY <1>1, NewlinesType
<1>3. m \in Nat /\ m # 0 /\ m \in 1 .. Cardinality(T)
  BY <1>1, <1>2, SMT
<1>4. PICK k : k = Place(T, m)
  OBVIOUS
<1>5. k \in T /\ Cardinality(Below(T, k)) = m /\ End(s, m) = k
  BY <1>1, <1>2, <1>3, <1>4, PlaceExists, EndIs
<1>6. CASE m = 1
  <2>1. End(s, m - 1) = s.readPosition - 1
    BY <1>6, EndIs, SMT
  <2>2. s.readPosition <= k /\ k \in Nat
    BY <1>2, <1>5
  <2> QED BY <1>1, <1>2, <1>5, <2>1, <2>2, SMT
<1>7. CASE m # 1
  <2>1. m - 1 \in 1 .. Cardinality(T) /\ m - 1 # 0
    BY <1>2, <1>3, <1>7, SMT
  <2>2. PICK l : l = Place(T, m - 1)
    OBVIOUS
  <2>3. l \in T /\ Cardinality(Below(T, l)) = m - 1 /\ End(s, m - 1) = l
    BY <1>1, <1>2, <2>1, <2>2, PlaceExists, EndIs
  <2>4. ~(k < l) /\ k # l
    <3>1. k < l => Cardinality(Below(T, k)) < Cardinality(Below(T, l))
      BY <1>2, <1>5, <2>3, BelowGrows
    <3> QED BY <1>3, <1>5, <2>3, <3>1, SMT
  <2>5. k \in Nat /\ l \in Nat /\ s.readPosition <= l
    BY <1>2, <1>5, <2>3
  <2> QED BY <1>1, <1>2, <1>5, <2>3, <2>4, <2>5, SMT
<1> QED BY <1>6, <1>7

\* The greatest of some numbers.
LEMMA MaxIs ==
    ASSUME NEW S \in SUBSET Int, NEW x \in S, \A y \in S : y <= x
    PROVE  Max(S) = x
<1>1. \A y \in S : x >= y
  BY SMT
<1>2. ASSUME NEW z \in S, \A y \in S : z >= y PROVE z = x
  <2>1. z >= x /\ x >= z /\ z \in Int /\ x \in Int
    BY <1>1, <1>2
  <2> QED BY <2>1, SMT
<1> QED BY <1>1, <1>2 DEF Max

\* The end of the last line that is complete.
LEMMA LastEndEquals ==
    ASSUME NEW s, NEW n \in Nat, FirstInv(s, n), n <= TypedLimit,
           NEW x \in {s.readPosition - 1} \cup Newlines(s), \A y \in Newlines(s) : y <= x
    PROVE  LastEnd(s) = x
<1> DEFINE S == {s.readPosition - 1} \cup Newlines(s)
<1>1. s.readPosition \in Nat /\ Newlines(s) \in SUBSET Nat
      /\ \A y \in Newlines(s) : s.readPosition <= y
  BY NewlinesType
<1>2. S \in SUBSET Int /\ s.readPosition - 1 <= x
  BY <1>1, SMT
<1>3. \A y \in S : y <= x
  BY <1>2
<1>4. x \in S /\ LastEnd(s) = Max(S)
  BY DEF LastEnd
<1> HIDE DEF S
<1> QED BY <1>2, <1>3, <1>4, MaxIs

\* It is the place before the reader or an end of a line, behind all others.
LEMMA LastEndIs ==
    ASSUME NEW s, NEW n \in Nat, FirstInv(s, n), n <= TypedLimit
    PROVE  /\ LastEnd(s) \in {s.readPosition - 1} \cup Newlines(s)
           /\ \A y \in Newlines(s) : y <= LastEnd(s)
           /\ LastEnd(s) = End(s, Cardinality(Newlines(s)))
           /\ LastEnd(s) \in Int /\ s.readPosition - 1 <= LastEnd(s)
           /\ LastEnd(s) < s.writePosition
<1>1. /\ s.readPosition \in Nat /\ s.writePosition \in Nat /\ s.readPosition <= s.writePosition
      /\ Newlines(s) \in SUBSET Nat /\ IsFiniteSet(Newlines(s))
      /\ \A y \in Newlines(s) : s.readPosition <= y /\ y < s.writePosition
  BY NewlinesType
<1>2. PICK x : x = End(s, Cardinality(Newlines(s)))
  OBVIOUS
<1>3. x \in {s.readPosition - 1} \cup Newlines(s) /\ \A y \in Newlines(s) : y <= x
  <2>1. CASE Newlines(s) = {}
    <3>1. Cardinality(Newlines(s)) = 0
      BY <2>1, FS_EmptySet
    <3> QED BY <1>2, <2>1, <3>1, EndIs
  <2>2. CASE Newlines(s) # {}
    <3>1. /\ Cardinality(Newlines(s)) # 0
          /\ Place(Newlines(s), Cardinality(Newlines(s))) \in Newlines(s)
          /\ \A l \in Newlines(s) : l <= Place(Newlines(s), Cardinality(Newlines(s)))
      BY <1>1, <2>2, PlaceOfLast
    <3> QED BY <1>2, <3>1, EndIs
  <2> QED BY <2>1, <2>2
<1>4. LastEnd(s) = x
  BY <1>3, LastEndEquals
<1>5. x \in Int /\ s.readPosition - 1 <= x /\ x < s.writePosition
  <2>1. CASE x = s.readPosition - 1
    BY <1>1, <2>1, SMT
  <2>2. CASE x \in Newlines(s)
    <3>1. x \in Nat /\ s.readPosition <= x /\ x < s.writePosition
      BY <1>1, <2>2
    <3> QED BY <1>1, <3>1, SMT
  <2> QED BY <1>3, <2>1, <2>2
<1> QED BY <1>2, <1>3, <1>4, <1>5

\* Lines with the same bytes and ends are the same.
LEMMA BetweenSame ==
    ASSUME NEW s, NEW u, NEW from \in Int, NEW to \in Int,
           \A k \in from + 1 .. to - 1 : u.buf[k] = s.buf[k]
    PROVE  Between(u, from, to) = Between(s, from, to)
<1>1. \A k \in 1 .. (to - from - 1) : from + k \in from + 1 .. to - 1
  BY SMT
<1> QED BY <1>1 DEF Between

\* Lines are kept by what changes the buffer behind them.
LEMMA LinesKept ==
    ASSUME NEW s, NEW n \in Nat, FirstInv(s, n), n <= TypedLimit, NEW u,
           u.readPosition = s.readPosition,
           \A m \in 1 .. Cardinality(Newlines(s)) : Place(Newlines(u), m) = Place(Newlines(s), m),
           \A k \in s.readPosition .. LastEnd(s) : u.buf[k] = s.buf[k]
    PROVE  \A m \in 1 .. Cardinality(Newlines(s)) :
                Nth(u, m) = Nth(s, m) /\ End(u, m) = End(s, m)
<1> TAKE m \in 1 .. Cardinality(Newlines(s))
<1>1. Cardinality(Newlines(s)) \in Nat /\ s.readPosition \in Nat
  BY NewlinesType
<1>2. m \in Nat /\ m # 0 /\ (m - 1 # 0 => m - 1 \in 1 .. Cardinality(Newlines(s)))
  BY <1>1, SMT
<1>3. End(u, m) = End(s, m) /\ End(u, m - 1) = End(s, m - 1)
  BY <1>2, EndIs
<1>4. PICK a : a = End(s, m - 1)
  OBVIOUS
<1>5. PICK b : b = End(s, m)
  OBVIOUS
<1>6. a \in Int /\ b \in Int /\ s.readPosition - 1 <= a /\ b <= LastEnd(s) /\ LastEnd(s) \in Int
  BY <1>4, <1>5, EndsAscend, LastEndIs
<1>7. \A k \in a + 1 .. b - 1 : k \in s.readPosition .. LastEnd(s)
  BY <1>1, <1>6, SMT
<1>8. Between(u, a, b) = Between(s, a, b)
  BY <1>6, <1>7, BetweenSame
<1> QED BY <1>3, <1>4, <1>5, <1>8 DEF Nth

\* A character that is stored.
LEMMA WriteFirst ==
    ASSUME FirstUse, NEW s, NEW n \in Nat, FirstInv(s, n), n < TypedLimit,
           NEW c \in Char \cup {Newline}, NEW u, u = writeChar(s, c)
    PROVE  /\ u.buf = [s.buf EXCEPT ![s.writePosition] = c]
           /\ u.writePosition = s.writePosition + 1 /\ u.readPosition = s.readPosition
           /\ Newlines(u) = Newlines(s) \cup (IF c = Newline THEN {s.writePosition} ELSE {})
           /\ FirstInv(u, n + 1) /\ Warnings(u) = <<>>
<1>1. n <= TypedLimit /\ n + 1 \in Nat /\ n + 1 <= TypedLimit /\ TypedLimit \in Nat /\ Size \in Nat
      /\ TypedLimit < Size
  <2>1. TypedLimit \in Nat /\ Size \in Nat
    BY InputAssumption
  <2> QED BY <2>1, SMT DEF FirstUse
<1>2. /\ s.readPosition \in Nat /\ s.writePosition \in Nat
      /\ s.readPosition <= s.writePosition /\ s.writePosition <= n
      /\ s.indicator = 0 /\ s.readline = Cardinality(Newlines(s)) /\ BufferInv(s, n)
  BY <1>1, NewlinesType DEF FirstInv
<1>3. PICK stored : stored = [s EXCEPT !.buf[s.writePosition] = c, !.writePosition = @ + 1]
  OBVIOUS
<1>4. /\ stored.buf = [s.buf EXCEPT ![s.writePosition] = c]
      /\ stored.writePosition = s.writePosition + 1
      /\ stored.readPosition = s.readPosition /\ stored.indicator = s.indicator
      /\ stored.readline = s.readline
      /\ stored = [buf |-> stored.buf, writePosition |-> stored.writePosition,
                   readPosition |-> stored.readPosition, indicator |-> stored.indicator,
                   readline |-> stored.readline]
  BY <1>3 DEF FirstInv, BufferInv
<1>5. stored.writePosition # Size /\ stored.writePosition # stored.readPosition - 1
  BY <1>1, <1>2, <1>4, SMT
<1>6. writeChar(s, c) = [stored EXCEPT !.readline = IF c = Newline THEN @ + 1 ELSE @]
  BY <1>3, <1>5 DEF writeChar
<1>7. /\ u.buf = stored.buf /\ u.writePosition = stored.writePosition
      /\ u.readPosition = stored.readPosition /\ u.indicator = stored.indicator
      /\ u.readline = (IF c = Newline THEN stored.readline + 1 ELSE stored.readline)
  BY <1>4, <1>6
<1>8. PICK w : w = s.writePosition
  OBVIOUS
<1>9. /\ w \in Nat /\ w \in Position /\ s.readPosition <= w /\ u.writePosition = w + 1
      /\ u.readPosition = s.readPosition /\ u.buf = [s.buf EXCEPT ![w] = c]
      /\ s.buf \in [Position -> Byte] /\ s.readPosition .. w \subseteq Position
  <2>1. s.readPosition .. s.writePosition \subseteq Position
    BY <1>1, NewlinesType
  <2>2. w \in s.readPosition .. w
    BY <1>2, <1>8, SMT
  <2>3. s.buf \in [Position -> Byte]
    BY <1>2 DEF BufferInv
  <2> QED BY <1>2, <1>4, <1>7, <1>8, <2>1, <2>2, <2>3
<1>10. s.readPosition .. (u.writePosition - 1) = (s.readPosition .. (w - 1)) \cup {w}
       /\ w \notin s.readPosition .. (w - 1)
  BY <1>2, <1>9, SMT
<1>11. u.buf[w] = c /\ \A k \in s.readPosition .. (w - 1) : u.buf[k] = s.buf[k]
  <2>1. \A k \in s.readPosition .. (w - 1) : k \in s.readPosition .. w /\ k # w
    BY <1>2, <1>9, SMT
  <2> QED BY <1>9, <2>1
<1>12. Newlines(u) = Newlines(s) \cup (IF c = Newline THEN {w} ELSE {})
  <2>1. Newlines(s) = {k \in s.readPosition .. (w - 1) : s.buf[k] = Newline}
    BY <1>8 DEF Newlines
  <2>2. Newlines(u) = {k \in (s.readPosition .. (w - 1)) \cup {w} : u.buf[k] = Newline}
    BY <1>9, <1>10 DEF Newlines
  <2>3. CASE c = Newline
    BY <1>11, <2>1, <2>2, <2>3
  <2>4. CASE c # Newline
    BY <1>11, <2>1, <2>2, <2>4
  <2> QED BY <2>3, <2>4
<1>13. u.readline = Cardinality(Newlines(u))
  <2>1. IsFiniteSet(Newlines(s)) /\ w \notin Newlines(s)
    <3>1. \A k \in Newlines(s) : k \in Nat /\ k < w
      BY <1>1, <1>8, NewlinesType
    <3>2. ~(w < w)
      BY <1>9, SMT
    <3> QED BY <1>1, <3>1, <3>2, NewlinesType
  <2>2. Cardinality(Newlines(s) \cup {w}) = Cardinality(Newlines(s)) + 1
    BY <2>1, FS_AddElement
  <2>3. CASE c = Newline
    BY <1>2, <1>4, <1>7, <1>12, <2>2, <2>3
  <2>4. CASE c # Newline
    BY <1>2, <1>4, <1>7, <1>12, <2>4
  <2> QED BY <2>3, <2>4
<1>15. BufferInv(u, n + 1)
  BY <1>2, WriteType
<1>16. u.writePosition <= n + 1 /\ u.indicator = 0
  BY <1>2, <1>4, <1>7, SMT
<1>17. Warnings(u) = <<>>
  <2>1. <<>> \o <<>> = <<>>
    BY EmptySeq, ConcatEmptySeq
  <2>2. u.writePosition # Size /\ u.writePosition # u.readPosition - 1
    BY <1>5, <1>7
  <2> QED BY <2>1, <2>2 DEF Warnings
<1> QED BY <1>8, <1>9, <1>12, <1>13, <1>15, <1>16, <1>17 DEF FirstInv

\* A character that is read.
LEMMA ReadFirst ==
    ASSUME FirstUse, NEW s, NEW n \in Nat, FirstInv(s, n), n <= TypedLimit, Readable(s),
           NEW u, u = readChar(s)
    PROVE  /\ s.readPosition < s.writePosition /\ NextChar(s) = s.buf[s.readPosition]
           /\ NextChar(s) \in Byte
           /\ \A k \in s.readPosition + 1 .. s.writePosition : u.buf[k] = s.buf[k]
           /\ u.writePosition = s.writePosition /\ u.readPosition = s.readPosition + 1
           /\ Newlines(u) = Newlines(s) \ {s.readPosition} /\ FirstInv(u, n)
<1>1. /\ s.readPosition \in Nat /\ s.writePosition \in Nat /\ Size \in Nat /\ TypedLimit \in Nat
      /\ s.readPosition <= s.writePosition /\ s.writePosition <= TypedLimit
      /\ s.readPosition .. s.writePosition \subseteq Position
      /\ s.indicator = 0 /\ s.readline = Cardinality(Newlines(s)) /\ BufferInv(s, n)
  BY NewlinesType DEF FirstInv
<1>2. s.readPosition < s.writePosition /\ NextChar(s) = s.buf[s.readPosition]
  BY <1>1, SMT DEF Readable, NextChar
<1>3. PICK r : r = s.readPosition
  OBVIOUS
<1>4. /\ r \in Nat /\ r # Size /\ r \in s.readPosition .. (s.writePosition - 1)
      /\ r \in s.readPosition .. s.writePosition
      /\ s.readPosition .. (s.writePosition - 1) = {r} \cup (r + 1 .. s.writePosition - 1)
      /\ r \notin r + 1 .. s.writePosition
      /\ r + 1 .. s.writePosition \subseteq s.readPosition .. s.writePosition
      /\ r + 1 .. s.writePosition - 1 \subseteq r + 1 .. s.writePosition
  BY <1>1, <1>2, <1>3, SMT DEF FirstUse
<1>5. NextChar(s) \in Byte /\ NextChar(s) = s.buf[r]
  BY <1>1, <1>2, <1>3, <1>4, ReadType
<1>6. u = [s EXCEPT !.buf[s.readPosition] = Nul, !.readPosition = s.readPosition + 1,
                    !.indicator = s.indicator,
                    !.readline = IF NextChar(s) = Newline THEN @ - 1 ELSE @]
  BY <1>3, <1>4 DEF readChar
<1>7. /\ u.buf = [s.buf EXCEPT ![r] = Nul] /\ u.writePosition = s.writePosition
      /\ u.readPosition = r + 1 /\ u.indicator = 0
      /\ u.readline = (IF NextChar(s) = Newline THEN s.readline - 1 ELSE s.readline)
  BY <1>1, <1>3, <1>6 DEF BufferInv
<1>8. \A k \in r + 1 .. s.writePosition : u.buf[k] = s.buf[k]
  <2>1. \A k \in r + 1 .. s.writePosition : k \in Position /\ k # r
    BY <1>1, <1>4
  <2>2. s.buf \in [Position -> Byte]
    BY <1>1 DEF BufferInv
  <2> QED BY <1>7, <2>1, <2>2
<1>9. Newlines(u) = {k \in r + 1 .. s.writePosition - 1 : s.buf[k] = Newline}
  BY <1>4, <1>7, <1>8 DEF Newlines
<1>10. Newlines(s) = {k \in {r} \cup (r + 1 .. s.writePosition - 1) : s.buf[k] = Newline}
  BY <1>3, <1>4 DEF Newlines
<1>11. Newlines(u) = Newlines(s) \ {r} /\ (r \in Newlines(s) <=> NextChar(s) = Newline)
  BY <1>4, <1>5, <1>9, <1>10
<1>12. u.readline = Cardinality(Newlines(u))
  <2>1. IsFiniteSet(Newlines(s))
    BY NewlinesType
  <2>2. Cardinality(Newlines(u)) =
          IF r \in Newlines(s) THEN Cardinality(Newlines(s)) - 1 ELSE Cardinality(Newlines(s))
    BY <1>11, <2>1, FS_RemoveElement
  <2> QED BY <1>1, <1>7, <1>11, <2>2
<1>14. BufferInv(u, n)
  BY <1>1, ReadType
<1>15. u.writePosition <= n
  BY <1>7 DEF FirstInv
<1> QED BY <1>2, <1>3, <1>5, <1>7, <1>8, <1>11, <1>12, <1>14, <1>15 DEF FirstInv

\* A backspace takes the last character off the line that is typed, or none.
LEMMA BackFirst ==
    ASSUME NEW s, NEW n \in Nat, FirstInv(s, n), n <= TypedLimit,
           NEW u, u = handleBackspace(s)
    PROVE  /\ u.readPosition = s.readPosition /\ Newlines(u) = Newlines(s) /\ FirstInv(u, n)
           /\ \/ u.writePosition = s.writePosition
              \/ /\ s.readPosition < s.writePosition /\ s.buf[s.writePosition - 1] # Newline
                 /\ u.writePosition = s.writePosition - 1
           /\ \A k \in s.readPosition .. u.writePosition - 1 : u.buf[k] = s.buf[k]
<1>1. /\ s.readPosition \in Nat /\ s.writePosition \in Nat /\ Size \in Nat /\ TypedLimit \in Nat
      /\ s.readPosition <= s.writePosition /\ s.writePosition <= TypedLimit
      /\ s.readPosition .. s.writePosition \subseteq Position
      /\ s.indicator = 0 /\ s.readline = Cardinality(Newlines(s)) /\ BufferInv(s, n)
      /\ s.writePosition <= n
  BY NewlinesType DEF FirstInv
<1>2. s.buf \in [Position -> Byte] /\ BufferInv(u, n)
  BY <1>1, BackType DEF BufferInv
<1>3. CASE s.writePosition = s.readPosition
  <2>0. ~(s.writePosition > s.readPosition) /\ ~(s.readPosition > s.writePosition)
    BY <1>1, <1>3, SMT
  <2>1. u = [s EXCEPT !.buf[s.writePosition] = Nul]
    BY <1>3, <2>0 DEF handleBackspace
  <2>2. /\ u.writePosition = s.writePosition /\ u.readPosition = s.readPosition
        /\ u.indicator = s.indicator /\ u.readline = s.readline
    BY <1>1, <2>1 DEF BufferInv
  <2>3. s.readPosition .. (s.writePosition - 1) = {}
    BY <1>1, <1>3, SMT
  <2>4. Newlines(u) = {} /\ Newlines(s) = {}
    BY <2>2, <2>3 DEF Newlines
  <2>5. \A k \in s.readPosition .. u.writePosition - 1 : u.buf[k] = s.buf[k]
    BY <2>2, <2>3
  <2>6. FirstInv(u, n)
    BY <1>1, <1>2, <2>2, <2>4, <2>5 DEF FirstInv
  <2> QED BY <2>2, <2>4, <2>5, <2>6
<1>4. CASE /\ s.writePosition # s.readPosition
           /\ s.buf[s.writePosition - 1] # Newline
  <2>0. s.writePosition > s.readPosition /\ ~(s.readPosition > s.writePosition)
        /\ s.readPosition < s.writePosition
    BY <1>1, <1>4, SMT
  <2>1. u = [s EXCEPT !.writePosition = @ - 1, !.buf[s.writePosition - 1] = Nul]
    BY <1>1, <1>4, <2>0 DEF handleBackspace
  <2>2. /\ u.buf = [s.buf EXCEPT ![s.writePosition - 1] = Nul]
        /\ u.writePosition = s.writePosition - 1 /\ u.readPosition = s.readPosition
        /\ u.indicator = s.indicator /\ u.readline = s.readline
    BY <1>1, <2>1 DEF BufferInv
  <2>3. PICK w : w = s.writePosition - 1
    OBVIOUS
  <2>4. /\ s.readPosition .. (s.writePosition - 1) = (s.readPosition .. w - 1) \cup {w}
        /\ w \notin s.readPosition .. w - 1 /\ w <= n
        /\ s.readPosition .. w - 1 \subseteq s.readPosition .. s.writePosition
        /\ s.readPosition .. w - 1 \subseteq s.readPosition .. (s.writePosition - 1)
    BY <1>1, <2>0, <2>3, SMT
  <2>5. \A k \in s.readPosition .. w - 1 : u.buf[k] = s.buf[k]
    <3>1. \A k \in s.readPosition .. w - 1 : k \in Position /\ k # w
      BY <1>1, <2>4
    <3> QED BY <1>2, <2>2, <2>3, <3>1
  <2>6. Newlines(u) = Newlines(s)
    <3>1. Newlines(s) = {k \in (s.readPosition .. w - 1) \cup {w} : s.buf[k] = Newline}
      BY <2>4 DEF Newlines
    <3>2. Newlines(u) = {k \in s.readPosition .. w - 1 : u.buf[k] = Newline}
      BY <2>2, <2>3 DEF Newlines
    <3> QED BY <1>4, <2>3, <2>5, <3>1, <3>2
  <2>8. FirstInv(u, n)
    BY <1>1, <1>2, <2>2, <2>3, <2>4, <2>6 DEF FirstInv
  <2> QED BY <1>4, <2>0, <2>2, <2>3, <2>5, <2>6, <2>8
<1>5. CASE /\ s.writePosition # s.readPosition
           /\ s.buf[s.writePosition - 1] = Newline
  <2>0. ~(s.readPosition > s.writePosition)
    BY <1>1, SMT
  <2>1. u = s
    BY <1>5, <2>0 DEF handleBackspace
  <2> QED BY <2>1
<1> QED BY <1>3, <1>4, <1>5

\* The bytes between two positions, ...
LEMMA BetweenType ==
    ASSUME NEW s, NEW from \in Int, NEW to \in Int, from < to,
           \A k \in from + 1 .. to - 1 : s.buf[k] \in Byte
    PROVE  /\ Between(s, from, to) \in Seq(Byte)
           /\ Len(Between(s, from, to)) = to - from - 1
           /\ \A k \in 1 .. (to - from - 1) : Between(s, from, to)[k] = s.buf[from + k]
<1>1. PICK d : d = to - from - 1
  OBVIOUS
<1>2. d \in Nat
  BY <1>1, SMT
<1>3. \A k \in 1 .. d : s.buf[from + k] \in Byte
  <2>1. \A k \in 1 .. d : from + k \in from + 1 .. to - 1
    BY <1>1, <1>2, SMT
  <2> QED BY <2>1
<1>4. [k \in 1 .. d |-> s.buf[from + k]] \in Seq(Byte)
  BY <1>2, <1>3, IsASeq
<1>5. PICK t : t = [k \in 1 .. d |-> s.buf[from + k]]
  OBVIOUS
<1>6. Between(s, from, to) = t
  BY <1>1, <1>5 DEF Between
<1>7. Len(t) = d
  <2>1. t \in Seq(Byte) /\ DOMAIN t = 1 .. d
    BY <1>4, <1>5
  <2>2. Len(t) \in Nat /\ DOMAIN t = 1 .. Len(t)
    BY <2>1, LenProperties
  <2> QED BY <1>2, <2>1, <2>2, SMT
<1>8. \A k \in 1 .. d : t[k] = s.buf[from + k]
  BY <1>5
<1> QED BY <1>1, <1>4, <1>5, <1>6, <1>7, <1>8

\* ... with one more behind them, ...
Then(a, e) == Append(a, e)
\* ... from bytes that both buffers have there, ...
SameBytes(s, u, from, to) ==
    \A k \in from + 1 .. to - 1 : s.buf[k] \in Byte /\ u.buf[k] = s.buf[k]

\* The bytes up to one place further are those with one more behind them.
LEMMA BetweenMore ==
    ASSUME NEW s, NEW u, NEW from \in Int, NEW to \in Int, from < to,
           SameBytes(s, u, from, to), u.buf[to] \in Byte, NEW a, a = Between(s, from, to)
    PROVE  Between(u, from, to + 1) = Then(a, u.buf[to])
<1>1. a = Between(s, from, to)
  OBVIOUS
<1>2. PICK b : b = Between(u, from, to + 1)
  OBVIOUS
<1>3. PICK d : d = to - from - 1
  OBVIOUS
<1>4. d \in Nat /\ (to + 1) - from - 1 = d + 1 /\ from < to + 1 /\ to + 1 \in Int /\ from + (d + 1) = to
  BY <1>3, SMT
<1>5. /\ a \in Seq(Byte) /\ Len(a) = d
      /\ \A k \in 1 .. d : a[k] = s.buf[from + k]
  <2>1. \A k \in from + 1 .. to - 1 : s.buf[k] \in Byte
    BY DEF SameBytes
  <2>2. /\ a \in Seq(Byte) /\ Len(a) = to - from - 1
        /\ \A k \in 1 .. (to - from - 1) : a[k] = s.buf[from + k]
    BY <1>1, <2>1, BetweenType
  <2> QED BY <1>3, <2>2
<1>6. /\ b \in Seq(Byte) /\ Len(b) = d + 1
      /\ \A k \in 1 .. d + 1 : b[k] = u.buf[from + k]
  <2>1. \A k \in from + 1 .. (to + 1) - 1 : u.buf[k] \in Byte
    <3>1. \A k \in from + 1 .. (to + 1) - 1 : k \in from + 1 .. to - 1 \/ k = to
      BY SMT
    <3> QED BY <3>1 DEF SameBytes
  <2> QED BY <1>2, <1>4, <2>1, BetweenType
<1>7. PICK e : e = u.buf[to]
  OBVIOUS
<1>8. PICK c : c = Append(a, e)
  OBVIOUS
<1>9. /\ c \in Seq(Byte) /\ Len(c) = d + 1
      /\ \A k \in 1 .. d : c[k] = a[k]
      /\ c[d + 1] = e
  BY <1>5, <1>7, <1>8, AppendProperties
<1>10. ASSUME NEW k \in 1 .. d + 1 PROVE b[k] = c[k]
  <2>1. CASE k = d + 1
    BY <1>4, <1>6, <1>7, <1>9, <2>1
  <2>2. CASE k # d + 1
    <3>1. k \in 1 .. d
      BY <1>4, <2>2, SMT
    <3>2. from + k \in from + 1 .. to - 1
      BY <1>3, <1>4, <3>1, SMT
    <3> QED BY <1>5, <1>6, <1>9, <3>1, <3>2 DEF SameBytes
  <2> QED BY <2>1, <2>2
<1>11. b = c
  BY <1>6, <1>9, <1>10, SeqEqual
<1> QED BY <1>1, <1>2, <1>7, <1>8, <1>11 DEF Then

\* ... and behind the first of them.
Behind(c, t) == <<c>> \o t

\* The bytes from one place further back are those with one more in front.
LEMMA BetweenHead ==
    ASSUME NEW s, NEW u, NEW from \in Int, NEW to \in Int, from + 1 < to,
           s.buf[from + 1] \in Byte, SameBytes(s, u, from + 1, to)
    PROVE  Between(s, from, to) = Behind(s.buf[from + 1], Between(u, from + 1, to))
<1>1. PICK a : a = Between(s, from, to)
  OBVIOUS
<1>2. PICK b : b = Between(u, from + 1, to)
  OBVIOUS
<1>3. PICK d : d = to - from - 1
  OBVIOUS
<1>4. /\ d \in Nat /\ 1 <= d /\ to - (from + 1) - 1 = d - 1 /\ from < to /\ from + 1 \in Int
      /\ d - 1 \in Nat
  BY <1>3, SMT
<1>n. \A k \in from + 1 .. to - 1 : s.buf[k] \in Byte
  <2>1. \A k \in from + 1 .. to - 1 : k = from + 1 \/ k \in (from + 1) + 1 .. to - 1
    BY SMT
  <2> QED BY <2>1 DEF SameBytes
<1>5. /\ a \in Seq(Byte) /\ Len(a) = d
      /\ \A k \in 1 .. d : a[k] = s.buf[from + k]
  BY <1>1, <1>3, <1>4, <1>n, BetweenType
<1>6. /\ b \in Seq(Byte) /\ Len(b) = d - 1
      /\ \A k \in 1 .. d - 1 : b[k] = u.buf[(from + 1) + k]
  <2>1. \A k \in (from + 1) + 1 .. to - 1 : u.buf[k] \in Byte
    BY DEF SameBytes
  <2> QED BY <1>2, <1>4, <2>1, BetweenType
<1>7. PICK e : e = s.buf[from + 1]
  OBVIOUS
<1>8. e \in Byte
  BY <1>7
<1>9. PICK h : h = <<e>>
  OBVIOUS
<1>10. h \in Seq(Byte) /\ Len(h) = 1 /\ h[1] = e
  BY <1>8, <1>9
<1>11. PICK c : c = h \o b
  OBVIOUS
<1>12. /\ c \in Seq(Byte) /\ Len(c) = d
       /\ \A k \in 1 .. d : c[k] = IF k <= 1 THEN h[k] ELSE b[k - 1]
  <2>1. /\ c \in Seq(Byte) /\ Len(c) = Len(h) + Len(b)
        /\ \A k \in 1 .. Len(h) + Len(b) : c[k] = IF k <= Len(h) THEN h[k] ELSE b[k - Len(h)]
    BY <1>6, <1>10, <1>11, ConcatProperties
  <2>2. 1 + (d - 1) = d
    BY <1>4, SMT
  <2> QED BY <1>6, <1>10, <2>1, <2>2
<1>13. ASSUME NEW k \in 1 .. d PROVE a[k] = c[k]
  <2>1. CASE k = 1
    <3>1. 1 <= 1
      BY SMT
    <3> QED BY <1>5, <1>7, <1>10, <1>12, <2>1, <3>1
  <2>2. CASE k # 1
    <3>1. ~(k <= 1) /\ k - 1 \in 1 .. d - 1 /\ (from + 1) + (k - 1) = from + k
          /\ from + k \in (from + 1) + 1 .. to - 1
      BY <1>3, <1>4, <2>2, SMT
    <3>2. c[k] = b[k - 1] /\ b[k - 1] = u.buf[from + k] /\ a[k] = s.buf[from + k]
      BY <1>5, <1>6, <1>12, <3>1
    <3> QED BY <3>1, <3>2 DEF SameBytes
  <2> QED BY <2>1, <2>2
<1>14. a = c
  BY <1>5, <1>12, <1>13, SeqEqual
<1> QED BY <1>1, <1>2, <1>7, <1>9, <1>11, <1>14 DEF Behind

\* Nothing is between neighbours.
LEMMA BetweenNone ==
    ASSUME NEW s, NEW from \in Int, NEW to \in Int, to = from + 1
    PROVE  Between(s, from, to) = <<>>
<1>1. Between(s, from, to) \in Seq(Byte) /\ Len(Between(s, from, to)) = 0
  <2>1. from < to /\ to - from - 1 = 0 /\ \A k \in from + 1 .. to - 1 : s.buf[k] \in Byte
    BY SMT
  <2> QED BY <2>1, BetweenType
<1>2. <<>> \in Seq(Byte) /\ Len(<<>>) = 0
  BY EmptySeq
<1>3. \A k \in 1 .. 0 : FALSE
  BY SMT
<1> QED BY <1>1, <1>2, <1>3, SeqEqual

\* The bytes between the positions, and the lines made of them.
LEMMA LinesType ==
    ASSUME NEW s, NEW n \in Nat, FirstInv(s, n), n <= TypedLimit
    PROVE  /\ \A k \in s.readPosition .. (s.writePosition - 1) : s.buf[k] \in Byte
           /\ LineTyped(s) \in Seq(Byte)
           /\ \A m \in 1 .. Cardinality(Newlines(s)) : Nth(s, m) \in Seq(Byte)
<1>1. /\ s.readPosition \in Nat /\ s.writePosition \in Nat /\ s.readPosition <= s.writePosition
      /\ s.readPosition .. s.writePosition \subseteq Position
      /\ Newlines(s) \in SUBSET Nat
      /\ \A k \in Newlines(s) : s.readPosition <= k /\ k < s.writePosition
  BY NewlinesType
<1>2. \A k \in s.readPosition .. (s.writePosition - 1) : s.buf[k] \in Byte
  <2>1. s.readPosition .. (s.writePosition - 1) \subseteq s.readPosition .. s.writePosition
    BY <1>1, SMT
  <2> QED BY <1>1, <2>1 DEF FirstInv, BufferInv
<1>3. ASSUME NEW from \in Int, NEW to \in Int, s.readPosition - 1 <= from, from < to,
             to <= s.writePosition
      PROVE  Between(s, from, to) \in Seq(Byte)
  <2>1. from + 1 .. to - 1 \subseteq s.readPosition .. (s.writePosition - 1)
    BY <1>1, <1>3, SMT
  <2>2. \A k \in from + 1 .. to - 1 : s.buf[k] \in Byte
    BY <1>2, <2>1
  <2> QED BY <1>3, <2>2, BetweenType
<1>4. LineTyped(s) \in Seq(Byte)
  <2>1. /\ LastEnd(s) \in Int /\ s.readPosition - 1 <= LastEnd(s)
        /\ LastEnd(s) < s.writePosition /\ s.writePosition <= s.writePosition
        /\ s.writePosition \in Int
    BY <1>1, LastEndIs, SMT
  <2> QED BY <1>3, <2>1 DEF LineTyped
<1>5. ASSUME NEW m \in 1 .. Cardinality(Newlines(s)) PROVE Nth(s, m) \in Seq(Byte)
  <2>1. PICK a : a = End(s, m - 1)
    OBVIOUS
  <2>2. PICK b : b = End(s, m)
    OBVIOUS
  <2>3. b \in Newlines(s) /\ a \in Int /\ a < b /\ s.readPosition - 1 <= a
    BY <2>1, <2>2, EndsAscend
  <2>4. b \in Int /\ b < s.writePosition
    BY <1>1, <2>3, SMT
  <2>5. b <= s.writePosition
    BY <1>1, <2>4, SMT
  <2> QED BY <1>3, <2>1, <2>2, <2>3, <2>4, <2>5 DEF Nth
<1> QED BY <1>2, <1>4, <1>5

\* A character that is not the end of a line is behind the line that is typed.
LEMMA TypeLine ==
    ASSUME FirstUse, NEW s, NEW n \in Nat, FirstInv(s, n), n < TypedLimit,
           NEW c \in Char, NEW u, u = writeChar(s, c)
    PROVE  /\ LineTyped(u) = Append(LineTyped(s), c)
           /\ Newlines(u) = Newlines(s)
           /\ \A m \in 1 .. Cardinality(Newlines(s)) : Nth(u, m) = Nth(s, m)
<1>1. c # Newline /\ c \in Byte /\ c \in Char \cup {Newline}
  BY InputAssumption DEF Char, Key, CtrlKey, Space, Blank, Nul, Newline, Byte
<1>2. n <= TypedLimit
  BY InputAssumption, SMT
<1>3. /\ u.buf = [s.buf EXCEPT ![s.writePosition] = c]
      /\ u.writePosition = s.writePosition + 1 /\ u.readPosition = s.readPosition
      /\ Newlines(u) = Newlines(s)
  <2>1. /\ u.buf = [s.buf EXCEPT ![s.writePosition] = c]
        /\ u.writePosition = s.writePosition + 1 /\ u.readPosition = s.readPosition
        /\ Newlines(u) = Newlines(s) \cup (IF c = Newline THEN {s.writePosition} ELSE {})
    BY <1>1, WriteFirst
  <2> QED BY <1>1, <2>1
<1>4. PICK x : x = LastEnd(s)
  OBVIOUS
<1>5. PICK w : w = s.writePosition
  OBVIOUS
<1>6. /\ x \in Int /\ s.readPosition - 1 <= x /\ x < w /\ LastEnd(u) = x
      /\ w \in Nat /\ s.readPosition \in Nat /\ s.readPosition .. w \subseteq Position
      /\ s.readPosition <= w
  <2>1. LastEnd(u) = LastEnd(s)
    BY <1>3 DEF LastEnd
  <2> QED BY <1>2, <1>4, <1>5, <2>1, LastEndIs, NewlinesType
<1>7. s.buf \in [Position -> Byte]
  BY DEF FirstInv, BufferInv
<1>8. u.buf[w] = c /\ \A k \in s.readPosition .. w - 1 : u.buf[k] = s.buf[k]
  <2>1. /\ w \in s.readPosition .. w
        /\ \A k \in s.readPosition .. w - 1 : k \in s.readPosition .. w /\ k # w
    BY <1>6, SMT
  <2> QED BY <1>3, <1>5, <1>6, <1>7, <2>1
<1>9. LineTyped(u) = Append(LineTyped(s), c)
  <2>1. \A k \in x + 1 .. w - 1 : k \in s.readPosition .. w - 1
    BY <1>6, SMT
  <2>2. \A k \in x + 1 .. w - 1 : s.buf[k] \in Byte /\ u.buf[k] = s.buf[k]
    BY <1>2, <1>5, <1>8, <2>1, LinesType
  <2>3. w \in Int /\ u.buf[w] \in Byte
    BY <1>1, <1>6, <1>8
  <2>4. PICK a : a = Between(s, x, w)
    OBVIOUS
  <2>5. Between(u, x, w + 1) = Then(a, u.buf[w])
    <3>1. SameBytes(s, u, x, w)
      BY <2>2 DEF SameBytes
    <3>3. x \in Int /\ w \in Int /\ x < w /\ u.buf[w] \in Byte
      BY <1>6, <2>3
    <3> QED BY <3>1, <3>3, <2>4, BetweenMore
  <2> QED BY <1>3, <1>4, <1>5, <1>6, <1>8, <2>4, <2>5 DEF LineTyped, Then
<1>10. \A k \in s.readPosition .. LastEnd(s) : u.buf[k] = s.buf[k]
  <2>1. \A k \in s.readPosition .. x : k \in s.readPosition .. w - 1
    BY <1>6, SMT
  <2> QED BY <1>4, <1>8, <2>1
<1>11. \A m \in 1 .. Cardinality(Newlines(s)) : Nth(u, m) = Nth(s, m)
  BY <1>2, <1>3, <1>10, LinesKept
<1> QED BY <1>3, <1>9, <1>11

\* Enter makes the line that is typed the last of the lines.
LEMMA EnterLine ==
    ASSUME FirstUse, NEW s, NEW n \in Nat, FirstInv(s, n), n < TypedLimit,
           NEW u, u = writeChar(s, Newline)
    PROVE  /\ LineTyped(u) = <<>>
           /\ Cardinality(Newlines(u)) = Cardinality(Newlines(s)) + 1
           /\ \A m \in 1 .. Cardinality(Newlines(s)) : Nth(u, m) = Nth(s, m)
           /\ Nth(u, Cardinality(Newlines(s)) + 1) = LineTyped(s)
<1>1. Newline \in Char \cup {Newline}
  OBVIOUS
<1>2. n <= TypedLimit /\ n + 1 \in Nat /\ n + 1 <= TypedLimit
  BY InputAssumption, SMT
<1>3. /\ u.buf = [s.buf EXCEPT ![s.writePosition] = Newline]
      /\ u.writePosition = s.writePosition + 1 /\ u.readPosition = s.readPosition
      /\ Newlines(u) = Newlines(s) \cup {s.writePosition} /\ FirstInv(u, n + 1)
  BY <1>1, WriteFirst
<1>4. PICK x : x = LastEnd(s)
  OBVIOUS
<1>5. PICK w : w = s.writePosition
  OBVIOUS
<1>6. PICK M : M = Cardinality(Newlines(s))
  OBVIOUS
<1>7. /\ x \in Int /\ s.readPosition - 1 <= x /\ x < w /\ x = End(s, M)
      /\ w \in Nat /\ s.readPosition \in Nat /\ s.readPosition .. w \subseteq Position
      /\ s.readPosition <= w /\ M \in Nat
      /\ Newlines(s) \in SUBSET Nat /\ IsFiniteSet(Newlines(s)) /\ \A l \in Newlines(s) : l < w
  BY <1>2, <1>4, <1>5, <1>6, LastEndIs, NewlinesType
<1>8. s.buf \in [Position -> Byte]
  BY DEF FirstInv, BufferInv
<1>9. \A k \in s.readPosition .. w - 1 : u.buf[k] = s.buf[k]
  <2>1. \A k \in s.readPosition .. w - 1 : k \in s.readPosition .. w /\ k # w
    BY <1>7, SMT
  <2> QED BY <1>3, <1>5, <1>7, <1>8, <2>1
<1>10. /\ Cardinality(Newlines(u)) = M + 1 /\ Place(Newlines(u), M + 1) = w
       /\ \A m \in 1 .. M : Place(Newlines(u), m) = Place(Newlines(s), m)
  <2>1. PICK T : T = Newlines(s)
    OBVIOUS
  <2>2. T \in SUBSET Nat /\ IsFiniteSet(T) /\ w \in Nat /\ (\A l \in T : l < w)
    BY <1>7, <2>1
  <2>3. /\ Cardinality(T \cup {w}) = Cardinality(T) + 1
        /\ Place(T \cup {w}, Cardinality(T) + 1) = w
        /\ \A m \in 1 .. Cardinality(T) : Place(T \cup {w}, m) = Place(T, m)
    BY <2>2, PlaceOfNext
  <2>4. Newlines(u) = T \cup {w} /\ M = Cardinality(T)
    BY <1>3, <1>5, <1>6, <2>1
  <2> QED BY <2>1, <2>3, <2>4
<1>11. LineTyped(u) = <<>>
  <2>1. w \in {u.readPosition - 1} \cup Newlines(u) /\ \A y \in Newlines(u) : y <= w
    <3>1. w <= w /\ \A y \in Newlines(s) : y <= w
      BY <1>7, SMT
    <3> QED BY <1>3, <1>5, <3>1
  <2>2. LastEnd(u) = w
    BY <1>2, <1>3, <2>1, LastEndEquals
  <2>3. w \in Int /\ w + 1 \in Int
    BY <1>7, SMT
  <2>4. Between(u, w, w + 1) = <<>>
    BY <2>3, BetweenNone
  <2> QED BY <1>3, <1>5, <2>2, <2>4 DEF LineTyped
<1>12. \A k \in s.readPosition .. LastEnd(s) : u.buf[k] = s.buf[k]
  <2>1. \A k \in s.readPosition .. x : k \in s.readPosition .. w - 1
    BY <1>7, SMT
  <2> QED BY <1>4, <1>9, <2>1
<1>13. \A m \in 1 .. M : Nth(u, m) = Nth(s, m) /\ End(u, m) = End(s, m)
  BY <1>2, <1>3, <1>6, <1>10, <1>12, LinesKept
<1>14. Nth(u, M + 1) = LineTyped(s)
  <2>1. M + 1 # 0 /\ (M + 1) - 1 = M
    BY <1>7, SMT
  <2>2. End(u, M + 1) = w
    BY <1>10, <2>1, EndIs
  <2>3. End(u, M) = x
    <3>1. CASE M = 0
      BY <1>3, <1>7, <3>1, EndIs
    <3>2. CASE M # 0
      <4>1. M \in 1 .. M
        BY <1>7, <3>2, SMT
      <4> QED BY <1>7, <1>13, <4>1
    <3> QED BY <3>1, <3>2
  <2>4. \A k \in x + 1 .. w - 1 : k \in s.readPosition .. w - 1
    BY <1>7, SMT
  <2>5. \A k \in x + 1 .. w - 1 : u.buf[k] = s.buf[k]
    BY <1>9, <2>4
  <2>6. w \in Int
    BY <1>7
  <2>7. Between(u, x, w) = Between(s, x, w)
    BY <1>7, <2>5, <2>6, BetweenSame
  <2> QED BY <1>4, <1>5, <2>1, <2>2, <2>3, <2>7 DEF Nth, LineTyped
<1> QED BY <1>6, <1>10, <1>11, <1>13, <1>14

\* A backspace takes the last character off the line that is typed.
LEMMA EraseLine ==
    ASSUME NEW s, NEW n \in Nat, FirstInv(s, n), n <= TypedLimit,
           NEW u, u = handleBackspace(s)
    PROVE  /\ Newlines(u) = Newlines(s)
           /\ \A m \in 1 .. Cardinality(Newlines(s)) : Nth(u, m) = Nth(s, m)
           /\ IF u.writePosition = s.writePosition THEN LineTyped(u) = LineTyped(s)
              ELSE \E c \in Byte : LineTyped(s) = Append(LineTyped(u), c)
<1>1. /\ u.readPosition = s.readPosition /\ Newlines(u) = Newlines(s) /\ FirstInv(u, n)
      /\ \/ u.writePosition = s.writePosition
         \/ /\ s.readPosition < s.writePosition /\ s.buf[s.writePosition - 1] # Newline
            /\ u.writePosition = s.writePosition - 1
      /\ \A k \in s.readPosition .. u.writePosition - 1 : u.buf[k] = s.buf[k]
  BY BackFirst
<1>2. PICK x : x = LastEnd(s)
  OBVIOUS
<1>3. PICK w : w = u.writePosition
  OBVIOUS
<1>4. /\ x \in Int /\ s.readPosition - 1 <= x /\ LastEnd(u) = x /\ x < w
      /\ w \in Int /\ s.readPosition \in Nat /\ s.writePosition \in Nat
  <2>1. LastEnd(u) = LastEnd(s)
    BY <1>1 DEF LastEnd
  <2> QED BY <1>1, <1>2, <1>3, <2>1, LastEndIs, NewlinesType
<1>5. \A k \in x + 1 .. w - 1 : k \in s.readPosition .. u.writePosition - 1
  BY <1>3, <1>4, SMT
<1>6. \A k \in s.readPosition .. LastEnd(s) : u.buf[k] = s.buf[k]
  <2>1. \A k \in s.readPosition .. x : k \in s.readPosition .. u.writePosition - 1
    BY <1>3, <1>4, SMT
  <2> QED BY <1>1, <1>2, <2>1
<1>7. \A m \in 1 .. Cardinality(Newlines(s)) : Nth(u, m) = Nth(s, m)
  BY <1>1, <1>6, LinesKept
<1>8. CASE u.writePosition = s.writePosition
  <2>1. Between(u, x, w) = Between(s, x, w)
    BY <1>1, <1>4, <1>5, BetweenSame
  <2>2. LineTyped(u) = LineTyped(s)
    BY <1>2, <1>3, <1>4, <1>8, <2>1 DEF LineTyped
  <2> QED BY <1>1, <1>7, <1>8, <2>2
<1>9. CASE u.writePosition # s.writePosition
  <2>1. s.writePosition = w + 1 /\ s.readPosition < s.writePosition
    BY <1>1, <1>3, <1>4, <1>9, SMT
  <2>2. /\ \A k \in u.readPosition .. (u.writePosition - 1) : u.buf[k] \in Byte
        /\ \A k \in s.readPosition .. (s.writePosition - 1) : s.buf[k] \in Byte
    BY <1>1, LinesType
  <2>3. \A k \in x + 1 .. w - 1 : u.buf[k] \in Byte /\ s.buf[k] = u.buf[k]
    BY <1>1, <1>5, <2>2
  <2>4. s.buf[w] \in Byte
    <3>1. w \in s.readPosition .. (s.writePosition - 1)
      BY <1>4, <2>1, SMT
    <3> QED BY <2>2, <3>1
  <2>v. PICK v : v = u
    OBVIOUS
  <2>a. PICK a : a = Between(v, x, w)
    OBVIOUS
  <2>5. Between(s, x, w + 1) = Then(a, s.buf[w])
    <3>1. SameBytes(v, s, x, w)
      BY <2>3, <2>v DEF SameBytes
    <3>3. x \in Int /\ w \in Int /\ x < w /\ s.buf[w] \in Byte
      BY <1>4, <2>4
    <3> QED BY <3>1, <3>3, <2>a, BetweenMore
  <2>6. LineTyped(s) = Append(LineTyped(u), s.buf[w])
    BY <1>2, <1>3, <1>4, <2>1, <2>5, <2>a, <2>v DEF LineTyped, Then
  <2> QED BY <1>1, <1>7, <1>9, <2>4, <2>6
<1> QED BY <1>8, <1>9

\* Reading the end of a line takes the line away, which was empty; ...
LEMMA ReadEnd ==
    ASSUME FirstUse, NEW s, NEW n \in Nat, FirstInv(s, n), n <= TypedLimit, Readable(s),
           NextChar(s) = Newline, NEW u, u = readChar(s)
    PROVE  /\ LineTyped(u) = LineTyped(s) /\ Nth(s, 1) = <<>>
           /\ Cardinality(Newlines(s)) \in Nat \ {0}
           /\ Cardinality(Newlines(u)) = Cardinality(Newlines(s)) - 1
           /\ \A m \in 1 .. Cardinality(Newlines(u)) : Nth(u, m) = Nth(s, m + 1)
<1>1. PICK r : r = s.readPosition
  OBVIOUS
<1>2. /\ r < s.writePosition /\ s.buf[r] = Newline
      /\ \A k \in r + 1 .. s.writePosition : u.buf[k] = s.buf[k]
      /\ u.writePosition = s.writePosition /\ u.readPosition = r + 1
      /\ Newlines(u) = Newlines(s) \ {r} /\ FirstInv(u, n)
  BY <1>1, ReadFirst
<1>3. PICK T : T = Newlines(s)
  OBVIOUS
<1>4. /\ r \in Nat /\ s.writePosition \in Nat /\ T \in SUBSET Nat /\ IsFiniteSet(T)
      /\ Cardinality(T) \in Nat /\ \A k \in T : r <= k /\ k < s.writePosition
  BY <1>1, <1>3, NewlinesType
<1>5. r \in T
  <2>1. r \in s.readPosition .. (s.writePosition - 1)
    BY <1>1, <1>2, <1>4, SMT
  <2> QED BY <1>2, <1>3, <2>1 DEF Newlines
<1>6. Cardinality(T) # 0 /\ Cardinality(Newlines(u)) = Cardinality(T) - 1
  <2>1. Cardinality(T) # 0
    BY <1>4, <1>5, FS_EmptySet
  <2>2. Cardinality(T \ {r}) = Cardinality(T) - 1
    BY <1>4, <1>5, FS_RemoveElement
  <2> QED BY <1>2, <1>3, <2>1, <2>2
<1>7. Place(T, 1) = r
  BY <1>4, <1>5, PlaceOfFirst
<1>8. End(s, 0) = r - 1 /\ End(s, 1) = r /\ End(u, 0) = r
  <2>1. (r + 1) - 1 = r
    BY <1>4, SMT
  <2> QED BY <1>1, <1>2, <1>3, <1>7, <2>1, EndIs
<1>9. Nth(s, 1) = <<>>
  <2>1. 1 - 1 = 0 /\ r - 1 \in Int /\ r \in Int /\ r = (r - 1) + 1
    BY <1>4, SMT
  <2>2. Between(s, r - 1, r) = <<>>
    BY <2>1, BetweenNone
  <2> QED BY <1>8, <2>1, <2>2 DEF Nth
<1>10. ASSUME NEW m \in 0 .. (Cardinality(T) - 1) PROVE End(u, m) = End(s, m + 1)
  <2>1. CASE m = 0
    <3>1. 0 + 1 = 1
      BY SMT
    <3> QED BY <1>8, <2>1, <3>1
  <2>2. CASE m # 0
    <3>1. m \in 1 .. (Cardinality(T) - 1) /\ m + 1 # 0
      BY <1>4, <2>2, SMT
    <3>2. Place(T \ {r}, m) = Place(T, m + 1)
      BY <1>4, <1>5, <3>1, PlaceBehindFirst
    <3> QED BY <1>2, <1>3, <2>2, <3>1, <3>2, EndIs
  <2> QED BY <2>1, <2>2
<1>11. ASSUME NEW m \in 1 .. Cardinality(Newlines(u)) PROVE Nth(u, m) = Nth(s, m + 1)
  <2>1. /\ m \in 0 .. (Cardinality(T) - 1) /\ m - 1 \in 0 .. (Cardinality(T) - 1)
        /\ (m - 1) + 1 = m /\ (m + 1) - 1 = m /\ m + 1 \in 1 .. Cardinality(Newlines(s))
        /\ m \in 1 .. Cardinality(Newlines(s))
    BY <1>3, <1>4, <1>6, SMT
  <2>2. PICK a : a = End(s, m)
    OBVIOUS
  <2>3. PICK b : b = End(s, m + 1)
    OBVIOUS
  <2>4. End(u, m - 1) = a /\ End(u, m) = b
    <3>1. End(u, m - 1) = End(s, (m - 1) + 1)
      BY <1>10, <2>1
    <3> QED BY <1>10, <2>1, <2>2, <2>3, <3>1
  <2>5. a \in T /\ b \in T
    BY <1>3, <2>1, <2>2, <2>3, EndsAscend
  <2>6. a \in Int /\ b \in Int /\ r <= a /\ b < s.writePosition
    <3>1. a \in Nat /\ b \in Nat
      BY <1>4, <2>5
    <3> QED BY <1>4, <2>5, <3>1
  <2>7. \A k \in a + 1 .. b - 1 : k \in r + 1 .. s.writePosition
    BY <1>4, <2>6, SMT
  <2>8. \A k \in a + 1 .. b - 1 : u.buf[k] = s.buf[k]
    BY <1>2, <2>7
  <2>9. Between(u, a, b) = Between(s, a, b)
    BY <2>6, <2>8, BetweenSame
  <2> QED BY <2>1, <2>2, <2>3, <2>4, <2>9 DEF Nth
<1>12. LineTyped(u) = LineTyped(s)
  <2>1. PICK x : x = LastEnd(s)
    OBVIOUS
  <2>2. /\ x \in {s.readPosition - 1} \cup T /\ \A y \in T : y <= x
        /\ x \in Int /\ x < s.writePosition
    BY <1>3, <2>1, LastEndIs
  <2>3. r <= x
    BY <1>5, <2>2
  <2>4. x \in {u.readPosition - 1} \cup Newlines(u) /\ \A y \in Newlines(u) : y <= x
    <3>1. u.readPosition - 1 = r /\ x # s.readPosition - 1
      BY <1>1, <1>2, <1>4, <2>2, <2>3, SMT
    <3> QED BY <1>2, <1>3, <2>2, <3>1
  <2>5. LastEnd(u) = x
    BY <1>2, <2>4, LastEndEquals
  <2>6. \A k \in x + 1 .. s.writePosition - 1 : k \in r + 1 .. s.writePosition
    BY <1>4, <2>2, <2>3, SMT
  <2>7. \A k \in x + 1 .. s.writePosition - 1 : u.buf[k] = s.buf[k]
    BY <1>2, <2>6
  <2>8. s.writePosition \in Int
    BY <1>4
  <2>9. Between(u, x, s.writePosition) = Between(s, x, s.writePosition)
    BY <2>2, <2>7, <2>8, BetweenSame
  <2> QED BY <1>2, <2>1, <2>5, <2>9 DEF LineTyped
<1> QED BY <1>3, <1>4, <1>6, <1>9, <1>11, <1>12

\* ... reading another character takes it off the first line.
LEMMA ReadMore ==
    ASSUME FirstUse, NEW s, NEW n \in Nat, FirstInv(s, n), n <= TypedLimit, Readable(s),
           NextChar(s) # Newline, NEW u, u = readChar(s)
    PROVE  /\ LineTyped(u) = LineTyped(s) /\ Newlines(u) = Newlines(s)
           /\ Cardinality(Newlines(s)) \in Nat \ {0}
           /\ Nth(s, 1) = <<NextChar(s)>> \o Nth(u, 1)
           /\ \A m \in 2 .. Cardinality(Newlines(s)) : Nth(u, m) = Nth(s, m)
<1>1. PICK r : r = s.readPosition
  OBVIOUS
<1>2. /\ r < s.writePosition /\ s.buf[r] # Newline /\ NextChar(s) = s.buf[r]
      /\ \A k \in r + 1 .. s.writePosition : u.buf[k] = s.buf[k]
      /\ u.writePosition = s.writePosition /\ u.readPosition = r + 1
      /\ Newlines(u) = Newlines(s) \ {r} /\ FirstInv(u, n)
  BY <1>1, ReadFirst
<1>3. PICK T : T = Newlines(s)
  OBVIOUS
<1>4. /\ r \in Nat /\ s.writePosition \in Nat /\ T \in SUBSET Nat /\ IsFiniteSet(T)
      /\ Cardinality(T) \in Nat /\ \A k \in T : r <= k /\ k < s.writePosition
  BY <1>1, <1>3, NewlinesType
<1>5. Newlines(u) = T
  BY <1>2, <1>3 DEF Newlines
<1>6. Cardinality(T) # 0 /\ T # {}
  <2>1. s.readline > 0 /\ s.readline = Cardinality(T)
    BY <1>3 DEF Readable, FirstInv
  <2>2. Cardinality(T) # 0
    BY <2>1, SMT
  <2> QED BY <2>2, FS_EmptySet
<1>7. \A k \in T : r < k /\ k \in Int
  <2> TAKE k \in T
  <2>1. k # r /\ r <= k /\ k \in Nat
    BY <1>2, <1>3, <1>4 DEF Newlines
  <2> QED BY <1>4, <2>1, SMT
<1>8. LineTyped(u) = LineTyped(s)
  <2>1. PICK x : x = LastEnd(s)
    OBVIOUS
  <2>2. /\ x \in {s.readPosition - 1} \cup T /\ \A y \in T : y <= x
        /\ x \in Int /\ x < s.writePosition
    BY <1>3, <2>1, LastEndIs
  <2>3. r < x
    <3>1. PICK k \in T : TRUE
      BY <1>6
    <3>2. k <= x /\ r < k /\ k \in Int
      BY <1>7, <2>2, <3>1
    <3> QED BY <1>4, <2>2, <3>2, SMT
  <2>4. x \in {u.readPosition - 1} \cup Newlines(u) /\ \A y \in Newlines(u) : y <= x
    <3>1. x # s.readPosition - 1
      BY <1>1, <1>4, <2>2, <2>3, SMT
    <3> QED BY <1>5, <2>2, <3>1
  <2>5. LastEnd(u) = x
    BY <1>2, <2>4, LastEndEquals
  <2>6. \A k \in x + 1 .. s.writePosition - 1 : k \in r + 1 .. s.writePosition
    BY <1>4, <2>2, <2>3, SMT
  <2>7. \A k \in x + 1 .. s.writePosition - 1 : u.buf[k] = s.buf[k]
    BY <1>2, <2>6
  <2>8. s.writePosition \in Int
    BY <1>4
  <2>9. Between(u, x, s.writePosition) = Between(s, x, s.writePosition)
    BY <2>2, <2>7, <2>8, BetweenSame
  <2> QED BY <1>2, <2>1, <2>5, <2>9 DEF LineTyped
<1>9. \A m \in 1 .. Cardinality(T) : End(u, m) = End(s, m)
  <2>1. \A m \in 1 .. Cardinality(T) : m # 0
    BY SMT
  <2> QED BY <1>3, <1>5, <2>1, EndIs
<1>10. Nth(s, 1) = <<NextChar(s)>> \o Nth(u, 1)
  <2>1. PICK b : b = End(s, 1)
    OBVIOUS
  <2>2. 1 \in 1 .. Cardinality(T) /\ 1 - 1 = 0 /\ (r + 1) - 1 = r
    BY <1>4, <1>6, SMT
  <2>3. b \in T
    BY <1>3, <2>1, <2>2, EndsAscend
  <2>4. r < b /\ b \in Int /\ b < s.writePosition
    BY <1>4, <1>7, <2>3
  <2>5. PICK a : a = r - 1
    OBVIOUS
  <2>6. a \in Int /\ a + 1 < b /\ a + 1 = r
    BY <1>4, <2>4, <2>5, SMT
  <2>7. End(u, 1) = b /\ End(u, 0) = r /\ End(s, 0) = a
    BY <1>1, <1>2, <1>9, <2>1, <2>2, <2>5, EndIs
  <2>8. /\ \A k \in a + 1 .. b - 1 : k \in s.readPosition .. (s.writePosition - 1)
        /\ \A k \in (a + 1) + 1 .. b - 1 : k \in r + 1 .. s.writePosition
        /\ \A k \in (a + 1) + 1 .. b - 1 : k \in a + 1 .. b - 1
        /\ a + 1 \in a + 1 .. b - 1
    BY <1>1, <1>4, <2>4, <2>6, SMT
  <2>9. \A k \in a + 1 .. b - 1 : s.buf[k] \in Byte
    <3>1. \A k \in s.readPosition .. (s.writePosition - 1) : s.buf[k] \in Byte
      BY LinesType
    <3> QED BY <2>8, <3>1
  <2>10. SameBytes(s, u, a + 1, b) /\ s.buf[a + 1] \in Byte
    BY <1>2, <2>8, <2>9 DEF SameBytes
  <2>11. Between(s, a, b) = Behind(s.buf[a + 1], Between(u, a + 1, b))
    BY <2>4, <2>6, <2>10, BetweenHead
  <2>12. Between(s, a, b) = <<NextChar(s)>> \o Between(u, r, b)
    BY <1>2, <2>6, <2>11 DEF Behind
  <2> QED BY <2>1, <2>2, <2>7, <2>12 DEF Nth
<1>11. ASSUME NEW m \in 2 .. Cardinality(T) PROVE Nth(u, m) = Nth(s, m)
  <2>1. m \in 1 .. Cardinality(T) /\ m - 1 \in 1 .. Cardinality(T)
    BY <1>4, SMT
  <2>2. PICK a : a = End(s, m - 1)
    OBVIOUS
  <2>3. PICK b : b = End(s, m)
    OBVIOUS
  <2>4. End(u, m - 1) = a /\ End(u, m) = b
    BY <1>9, <2>1, <2>2, <2>3
  <2>5. a \in T /\ b \in T
    BY <1>3, <2>1, <2>2, <2>3, EndsAscend
  <2>6. a \in Int /\ b \in Int /\ r < a /\ b < s.writePosition
    BY <1>4, <1>7, <2>5
  <2>7. \A k \in a + 1 .. b - 1 : k \in r + 1 .. s.writePosition
    BY <1>4, <2>6, SMT
  <2>8. \A k \in a + 1 .. b - 1 : u.buf[k] = s.buf[k]
    BY <1>2, <2>7
  <2>9. Between(u, a, b) = Between(s, a, b)
    BY <2>6, <2>8, BetweenSame
  <2> QED BY <2>2, <2>3, <2>4, <2>9 DEF Nth
<1> QED BY <1>3, <1>4, <1>5, <1>6, <1>8, <1>10, <1>11

-------------------------------------------------------------------------------
(* The shell drops the spaces in front of a line. *)

\* The places of the other characters.
Solid(t) == {k \in 1 .. Len(t) : t[k] \notin {Space, Nul}}

\* The least of some numbers.
LEMMA MinIs ==
    ASSUME NEW S \in SUBSET Int, NEW x \in S, \A y \in S : x <= y
    PROVE  Min(S) = x
<1>1. ASSUME NEW z \in S, \A y \in S : z <= y PROVE z = x
  <2>1. z <= x /\ x <= z /\ z \in Int /\ x \in Int
    BY <1>1
  <2> QED BY <2>1, SMT
<1> QED BY <1>1 DEF Min

\* Where the line starts that is left.
LEMMA TrimmedIs ==
    ASSUME NEW t
    PROVE  /\ Solid(t) = {} => Trimmed(t) = <<>>
           /\ Solid(t) # {} => Trimmed(t) = SubSeq(t, Min(Solid(t)), Len(t))
  BY DEF Trimmed, Solid

\* The first that is not a space or a NUL.
LEMMA FirstSolid ==
    ASSUME NEW t \in Seq(Byte), Solid(t) # {}
    PROVE  \E m \in 1 .. Len(t) : /\ m = Min(Solid(t)) /\ m \in Solid(t)
                                  /\ \A k \in Solid(t) : m <= k
<1>1. Len(t) \in Nat
  BY LenProperties
<1>2. \A k \in 1 .. Len(t) : k \in Nat
  BY <1>1, SMT
<1>3. Solid(t) \in SUBSET Nat /\ Solid(t) \in SUBSET (1 .. Len(t))
  BY <1>2 DEF Solid
<1>4. PICK m \in Solid(t) : \A k \in Solid(t) : m <= k
  BY <1>3, LeastNumber
<1>5. Solid(t) \in SUBSET Int
  BY <1>3, SMT
<1>6. Min(Solid(t)) = m
  BY <1>4, <1>5, MinIs
<1> QED BY <1>3, <1>4, <1>6

\* What is left of a line, ...
LEMMA TrimmedType == \A t \in Seq(Byte) : Trimmed(t) \in Seq(Byte)
<1> TAKE t \in Seq(Byte)
<1>1. CASE Solid(t) = {}
  BY <1>1, TrimmedIs, EmptySeq
<1>2. CASE Solid(t) # {}
  <2>1. PICK m \in 1 .. Len(t) : m = Min(Solid(t))
    BY <1>2, FirstSolid
  <2>2. Len(t) \in Nat /\ m \in Int /\ Len(t) \in Int
    BY LenProperties, SMT
  <2>3. \A k \in m .. Len(t) : k \in 1 .. Len(t)
    BY <2>1, <2>2, SMT
  <2>4. \A k \in m .. Len(t) : t[k] \in Byte
    BY <2>3, ElementOfSeq
  <2>5. SubSeq(t, m, Len(t)) \in Seq(Byte)
    BY <2>2, <2>4, SubSeqProperties
  <2> QED BY <1>2, <2>1, <2>5, TrimmedIs
<1> QED BY <1>1, <1>2

\* ... of an empty one, ...
LEMMA TrimmedEmpty == Trimmed(<<>>) = <<>>
<1>1. PICK t : t = <<>>
  OBVIOUS
<1>2. Len(t) = 0
  BY <1>1, EmptySeq
<1>3. 1 .. 0 = {}
  BY SMT
<1>4. Solid(t) = {}
  BY <1>2, <1>3 DEF Solid
<1> QED BY <1>1, <1>4, TrimmedIs

\* A line with one more character in front.
Follows(h, t) == \A k \in 1 .. Len(t) : h[k + 1] = t[k]

\* Its length and characters.
LEMMA BehindIs ==
    ASSUME NEW c \in Byte, NEW t \in Seq(Byte), NEW h, h = Behind(c, t)
    PROVE  /\ h \in Seq(Byte) /\ Len(h) = Len(t) + 1 /\ Len(t) \in Nat
           /\ h[1] = c /\ Follows(h, t)
<1>1. PICK o : o = <<c>>
  OBVIOUS
<1>2. o \in Seq(Byte) /\ Len(o) = 1 /\ o[1] = c
  BY <1>1
<1>3. h = o \o t
  BY <1>1 DEF Behind
<1>4. /\ h \in Seq(Byte) /\ Len(h) = 1 + Len(t)
      /\ \A k \in 1 .. 1 + Len(t) : h[k] = IF k <= 1 THEN o[k] ELSE t[k - 1]
  BY <1>2, <1>3, ConcatProperties
<1>5. Len(t) \in Nat
  BY LenProperties
<1>6. /\ 1 + Len(t) = Len(t) + 1 /\ 1 \in 1 .. 1 + Len(t) /\ 1 <= 1
      /\ \A k \in 1 .. Len(t) : k + 1 \in 1 .. 1 + Len(t) /\ ~(k + 1 <= 1) /\ (k + 1) - 1 = k
  BY <1>5, SMT
<1>7. h[1] = c
  BY <1>2, <1>4, <1>6
<1>8. ASSUME NEW k \in 1 .. Len(t) PROVE h[k + 1] = t[k]
  <2>1. h[k + 1] = t[(k + 1) - 1]
    BY <1>4, <1>6
  <2> QED BY <1>6, <2>1
<1> QED BY <1>4, <1>5, <1>6, <1>7, <1>8 DEF Follows

\* ... of one that starts with a space or a NUL, ...
LEMMA TrimmedSpace ==
    ASSUME NEW c \in {Space, Nul}, NEW t \in Seq(Byte), NEW h, h = Behind(c, t)
    PROVE  Trimmed(h) = Trimmed(t)
<1>1. PICK l : l = Len(t)
  OBVIOUS
<1>2. /\ h \in Seq(Byte) /\ Len(h) = l + 1 /\ l \in Nat
      /\ h[1] = c /\ \A k \in 1 .. l : h[k + 1] = t[k]
  <2>1. c \in Byte
    BY DEF Byte, Char, Key
  <2>3. PICK g : g = Behind(c, t)
    OBVIOUS
  <2>4. /\ g \in Seq(Byte) /\ Len(g) = Len(t) + 1 /\ Len(t) \in Nat
        /\ g[1] = c /\ \A k \in 1 .. Len(t) : g[k + 1] = t[k]
    <3>1. g \in Seq(Byte) /\ Len(g) = Len(t) + 1 /\ Len(t) \in Nat /\ g[1] = c
      BY <2>1, <2>3, BehindIs
    <3>2. Follows(g, t)
      BY <2>1, <2>3, BehindIs
    <3> QED BY <3>1, <3>2 DEF Follows
  <2>5. g = h
    BY <2>3
  <2> QED BY <1>1, <2>4, <2>5
<1>3. ASSUME NEW k \in 1 .. l PROVE k \in Solid(t) <=> k + 1 \in Solid(h)
  <2>1. k + 1 \in 1 .. l + 1
    BY <1>2, SMT
  <2> QED BY <1>1, <1>2, <2>1 DEF Solid
<1>4. ASSUME NEW k \in Solid(h) PROVE \E x \in Solid(t) : k = x + 1
  <2>1. k \in 1 .. l + 1 /\ k # 1
    BY <1>2 DEF Solid
  <2>2. PICK x : x = k - 1
    OBVIOUS
  <2>3. x \in 1 .. l /\ k = x + 1
    BY <1>2, <2>1, <2>2, SMT
  <2> QED BY <1>3, <1>4, <2>3
<1>5. CASE Solid(t) = {}
  <2>1. Solid(h) = {}
    BY <1>4, <1>5
  <2> QED BY <1>5, <2>1, TrimmedIs
<1>6. CASE Solid(t) # {}
  <2>1. PICK m \in 1 .. Len(t) : /\ m = Min(Solid(t)) /\ m \in Solid(t)
                                 /\ \A k \in Solid(t) : m <= k
    BY <1>6, FirstSolid
  <2>2. m + 1 \in Solid(h) /\ m \in 1 .. l
    BY <1>1, <1>3, <2>1
  <2>3. \A k \in Solid(h) : m + 1 <= k
    <3> TAKE k \in Solid(h)
    <3>1. PICK x \in Solid(t) : k = x + 1
      BY <1>4
    <3>2. m <= x /\ x \in 1 .. l
      BY <1>1, <2>1 DEF Solid
    <3> QED BY <1>2, <2>2, <3>1, <3>2, SMT
  <2>4. Min(Solid(h)) = m + 1
    <3>1. \A k \in 1 .. l + 1 : k \in Int
      BY SMT
    <3>2. Solid(h) \in SUBSET Int
      BY <1>2, <3>1 DEF Solid
    <3> QED BY <2>2, <2>3, <3>2, MinIs
  <2>5. PICK a : a = SubSeq(t, m, l)
    OBVIOUS
  <2>6. PICK b : b = SubSeq(h, m + 1, l + 1)
    OBVIOUS
  <2>7. /\ m \in Int /\ l \in Int /\ m + 1 \in Int /\ l + 1 \in Int /\ m <= l /\ m + 1 <= l + 1
        /\ (l + 1) - (m + 1) + 1 = l - m + 1 /\ l - m + 1 \in Nat
        /\ \A k \in m .. l : k \in 1 .. l
        /\ \A k \in m + 1 .. l + 1 : k \in 1 .. l + 1
        /\ \A k \in 1 .. l - m + 1 : m + k - 1 \in 1 .. l /\ (m + 1) + k - 1 = (m + k - 1) + 1
    BY <1>2, <2>2, SMT
  <2>8. /\ a \in Seq(Byte) /\ Len(a) = l - m + 1
        /\ \A k \in 1 .. l - m + 1 : a[k] = t[m + k - 1]
    <3>1. \A k \in m .. l : t[k] \in Byte
      BY <1>1, <2>7, ElementOfSeq
    <3> QED BY <2>5, <2>7, <3>1, SubSeqProperties
  <2>9. /\ b \in Seq(Byte) /\ Len(b) = l - m + 1
        /\ \A k \in 1 .. l - m + 1 : b[k] = h[(m + 1) + k - 1]
    <3>1. \A k \in m + 1 .. l + 1 : h[k] \in Byte
      BY <1>2, <2>7, ElementOfSeq
    <3>2. /\ b \in Seq(Byte) /\ Len(b) = (l + 1) - (m + 1) + 1
          /\ \A k \in 1 .. (l + 1) - (m + 1) + 1 : b[k] = h[(m + 1) + k - 1]
      BY <2>6, <2>7, <3>1, SubSeqProperties
    <3> QED BY <2>7, <3>2
  <2>10. ASSUME NEW k \in 1 .. l - m + 1 PROVE a[k] = b[k]
    <3>1. h[(m + k - 1) + 1] = t[m + k - 1]
      BY <1>2, <2>7
    <3> QED BY <2>7, <2>8, <2>9, <3>1
  <2>11. a = b
    BY <2>8, <2>9, <2>10, SeqEqual
  <2>12. Solid(h) # {}
    BY <2>2
  <2>13. Trimmed(t) = a
    BY <1>1, <1>6, <2>1, <2>5, TrimmedIs
  <2>14. Trimmed(h) = b
    BY <1>2, <2>4, <2>6, <2>12, TrimmedIs
  <2> QED BY <2>11, <2>13, <2>14
<1> QED BY <1>5, <1>6

\* ... and of one that does not.
LEMMA TrimmedSolid ==
    ASSUME NEW c \in Byte, c \notin {Space, Nul}, NEW t \in Seq(Byte), NEW h, h = Behind(c, t)
    PROVE  Trimmed(h) = h
<1>1. h \in Seq(Byte) /\ Len(h) = Len(t) + 1 /\ Len(t) \in Nat /\ h[1] = c
  BY BehindIs
<1>2. 1 \in Solid(h)
  <2>1. 1 \in 1 .. Len(h)
    BY <1>1, SMT
  <2> QED BY <1>1, <2>1 DEF Solid
<1>3. Min(Solid(h)) = 1
  <2>1. \A k \in 1 .. Len(h) : k \in Int /\ 1 <= k
    BY SMT
  <2>2. Solid(h) \in SUBSET Int /\ \A k \in Solid(h) : 1 <= k
    BY <2>1 DEF Solid
  <2> QED BY <1>2, <2>2, MinIs
<1>4. Trimmed(h) = SubSeq(h, 1, Len(h))
  BY <1>2, <1>3, TrimmedIs
<1> QED BY <1>1, <1>4, SubSeqFull

-------------------------------------------------------------------------------
(* The lines that are entered and not yet read, for a buffer s when the shell has *)
(* read str of the first one.                                                     *)

\* The first one goes on behind str; the others are trimmed as they will be when read.
EnteredOf(s, str) ==
    [m \in 1 .. Cardinality(Newlines(s)) |->
        IF m = 1 /\ str # <<>> THEN str \o Nth(s, 1) ELSE Trimmed(Nth(s, m))]

\* They are texts, as many as the buffer has ends of lines.
LEMMA EnteredType ==
    ASSUME NEW s, NEW n \in Nat, FirstInv(s, n), n <= TypedLimit, NEW str \in Seq(Byte)
    PROVE  /\ EnteredOf(s, str) \in Seq(Seq(Byte))
           /\ Len(EnteredOf(s, str)) = Cardinality(Newlines(s))
           /\ Cardinality(Newlines(s)) \in Nat
<1>1. PICK M : M = Cardinality(Newlines(s))
  OBVIOUS
<1>2. M \in Nat
  BY <1>1, NewlinesType
<1>3. PICK e : e = EnteredOf(s, str)
  OBVIOUS
<1>4. e = [m \in 1 .. M |-> IF m = 1 /\ str # <<>> THEN str \o Nth(s, 1) ELSE Trimmed(Nth(s, m))]
  BY <1>1, <1>3 DEF EnteredOf
<1>5. ASSUME NEW m \in 1 .. M PROVE e[m] \in Seq(Byte)
  <2>1. Nth(s, m) \in Seq(Byte)
    BY <1>1, LinesType
  <2>2. CASE m = 1 /\ str # <<>>
    <3>1. PICK t : t = Nth(s, 1)
      OBVIOUS
    <3>2. str \o t \in Seq(Byte)
      BY <2>1, <2>2, <3>1, ConcatProperties
    <3> QED BY <1>4, <2>2, <3>1, <3>2
  <2>3. CASE ~(m = 1 /\ str # <<>>)
    <3>1. Trimmed(Nth(s, m)) \in Seq(Byte)
      BY <2>1, TrimmedType
    <3> QED BY <1>4, <2>3, <3>1
  <2> QED BY <2>2, <2>3
<1>6. [m \in 1 .. M |-> e[m]] \in Seq(Seq(Byte))
  BY <1>2, <1>5, IsASeq
<1>7. e = [m \in 1 .. M |-> e[m]]
  BY <1>4
<1>8. Len(e) = M
  <2>1. e \in Seq(Seq(Byte)) /\ DOMAIN e = 1 .. M
    BY <1>4, <1>6, <1>7
  <2>2. Len(e) \in Nat /\ DOMAIN e = 1 .. Len(e)
    BY <2>1, LenProperties
  <2> QED BY <1>2, <2>1, <2>2, SMT
<1> QED BY <1>1, <1>2, <1>3, <1>6, <1>7, <1>8

\* Enter puts one more behind them.
LEMMA EnteredMore ==
    ASSUME FirstUse, NEW s, NEW n \in Nat, FirstInv(s, n), n < TypedLimit,
           NEW u, u = writeChar(s, Newline), NEW str \in Seq(Byte),
           str # <<>> => Cardinality(Newlines(s)) # 0
    PROVE  EnteredOf(u, str) = Then(EnteredOf(s, str), Trimmed(LineTyped(s)))
<1>1. n <= TypedLimit /\ n + 1 \in Nat /\ n + 1 <= TypedLimit
  BY InputAssumption, SMT
<1>2. PICK M : M = Cardinality(Newlines(s))
  OBVIOUS
<1>3. /\ Cardinality(Newlines(u)) = M + 1
      /\ \A m \in 1 .. M : Nth(u, m) = Nth(s, m)
      /\ Nth(u, M + 1) = LineTyped(s)
  BY <1>2, EnterLine
<1>4. FirstInv(u, n + 1)
  <2>1. Newline \in Char \cup {Newline}
    OBVIOUS
  <2> QED BY <2>1, WriteFirst
<1>5. PICK a : a = EnteredOf(s, str)
  OBVIOUS
<1>6. PICK b : b = EnteredOf(u, str)
  OBVIOUS
<1>7. a \in Seq(Seq(Byte)) /\ Len(a) = M /\ M \in Nat
  BY <1>1, <1>2, <1>5, EnteredType
<1>8. b \in Seq(Seq(Byte)) /\ Len(b) = M + 1
  BY <1>1, <1>3, <1>4, <1>6, EnteredType
<1>9. PICK e : e = Trimmed(LineTyped(s))
  OBVIOUS
<1>10. e \in Seq(Byte)
  BY <1>1, <1>9, LinesType, TrimmedType
<1>11. PICK c : c = Append(a, e)
  OBVIOUS
<1>12. /\ c \in Seq(Seq(Byte)) /\ Len(c) = M + 1
       /\ \A m \in 1 .. M : c[m] = a[m]
       /\ c[M + 1] = e
  BY <1>7, <1>10, <1>11, AppendProperties
<1>13. ASSUME NEW m \in 1 .. M + 1 PROVE b[m] = c[m]
  <2>1. CASE m = M + 1
    <3>1. ~(m = 1 /\ str # <<>>)
      BY <1>2, <1>7, <2>1, SMT
    <3>2. b[m] = Trimmed(Nth(u, M + 1))
      BY <1>3, <1>6, <2>1, <3>1 DEF EnteredOf
    <3> QED BY <1>3, <1>9, <1>12, <2>1, <3>2
  <2>2. CASE m # M + 1
    <3>1. m \in 1 .. M
      BY <1>7, <2>2, SMT
    <3>2. m = 1 => Nth(u, 1) = Nth(s, 1)
      BY <1>3, <3>1
    <3>3. Nth(u, m) = Nth(s, m)
      BY <1>3, <3>1
    <3>4. b[m] = IF m = 1 /\ str # <<>> THEN str \o Nth(u, 1) ELSE Trimmed(Nth(u, m))
      BY <1>3, <1>6 DEF EnteredOf
    <3>5. a[m] = IF m = 1 /\ str # <<>> THEN str \o Nth(s, 1) ELSE Trimmed(Nth(s, m))
      BY <1>2, <1>5, <3>1 DEF EnteredOf
    <3>6. b[m] = a[m]
      <4>1. CASE m = 1 /\ str # <<>>
        BY <3>2, <3>4, <3>5, <4>1
      <4>2. CASE ~(m = 1 /\ str # <<>>)
        BY <3>3, <3>4, <3>5, <4>2
      <4> QED BY <4>1, <4>2
    <3> QED BY <1>12, <3>1, <3>6
  <2> QED BY <2>1, <2>2
<1>14. b = c
  BY <1>8, <1>12, <1>13, SeqEqual
<1> QED BY <1>5, <1>6, <1>9, <1>11, <1>14 DEF Then

\* The end of a line that is read gives the shell the first of them.
LEMMA EnteredTaken ==
    ASSUME FirstUse, NEW s, NEW n \in Nat, FirstInv(s, n), n <= TypedLimit, Readable(s),
           NextChar(s) = Newline, NEW u, u = readChar(s), NEW str \in Seq(Byte)
    PROVE  /\ EnteredOf(s, str) # <<>> /\ Head(EnteredOf(s, str)) = str
           /\ EnteredOf(u, <<>>) = Tail(EnteredOf(s, str))
<1>1. PICK M : M = Cardinality(Newlines(s))
  OBVIOUS
<1>2. /\ Nth(s, 1) = <<>> /\ M \in Nat \ {0}
      /\ Cardinality(Newlines(u)) = M - 1
      /\ \A m \in 1 .. M - 1 : Nth(u, m) = Nth(s, m + 1)
  BY <1>1, ReadEnd
<1>3. PICK a : a = EnteredOf(s, str)
  OBVIOUS
<1>4. PICK b : b = EnteredOf(u, <<>>)
  OBVIOUS
<1>5. a \in Seq(Seq(Byte)) /\ Len(a) = M
  BY <1>1, <1>3, EnteredType
<1>6. b \in Seq(Seq(Byte)) /\ Len(b) = M - 1
  <2>1. FirstInv(u, n)
    BY ReadFirst
  <2>2. <<>> \in Seq(Byte)
    BY EmptySeq
  <2> QED BY <1>2, <1>4, <2>1, <2>2, EnteredType
<1>7. a # <<>>
  <2>1. Len(<<>>) = 0
    BY EmptySeq
  <2> QED BY <1>2, <1>5, <2>1
<1>8. a[1] = str
  <2>1. 1 \in 1 .. M
    BY <1>2, SMT
  <2>2. a[1] = IF str # <<>> THEN str \o Nth(s, 1) ELSE Trimmed(Nth(s, 1))
    BY <1>1, <1>3, <2>1 DEF EnteredOf
  <2>3. str \o <<>> = str
    BY ConcatEmptySeq
  <2> QED BY <1>2, <2>2, <2>3, TrimmedEmpty
<1>9. Head(a) = str
  BY <1>5, <1>8, SMT
<1>10. PICK c : c = Tail(a)
  OBVIOUS
<1>11. /\ c \in Seq(Seq(Byte)) /\ Len(c) = M - 1
       /\ \A m \in 1 .. M - 1 : c[m] = a[m + 1]
  BY <1>5, <1>7, <1>10, HeadTailProperties
<1>12. ASSUME NEW m \in 1 .. M - 1 PROVE b[m] = c[m]
  <2>1. m + 1 \in 1 .. M /\ m + 1 # 1
    BY <1>2, SMT
  <2>2. b[m] = Trimmed(Nth(u, m))
    BY <1>2, <1>4 DEF EnteredOf
  <2>3. a[m + 1] = Trimmed(Nth(s, m + 1))
    BY <1>1, <1>3, <2>1 DEF EnteredOf
  <2> QED BY <1>2, <1>11, <2>2, <2>3
<1>13. b = c
  BY <1>6, <1>11, <1>12, SeqEqual
<1> QED BY <1>3, <1>4, <1>7, <1>9, <1>10, <1>13

\* Another character goes from the first of them to what the shell has read of it.
ReadBehind(str, c) == IF c \in {Space, Nul} /\ str = <<>> THEN str ELSE Append(str, c)

\* It leaves the entered lines as they are.
LEMMA EnteredRead ==
    ASSUME FirstUse, NEW s, NEW n \in Nat, FirstInv(s, n), n <= TypedLimit, Readable(s),
           NextChar(s) # Newline, NEW u, u = readChar(s), NEW str \in Seq(Byte),
           NEW str1, str1 = ReadBehind(str, NextChar(s))
    PROVE  EnteredOf(u, str1) = EnteredOf(s, str)
<1>1. PICK M : M = Cardinality(Newlines(s))
  OBVIOUS
<1>2. PICK c : c = NextChar(s)
  OBVIOUS
<1>s. str1 = IF c \in {Space, Nul} /\ str = <<>> THEN str ELSE Append(str, c)
  BY <1>2 DEF ReadBehind
<1>3. PICK t : t = Nth(u, 1)
  OBVIOUS
<1>4. /\ Newlines(u) = Newlines(s) /\ M \in Nat \ {0}
      /\ Nth(s, 1) = <<c>> \o t
      /\ \A m \in 2 .. M : Nth(u, m) = Nth(s, m)
  BY <1>1, <1>2, <1>3, ReadMore
<1>5. c \in Byte /\ FirstInv(u, n)
  BY <1>2, ReadFirst
<1>6. t \in Seq(Byte)
  <2>1. 1 \in 1 .. Cardinality(Newlines(u))
    BY <1>1, <1>4, SMT
  <2> QED BY <1>3, <1>5, <2>1, LinesType
<1>7. PICK h : h = Behind(c, t)
  OBVIOUS
<1>8. h = Nth(s, 1) /\ h = <<c>> \o t
  BY <1>4, <1>7 DEF Behind
<1>9. (IF str1 # <<>> THEN str1 \o t ELSE Trimmed(t)) = (IF str # <<>> THEN str \o h ELSE Trimmed(h))
  <2>1. CASE c \in {Space, Nul} /\ str = <<>>
    <3>1. Trimmed(h) = Trimmed(t)
      BY <1>6, <1>7, <2>1, TrimmedSpace
    <3> QED BY <1>s, <2>1, <3>1
  <2>2. CASE c \notin {Space, Nul} /\ str = <<>>
    <3>1. Trimmed(h) = h
      BY <1>5, <1>6, <1>7, <2>2, TrimmedSolid
    <3>2. PICK o : o = <<c>>
      OBVIOUS
    <3>3. str1 = o /\ o # <<>>
      <4>1. Append(str, c) = str \o <<c>>
        BY <1>5, AppendIsConcat
      <4>2. o \in Seq(Byte)
        BY <1>5, <3>2
      <4>3. <<>> \o o = o
        BY <4>2, ConcatEmptySeq
      <4>4. str1 = o
        BY <1>s, <2>2, <3>2, <4>1, <4>3
      <4> QED BY <3>2, <4>4
    <3> QED BY <1>8, <2>2, <3>1, <3>2, <3>3
  <2>3. CASE str # <<>>
    <3>1. PICK o : o = <<c>>
      OBVIOUS
    <3>2. o \in Seq(Byte)
      BY <1>5, <3>1
    <3>3. str1 = str \o o /\ str1 # <<>>
      <4>1. Append(str, c) = str \o <<c>> /\ Append(str, c) # <<>>
        BY <1>5, AppendIsConcat, AppendProperties
      <4> QED BY <1>s, <2>3, <3>1, <4>1
    <3>4. (str \o o) \o t = str \o (o \o t)
      <4>1. \A p, q, v \in Seq(Byte) : (p \o q) \o v = p \o (q \o v)
        <5> TAKE p, q, v \in Seq(Byte)
        <5> QED BY ConcatAssociative
      <4> QED BY <1>6, <3>2, <4>1
    <3> QED BY <1>8, <2>3, <3>1, <3>3, <3>4
  <2> QED BY <2>1, <2>2, <2>3
<1>10. PICK a : a = EnteredOf(s, str)
  OBVIOUS
<1>11. PICK b : b = EnteredOf(u, str1)
  OBVIOUS
<1>12. ASSUME NEW m \in 1 .. M PROVE b[m] = a[m]
  <2>1. b[m] = IF m = 1 /\ str1 # <<>> THEN str1 \o Nth(u, 1) ELSE Trimmed(Nth(u, m))
    BY <1>1, <1>4, <1>11 DEF EnteredOf
  <2>2. a[m] = IF m = 1 /\ str # <<>> THEN str \o Nth(s, 1) ELSE Trimmed(Nth(s, m))
    BY <1>1, <1>10 DEF EnteredOf
  <2>3. CASE m = 1
    <3>1. b[m] = IF str1 # <<>> THEN str1 \o t ELSE Trimmed(t)
      BY <1>3, <2>1, <2>3
    <3>2. a[m] = IF str # <<>> THEN str \o h ELSE Trimmed(h)
      BY <1>8, <2>2, <2>3
    <3> QED BY <1>9, <3>1, <3>2
  <2>4. CASE m # 1
    <3>1. m \in 2 .. M
      BY <1>4, <2>4, SMT
    <3> QED BY <1>4, <2>1, <2>2, <2>4, <3>1
  <2> QED BY <2>3, <2>4
<1>13. a = [m \in 1 .. M |-> a[m]] /\ b = [m \in 1 .. M |-> b[m]]
  BY <1>1, <1>4, <1>10, <1>11 DEF EnteredOf
<1>14. [m \in 1 .. M |-> a[m]] = [m \in 1 .. M |-> b[m]]
  BY <1>12
<1> QED BY <1>10, <1>11, <1>13, <1>14

\* A character behind which the command ends is lost, and the rest is the next line.
LEMMA EnteredCut ==
    ASSUME FirstUse, NEW s, NEW n \in Nat, FirstInv(s, n), n <= TypedLimit, Readable(s),
           NextChar(s) # Newline, NEW u, u = readChar(s), NEW str \in Seq(Byte), str # <<>>
    PROVE  /\ EnteredOf(s, str) # <<>>
           /\ Head(EnteredOf(s, str)) = str \o Behind(NextChar(s), Nth(u, 1))
           /\ Nth(u, 1) \in Seq(Byte)
           /\ EnteredOf(u, <<>>) = [EnteredOf(s, str) EXCEPT ![1] = Trimmed(Nth(u, 1))]
<1>1. PICK M : M = Cardinality(Newlines(s))
  OBVIOUS
<1>2. /\ Newlines(u) = Newlines(s) /\ M \in Nat \ {0}
      /\ Nth(s, 1) = Behind(NextChar(s), Nth(u, 1))
      /\ \A m \in 2 .. M : Nth(u, m) = Nth(s, m)
  BY <1>1, ReadMore DEF Behind
<1>3. PICK a : a = EnteredOf(s, str)
  OBVIOUS
<1>4. PICK b : b = EnteredOf(u, <<>>)
  OBVIOUS
<1>5. a = [m \in 1 .. M |-> IF m = 1 /\ str # <<>> THEN str \o Nth(s, 1) ELSE Trimmed(Nth(s, m))]
  BY <1>1, <1>3 DEF EnteredOf
<1>6. b = [m \in 1 .. M |-> Trimmed(Nth(u, m))]
  BY <1>1, <1>2, <1>4 DEF EnteredOf
<1>7. 1 \in 1 .. M /\ \A m \in 1 .. M : m # 1 => m \in 2 .. M
  BY <1>2, SMT
<1>8. a[1] = str \o Behind(NextChar(s), Nth(u, 1))
  BY <1>2, <1>5, <1>7
<1>9. b = [a EXCEPT ![1] = Trimmed(Nth(u, 1))]
  BY <1>2, <1>5, <1>6, <1>7
<1>10. a \in Seq(Seq(Byte)) /\ Len(a) = M
  BY <1>1, <1>3, EnteredType
<1>11. a # <<>> /\ Head(a) = a[1]
  <2>1. Len(<<>>) = 0
    BY EmptySeq
  <2>2. a # <<>>
    BY <1>2, <1>10, <2>1
  <2> QED BY <1>10, <2>2, HeadTailProperties, SMT
<1>12. Nth(u, 1) \in Seq(Byte)
  <2>1. FirstInv(u, n)
    BY ReadFirst
  <2>2. 1 \in 1 .. Cardinality(Newlines(u))
    BY <1>1, <1>2, <1>7
  <2> QED BY <2>1, <2>2, LinesType
<1> QED BY <1>3, <1>4, <1>8, <1>9, <1>11, <1>12

\* They are kept as long as the buffer keeps the lines.
LEMMA EnteredKept ==
    ASSUME NEW s, NEW u, Newlines(u) = Newlines(s), NEW str,
           \A m \in 1 .. Cardinality(Newlines(s)) : Nth(u, m) = Nth(s, m)
    PROVE  EnteredOf(u, str) = EnteredOf(s, str)
<1>1. PICK M : M = Cardinality(Newlines(s))
  OBVIOUS
<1>2. \A m \in 1 .. M : m = 1 => Nth(u, 1) = Nth(s, 1)
  BY <1>1
<1>3. EnteredOf(u, str) =
        [m \in 1 .. M |-> IF m = 1 /\ str # <<>> THEN str \o Nth(u, 1) ELSE Trimmed(Nth(u, m))]
  BY <1>1 DEF EnteredOf
<1>4. EnteredOf(s, str) =
        [m \in 1 .. M |-> IF m = 1 /\ str # <<>> THEN str \o Nth(s, 1) ELSE Trimmed(Nth(s, m))]
  BY <1>1 DEF EnteredOf
<1>5. ASSUME NEW m \in 1 .. M
      PROVE  (IF m = 1 /\ str # <<>> THEN str \o Nth(u, 1) ELSE Trimmed(Nth(u, m)))
             = (IF m = 1 /\ str # <<>> THEN str \o Nth(s, 1) ELSE Trimmed(Nth(s, m)))
  <2>1. Nth(u, m) = Nth(s, m)
    BY <1>1
  <2>2. CASE m = 1 /\ str # <<>>
    BY <1>2, <2>2
  <2>3. CASE ~(m = 1 /\ str # <<>>)
    BY <2>1, <2>3
  <2> QED BY <2>2, <2>3
<1> QED BY <1>3, <1>4, <1>5

-------------------------------------------------------------------------------
(* The keyboard and the shell's reading implement a terminal. *)

\* What the shell has read belongs to a line that is complete.
TerminalInv ==
    /\ DevicesInv
    /\ FirstInv(input, typed)
    /\ inputStr # <<>> => Cardinality(Newlines(input)) # 0

\* The invariant holds initially, where no line is entered.
LEMMA TerminalInit == Init => TerminalInv /\ Lines!Init
<1> SUFFICES ASSUME Init PROVE TerminalInv /\ Lines!Init
  OBVIOUS
<1>1. /\ input.writePosition = 0 /\ input.readPosition = 0 /\ input.indicator = 0
      /\ input.readline = 0 /\ inputStr = <<>> /\ command = <<>> /\ typed = 0
  BY DEF Init
<1>2. 0 .. (0 - 1) = {} /\ 0 <= 0
  BY SMT
<1>3. Newlines(input) = {}
  BY <1>1, <1>2 DEF Newlines
<1>4. Cardinality(Newlines(input)) = 0
  BY <1>3, FS_EmptySet
<1>5. DevicesInv
  BY DevicesInit
<1>6. FirstInv(input, typed)
  BY <1>1, <1>2, <1>4, <1>5 DEF FirstInv, DevicesInv
<1>7. LineTyped(input) = <<>>
  <2>1. LastEnd(input) = 0 - 1
    <3>1. 0 - 1 \in Int
      BY SMT
    <3>2. {0 - 1} \cup {} = {0 - 1} /\ \A y \in {0 - 1} : y <= 0 - 1
      BY SMT
    <3>3. Max({0 - 1}) = 0 - 1
      BY <3>1, <3>2, MaxIs
    <3> QED BY <1>1, <1>3, <3>2, <3>3 DEF LastEnd
  <2>2. 0 - 1 \in Int /\ 0 \in Int /\ 0 = (0 - 1) + 1
    BY SMT
  <2>3. Between(input, 0 - 1, 0) = <<>>
    BY <2>2, BetweenNone
  <2> QED BY <1>1, <2>1, <2>3 DEF LineTyped
<1>8. Entered = <<>>
  <2>1. 1 .. 0 = {}
    BY SMT
  <2>2. EnteredOf(input, <<>>) \in Seq(Seq(Byte)) /\ Len(EnteredOf(input, <<>>)) = 0
    <3>1. typed \in Nat /\ typed <= TypedLimit /\ <<>> \in Seq(Byte)
      BY <1>5, InputAssumption, EmptySeq, SMT DEF DevicesInv
    <3> QED BY <1>4, <1>6, <3>1, EnteredType
  <2>3. <<>> \in Seq(Seq(Byte)) /\ Len(<<>>) = 0
    BY EmptySeq
  <2>4. EnteredOf(input, <<>>) = <<>>
    BY <2>1, <2>2, <2>3, SeqEqual
  <2> QED BY <1>1, <2>4 DEF Entered, EnteredOf
<1>9. Lines!Init
  BY <1>1, <1>7, <1>8 DEF Lines!Init
<1> QED BY <1>1, <1>5, <1>6, <1>9 DEF TerminalInv

\* A line of the terminal is trimmed as the shell trims what it reads.
LEMMA TrimIs == \A t : Lines!Trim(t) = Trimmed(t)
  BY DEF Lines!Trim, Trimmed, Lines!Min, Min

\* The numbers and texts of a state.
LEMMA TerminalTypes ==
    ASSUME TerminalInv
    PROVE  /\ typed \in Nat /\ typed <= TypedLimit /\ TypedLimit \in Nat
           /\ FirstInv(input, typed)
           /\ inputStr \in Seq(Byte) /\ inputStr \in Seq(Kept)
           /\ Len(inputStr) <= CommandLimit + 1 /\ CommandLimit \in Nat
           /\ inputStr # <<>> => Cardinality(Newlines(input)) # 0
           /\ Entered = EnteredOf(input, inputStr)
<1>1. /\ typed \in 0 .. TypedLimit /\ TypedLimit \in Nat /\ inputStr \in Seq(Kept)
      /\ Len(inputStr) <= CommandLimit + 1 /\ CommandLimit \in Nat
  BY InputAssumption DEF TerminalInv, DevicesInv
<1>2. Kept \subseteq Byte
  BY DEF Byte, Kept
<1>3. inputStr \in Seq(Byte)
  BY <1>1, <1>2, SeqMonotonic
<1>4. typed \in Nat /\ typed <= TypedLimit
  BY <1>1, SMT
<1> QED BY <1>1, <1>3, <1>4 DEF TerminalInv, Entered, EnteredOf

\* A key that writes a character, ...
LEMMA TypedTerminal ==
    ASSUME FirstUse, TerminalInv, NEW c \in Char \cup {Newline}, Typed(c)
    PROVE  /\ FirstInv(input, typed)' /\ (inputStr # <<>> => Cardinality(Newlines(input)) # 0)'
           /\ Lines!Type \/ Lines!Enter
<1>1. /\ typed < TypedLimit /\ typed' = typed + 1 /\ input' = writeChar(input, c)
      /\ inputStr' = inputStr /\ command' = command
  BY DEF Typed, shellVars
<1>2. PICK s : s = input
  OBVIOUS
<1>3. PICK u : u = writeChar(s, c)
  OBVIOUS
<1>4. PICK n : n = typed
  OBVIOUS
<1>5. PICK str : str = inputStr
  OBVIOUS
<1>6. /\ n \in Nat /\ n < TypedLimit /\ n <= TypedLimit /\ FirstInv(s, n) /\ str \in Seq(Byte)
      /\ str # <<>> => Cardinality(Newlines(s)) # 0
      /\ Entered = EnteredOf(s, str)
  BY <1>1, <1>2, <1>4, <1>5, TerminalTypes
<1>7. input' = u /\ inputStr' = str /\ typed' = n + 1
  BY <1>1, <1>2, <1>3, <1>4, <1>5
<1>8. /\ LineTyped(input) = LineTyped(s) /\ (LineTyped(input))' = LineTyped(u)
      /\ Entered' = EnteredOf(u, str)
  <2>1. (LineTyped(input))' = LineTyped(input') /\ Entered' = EnteredOf(input', inputStr')
    BY DEF Entered, EnteredOf
  <2> QED BY <1>2, <1>7, <2>1
<1>9. FirstInv(u, n + 1) /\ FirstInv(input, typed)'
  <2>1. FirstInv(u, n + 1)
    BY <1>3, <1>6, WriteFirst
  <2>2. FirstInv(input, typed)' <=> FirstInv(input', typed')
    OBVIOUS
  <2> QED BY <1>7, <2>1, <2>2
<1>10. CASE c = Newline
  <2>1. /\ LineTyped(u) = <<>>
        /\ Cardinality(Newlines(u)) = Cardinality(Newlines(s)) + 1
    BY <1>3, <1>6, <1>10, EnterLine
  <2>2. EnteredOf(u, str) = Then(EnteredOf(s, str), Trimmed(LineTyped(s)))
    BY <1>3, <1>6, <1>10, EnteredMore
  <2>3. Cardinality(Newlines(u)) # 0
    <3>1. Cardinality(Newlines(s)) \in Nat
      BY <1>6, NewlinesType
    <3> QED BY <2>1, <3>1, SMT
  <2>4. (inputStr # <<>> => Cardinality(Newlines(input)) # 0)'
    <3>1. (Newlines(input))' = Newlines(input')
      OBVIOUS
    <3> QED BY <1>7, <2>3, <3>1
  <2>5. Entered' = Append(Entered, Lines!Trim(LineTyped(input)))
    BY <1>6, <1>8, <2>2, TrimIs DEF Then
  <2>6. Lines!Enter
    BY <1>1, <1>8, <2>1, <2>5 DEF Lines!Enter
  <2> QED BY <1>9, <2>4, <2>6
<1>11. CASE c # Newline
  <2>1. c \in Char
    BY <1>11
  <2>2. /\ LineTyped(u) = Append(LineTyped(s), c) /\ Newlines(u) = Newlines(s)
        /\ \A m \in 1 .. Cardinality(Newlines(s)) : Nth(u, m) = Nth(s, m)
    BY <1>3, <1>6, <2>1, TypeLine
  <2>3. EnteredOf(u, str) = EnteredOf(s, str)
    BY <2>2, EnteredKept
  <2>4. (inputStr # <<>> => Cardinality(Newlines(input)) # 0)'
    <3>1. (Newlines(input))' = Newlines(input')
      OBVIOUS
    <3> QED BY <1>6, <1>7, <2>2, <3>1
  <2>5. (LineTyped(input))' = Append(LineTyped(input), c)
    BY <1>8, <2>2
  <2>6. Entered' = Entered
    BY <1>6, <1>8, <2>3
  <2>8. Lines!Type
    BY <1>1, <2>1, <2>5, <2>6 DEF Lines!Type
  <2> QED BY <1>9, <2>4, <2>8
<1> QED BY <1>10, <1>11

\* ... Backspace, ...
LEMMA EraseTerminal ==
    ASSUME TerminalInv, Erase
    PROVE  /\ FirstInv(input, typed)' /\ (inputStr # <<>> => Cardinality(Newlines(input)) # 0)'
           /\ Lines!Erase \/ UNCHANGED Lines!terminalVars
<1>1. /\ typed' = typed /\ input' = handleBackspace(input)
      /\ inputStr' = inputStr /\ command' = command
  BY DEF Erase, shellVars
<1>2. PICK s : s = input
  OBVIOUS
<1>3. PICK u : u = handleBackspace(s)
  OBVIOUS
<1>4. PICK n : n = typed
  OBVIOUS
<1>5. PICK str : str = inputStr
  OBVIOUS
<1>6. /\ n \in Nat /\ n <= TypedLimit /\ FirstInv(s, n) /\ str \in Seq(Byte)
      /\ str # <<>> => Cardinality(Newlines(s)) # 0
      /\ Entered = EnteredOf(s, str)
  BY <1>2, <1>4, <1>5, TerminalTypes
<1>7. input' = u /\ inputStr' = str /\ typed' = n
  BY <1>1, <1>2, <1>3, <1>4, <1>5
<1>8. /\ LineTyped(input) = LineTyped(s) /\ (LineTyped(input))' = LineTyped(u)
      /\ Entered' = EnteredOf(u, str)
  <2>1. (LineTyped(input))' = LineTyped(input') /\ Entered' = EnteredOf(input', inputStr')
    BY DEF Entered, EnteredOf
  <2> QED BY <1>2, <1>7, <2>1
<1>9. FirstInv(u, n) /\ FirstInv(input, typed)'
  <2>1. FirstInv(u, n)
    BY <1>3, <1>6, BackFirst
  <2>2. FirstInv(input, typed)' <=> FirstInv(input', typed')
    OBVIOUS
  <2> QED BY <1>7, <2>1, <2>2
<1>10. /\ Newlines(u) = Newlines(s)
       /\ \A m \in 1 .. Cardinality(Newlines(s)) : Nth(u, m) = Nth(s, m)
       /\ IF u.writePosition = s.writePosition THEN LineTyped(u) = LineTyped(s)
          ELSE \E c \in Byte : LineTyped(s) = Append(LineTyped(u), c)
  BY <1>3, <1>6, EraseLine
<1>11. Entered' = Entered
  <2>1. EnteredOf(u, str) = EnteredOf(s, str)
    BY <1>10, EnteredKept
  <2> QED BY <1>6, <1>8, <2>1
<1>12. (inputStr # <<>> => Cardinality(Newlines(input)) # 0)'
  <2>1. (Newlines(input))' = Newlines(input')
    OBVIOUS
  <2> QED BY <1>6, <1>7, <1>10, <2>1
<1>13. CASE u.writePosition = s.writePosition
  <2>1. (LineTyped(input))' = LineTyped(input)
    BY <1>8, <1>10, <1>13
  <2> QED BY <1>1, <1>9, <1>11, <1>12, <2>1 DEF Lines!terminalVars
<1>14. CASE u.writePosition # s.writePosition
  <2>1. PICK c \in Byte : LineTyped(s) = Append(LineTyped(u), c)
    BY <1>10, <1>14
  <2>2. PICK a : a = LineTyped(u)
    OBVIOUS
  <2>3. PICK b : b = Append(a, c)
    OBVIOUS
  <2>4. a \in Seq(Byte)
    BY <1>6, <1>9, <2>2, LinesType
  <2>5. /\ b \in Seq(Byte) /\ b # <<>> /\ Len(b) = Len(a) + 1 /\ Len(a) \in Nat
        /\ \A k \in 1 .. Len(a) : b[k] = a[k]
    BY <2>3, <2>4, AppendProperties, LenProperties
  <2>6. Lines!Front(b) = a
    <3>1. PICK l : l = Len(a)
      OBVIOUS
    <3>2. l \in Nat /\ Len(b) - 1 = l
      BY <2>5, <3>1, SMT
    <3>3. PICK f : f = SubSeq(b, 1, l)
      OBVIOUS
    <3>4. 1 \in Int /\ l \in Int /\ l - 1 + 1 = l /\ (1 <= l => l - 1 + 1 = l) /\ (~(1 <= l) => l = 0)
          /\ \A k \in 1 .. l : k \in 1 .. Len(b) /\ 1 + k - 1 = k
      BY <2>5, <3>1, <3>2, SMT
    <3>5. \A k \in 1 .. l : b[k] \in Byte
      BY <2>5, <3>4, ElementOfSeq
    <3>6. /\ f \in Seq(Byte) /\ Len(f) = IF 1 <= l THEN l - 1 + 1 ELSE 0
          /\ \A k \in 1 .. l - 1 + 1 : f[k] = b[1 + k - 1]
      BY <3>3, <3>4, <3>5, SubSeqProperties
    <3>7. Len(f) = l /\ \A k \in 1 .. l : f[k] = a[k]
      BY <2>5, <3>1, <3>4, <3>6
    <3>8. f = a
      BY <2>4, <3>1, <3>6, <3>7, SeqEqual
    <3> QED BY <3>2, <3>3, <3>8 DEF Lines!Front
  <2>7. Lines!Erase
    <3>1. LineTyped(input) = b
      BY <1>8, <2>1, <2>2, <2>3
    <3>2. (LineTyped(input))' = Lines!Front(LineTyped(input))
      BY <1>8, <2>2, <2>6, <3>1
    <3> QED BY <1>1, <1>11, <2>5, <3>1, <3>2 DEF Lines!Erase
  <2> QED BY <1>9, <1>12, <2>7
<1> QED BY <1>13, <1>14

\* A line without an end of a command in it is one command.
LEMMA WholePiece ==
    ASSUME NEW str \in Seq(Kept), Len(str) <= CommandLimit + 1
    PROVE  Lines!FirstPiece(str) = Len(str) /\ SubSeq(str, 1, Len(str)) = str
<1>1. PICK l : l = Len(str)
  OBVIOUS
<1>2. l \in Nat /\ CommandLimit \in Nat /\ l <= CommandLimit + 1
  BY <1>1, LenProperties, InputAssumption
<1>3. {k \in 1 .. l : str[k] = Nul} = {}
  <2>1. \A k \in 1 .. l : str[k] \in Kept
    BY <1>1, ElementOfSeq
  <2> QED BY <2>1 DEF Kept
<1>4. {l, CommandLimit + 1} \cup {k - 1 : k \in {k \in 1 .. l : str[k] = Nul}} = {l, CommandLimit + 1}
  BY <1>3
<1>5. Min({l, CommandLimit + 1}) = l
  <2>1. {l, CommandLimit + 1} \in SUBSET Int /\ \A y \in {l, CommandLimit + 1} : l <= y
    BY <1>2, SMT
  <2> QED BY <2>1, MinIs
<1>6. Lines!FirstPiece(str) = l
  BY <1>1, <1>4, <1>5 DEF Lines!FirstPiece, Lines!Min, Min
<1> QED BY <1>1, <1>6, SubSeqFull

\* A line whose first piece is str, with t behind the character that is lost.
CutInto(whole, str, t) ==
    /\ Lines!FirstPiece(whole) = Len(str) /\ Len(str) # Len(whole)
    /\ SubSeq(whole, 1, Len(str)) = str
    /\ SubSeq(whole, Len(str) + 2, Len(whole)) = t
    /\ whole # <<>>

\* What a piece of a sequence is, with a name for the piece.
IsPiece(p, s, a, b, S) ==
    /\ p \in Seq(S)
    /\ Len(p) = IF a <= b THEN b - a + 1 ELSE 0
    /\ \A k \in 1 .. b - a + 1 : p[k] = s[a + k - 1]

LEMMA PieceIs ==
  ASSUME NEW S, NEW s, NEW a, NEW b, a \in Int /\ b \in Int,
         \A k \in a .. b : s[k] \in S, NEW p, p = SubSeq(s, a, b)
  PROVE  IsPiece(p, s, a, b, S)
<1>1. SubSeq(s, a, b) \in Seq(S)
  BY SubSeqProperties
<1>2. Len(SubSeq(s, a, b)) = IF a <= b THEN b - a + 1 ELSE 0
  BY SubSeqProperties
<1>3. \A k \in 1 .. b - a + 1 : SubSeq(s, a, b)[k] = s[a + k - 1]
  BY SubSeqProperties
<1> QED BY <1>1, <1>2, <1>3 DEF IsPiece

\* A line with a character behind which a command ends, ...
LEMMA CutPiece ==
    ASSUME NEW str \in Seq(Kept), Len(str) <= CommandLimit + 1, NEW c \in Byte,
           c = Nul \/ Len(str) > CommandLimit, NEW t \in Seq(Byte),
           NEW whole, whole = str \o Behind(c, t)
    PROVE  CutInto(whole, str, t)
<1>1. PICK l : l = Len(str)
  OBVIOUS
<1>2. PICK h : h = Behind(c, t)
  OBVIOUS
<1>3. PICK m : m = Len(t)
  OBVIOUS
<1>4. l \in Nat /\ m \in Nat /\ CommandLimit \in Nat /\ l <= CommandLimit + 1
      /\ (c = Nul \/ l > CommandLimit)
  BY <1>1, <1>3, LenProperties, InputAssumption
<1>5. h \in Seq(Byte) /\ Len(h) = m + 1 /\ h[1] = c /\ \A k \in 1 .. m : h[k + 1] = t[k]
  <2>1. h \in Seq(Byte) /\ Len(h) = m + 1 /\ h[1] = c
    BY <1>2, <1>3, BehindIs
  <2>2. Follows(h, t)
    BY <1>2, BehindIs
  <2> QED BY <1>3, <2>1, <2>2 DEF Follows
<1>6. str \in Seq(Byte)
  <2>1. Kept \subseteq Byte
    BY DEF Byte, Kept
  <2> QED BY <2>1, SeqMonotonic
<1>7. /\ whole \in Seq(Byte) /\ Len(whole) = l + (m + 1)
      /\ \A k \in 1 .. l + (m + 1) : whole[k] = IF k <= l THEN str[k] ELSE h[k - l]
  <2>1. whole = str \o h
    BY <1>2
  <2>2. /\ whole \in Seq(Byte) /\ Len(whole) = Len(str) + Len(h)
        /\ \A k \in 1 .. Len(str) + Len(h) :
               whole[k] = IF k <= Len(str) THEN str[k] ELSE h[k - Len(str)]
    <3>1. h \in Seq(Byte)
      BY <1>5
    <3>2. /\ str \o h \in Seq(Byte) /\ Len(str \o h) = Len(str) + Len(h)
          /\ \A k \in 1 .. Len(str) + Len(h) :
                 (str \o h)[k] = IF k <= Len(str) THEN str[k] ELSE h[k - Len(str)]
      BY <1>6, <3>1, ConcatProperties
    <3> QED BY <2>1, <3>2
  <2>3. Len(h) = m + 1
    BY <1>5
  <2> QED BY <1>1, <2>2, <2>3
<1>8. \A k \in 1 .. l : whole[k] = str[k] /\ whole[k] \in Kept
  <2>1. \A k \in 1 .. l : k \in 1 .. l + (m + 1) /\ k <= l
    BY <1>4, SMT
  <2>2. \A k \in 1 .. l : str[k] \in Kept
    BY <1>1, ElementOfSeq
  <2> QED BY <1>7, <2>1, <2>2
<1>9. whole[l + 1] = c
  <2>1. l + 1 \in 1 .. l + (m + 1) /\ ~(l + 1 <= l) /\ (l + 1) - l = 1
    BY <1>4, SMT
  <2> QED BY <1>5, <1>7, <2>1
<1>10. \A k \in 1 .. m : whole[l + 1 + k] = t[k]
  <2> TAKE k \in 1 .. m
  <2>1. l + 1 + k \in 1 .. l + (m + 1) /\ ~(l + 1 + k <= l) /\ (l + 1 + k) - l = k + 1
    BY <1>4, SMT
  <2> QED BY <1>5, <1>7, <2>1
<1>11. Lines!FirstPiece(whole) = l
  <2> DEFINE Nuls == {k \in 1 .. l + (m + 1) : whole[k] = Nul}
             S == {l + (m + 1), CommandLimit + 1} \cup {k - 1 : k \in Nuls}
  <2>1. \A k \in Nuls : k \in Nat /\ l <= k - 1
    <3> TAKE k \in Nuls
    <3>1. k \in 1 .. l + (m + 1) /\ whole[k] = Nul
      OBVIOUS
    <3>2. k \notin 1 .. l
      BY <1>8, <3>1 DEF Kept
    <3> QED BY <1>4, <3>1, <3>2, SMT
  <2>2. l \in S
    <3>1. CASE c = Nul
      <4>1. l + 1 \in 1 .. l + (m + 1) /\ (l + 1) - 1 = l
        BY <1>4, SMT
      <4>2. l + 1 \in Nuls
        BY <1>9, <3>1, <4>1
      <4> QED BY <4>1, <4>2
    <3>2. CASE l > CommandLimit
      <4>1. l = CommandLimit + 1
        BY <1>4, <3>2, SMT
      <4> QED BY <4>1
    <3> QED BY <1>4, <3>1, <3>2
  <2>3. S \in SUBSET Int
    <3>1. \A k \in Nuls : k - 1 \in Int
      <4> TAKE k \in Nuls
      <4> HIDE DEF Nuls
      <4> QED BY <2>1, SMT
    <3>2. l + (m + 1) \in Int /\ CommandLimit + 1 \in Int
      BY <1>4, SMT
    <3> HIDE DEF Nuls
    <3> QED BY <3>1, <3>2
  <2>4. \A y \in S : l <= y
    <3>1. l <= l + (m + 1) /\ l <= CommandLimit + 1
      BY <1>4, SMT
    <3> HIDE DEF Nuls
    <3> QED BY <2>1, <3>1
  <2>5. Lines!FirstPiece(whole) = Min(S)
    BY <1>7 DEF Lines!FirstPiece, Lines!Min, Min
  <2> HIDE DEF S
  <2> QED BY <2>2, <2>3, <2>4, <2>5, MinIs
<1>12. SubSeq(whole, 1, l) = str
  <2>1. PICK f : f = SubSeq(whole, 1, l)
    OBVIOUS
  <2>2. 1 \in Int /\ l \in Int /\ (IF 1 <= l THEN l - 1 + 1 ELSE 0) = l /\ l - 1 + 1 = l
        /\ \A k \in 1 .. l : k \in 1 .. Len(whole) /\ 1 + k - 1 = k
    BY <1>4, <1>7, SMT
  <2>3. \A k \in 1 .. l : whole[k] \in Byte
    BY <1>7, <2>2, ElementOfSeq
  <2>4. /\ f \in Seq(Byte) /\ Len(f) = IF 1 <= l THEN l - 1 + 1 ELSE 0
        /\ \A k \in 1 .. l - 1 + 1 : f[k] = whole[1 + k - 1]
    BY <2>1, <2>2, <2>3, SubSeqProperties
  <2>5. Len(f) = l /\ \A k \in 1 .. l : f[k] = str[k]
    BY <1>8, <2>2, <2>4
  <2> QED BY <1>1, <1>6, <2>1, <2>4, <2>5, SeqEqual
<1>13. SubSeq(whole, l + 2, l + (m + 1)) = t
  <2>0. PICK from, to : from = l + 2 /\ to = l + (m + 1)
    OBVIOUS
  <2>1. PICK f : f = SubSeq(whole, from, to)
    OBVIOUS
  <2>2. /\ from \in Int /\ to \in Int
        /\ (IF from <= to THEN to - from + 1 ELSE 0) = m /\ to - from + 1 = m
        /\ \A k \in from .. to : k \in 1 .. l + (m + 1)
        /\ \A k \in 1 .. m : from + k - 1 = l + 1 + k
    BY <1>4, <2>0, SMT
  <2>3. \A k \in from .. to : whole[k] \in Byte
    BY <1>7, <2>2, ElementOfSeq
  <2>4. /\ f \in Seq(Byte) /\ Len(f) = IF from <= to THEN to - from + 1 ELSE 0
        /\ \A k \in 1 .. to - from + 1 : f[k] = whole[from + k - 1]
    <3>1. from \in Int /\ to \in Int
      BY <2>2
    <3>2. IsPiece(f, whole, from, to, Byte)
      BY <2>1, <2>3, <3>1, PieceIs
    <3> QED BY <3>2 DEF IsPiece
  <2>5. Len(f) = m /\ \A k \in 1 .. m : f[k] = t[k]
    BY <1>10, <2>2, <2>4
  <2> QED BY <1>3, <2>0, <2>1, <2>4, <2>5, SeqEqual
<1>14. l # Len(whole) /\ Len(whole) # 0
  BY <1>4, <1>7, SMT
<1>15. whole # <<>>
  <2>1. Len(<<>>) = 0
    BY EmptySeq
  <2> QED BY <1>14, <2>1
<1> QED BY <1>1, <1>7, <1>11, <1>12, <1>13, <1>14, <1>15 DEF CutInto

\* ... and the shell's reading.
LEMMA GetcharTerminal ==
    ASSUME FirstUse, TerminalInv, getchar
    PROVE  /\ FirstInv(input, typed)' /\ (inputStr # <<>> => Cardinality(Newlines(input)) # 0)'
           /\ Lines!Take \/ UNCHANGED Lines!terminalVars
<1>1. PICK char : char = NextChar(input)
  OBVIOUS
<1>2. PICK c : c = IF char = Newline THEN Nul ELSE char
  OBVIOUS
<1>3. input' = readChar(input) /\ typed' = typed /\ Collect(c)
  BY <1>1, <1>2 DEF getchar
<1>4. PICK s : s = input
  OBVIOUS
<1>5. PICK u : u = readChar(s)
  OBVIOUS
<1>6. PICK n : n = typed
  OBVIOUS
<1>7. PICK str : str = inputStr
  OBVIOUS
<1>8. /\ n \in Nat /\ n <= TypedLimit /\ FirstInv(s, n) /\ str \in Seq(Byte)
      /\ str \in Seq(Kept) /\ Len(str) <= CommandLimit + 1 /\ CommandLimit \in Nat
      /\ str # <<>> => Cardinality(Newlines(s)) # 0
      /\ Entered = EnteredOf(s, str)
  BY <1>4, <1>6, <1>7, TerminalTypes
<1>s. \/ /\ str # <<>> /\ (c = Nul \/ Len(str) > CommandLimit)
         /\ command' = str /\ inputStr' = <<>>
      \/ /\ str = <<>> /\ c \in {Nul, Space}
         /\ command' = command /\ inputStr' = str
      \/ /\ c # Nul /\ (str = <<>> => c # Space) /\ Len(str) <= CommandLimit
         /\ command' = command /\ inputStr' = Append(str, c)
  BY <1>3, <1>7 DEF Collect, shellVars
<1>9. input' = u /\ typed' = n /\ char = NextChar(s) /\ LineTyped(input) = LineTyped(s)
      /\ (LineTyped(input))' = LineTyped(u)
  <2>1. (LineTyped(input))' = LineTyped(input')
    OBVIOUS
  <2> QED BY <1>1, <1>3, <1>4, <1>5, <1>6, <2>1
<1>10. Entered' = EnteredOf(u, inputStr') /\ (Newlines(input))' = Newlines(u)
       /\ (FirstInv(input, typed)' <=> FirstInv(u, n))
  <2>1. Entered' = EnteredOf(input', inputStr') /\ (Newlines(input))' = Newlines(input')
        /\ (FirstInv(input, typed)' <=> FirstInv(input', typed'))
    BY DEF Entered, EnteredOf
  <2> QED BY <1>9, <2>1
<1>11. CASE ~Readable(s)
  <2>1. u = s /\ char = Nul
    BY <1>5, <1>9, <1>11 DEF readChar, NextChar
  <2>2. str = <<>>
    <3>1. ASSUME Newlines(s) # {} PROVE FALSE
      <4>1. /\ s.readPosition \in Nat /\ s.writePosition \in Nat
            /\ Newlines(s) \in SUBSET Nat /\ IsFiniteSet(Newlines(s))
            /\ \A k \in Newlines(s) : s.readPosition <= k /\ k < s.writePosition
        BY <1>8, NewlinesType
      <4>2. PICK k \in Newlines(s) : TRUE
        BY <3>1
      <4>3. k \in Nat /\ s.readPosition <= k /\ k < s.writePosition
        BY <4>1, <4>2
      <4>4. s.writePosition > s.readPosition
        BY <4>1, <4>3, SMT
      <4>5. Cardinality(Newlines(s)) # 0 /\ Cardinality(Newlines(s)) \in Nat
        BY <3>1, <4>1, FS_EmptySet, FS_CardinalityType
      <4>6. s.readline = Cardinality(Newlines(s)) /\ s.indicator = 0
        BY <1>8 DEF FirstInv
      <4>7. s.readline > 0
        BY <4>5, <4>6, SMT
      <4> QED BY <1>11, <4>4, <4>6, <4>7 DEF Readable
    <3>2. Cardinality({}) = 0
      BY FS_EmptySet
    <3> QED BY <1>8, <3>1, <3>2
  <2>3. c = Nul
    BY <1>2, <2>1
  <2>4. inputStr' = str /\ command' = command
    BY <1>s, <2>2, <2>3
  <2>5. FirstInv(input, typed)' /\ (inputStr # <<>> => Cardinality(Newlines(input)) # 0)'
    BY <1>8, <1>10, <2>1, <2>2, <2>4
  <2>6. Entered' = Entered
    BY <1>8, <1>10, <2>1, <2>4
  <2>7. UNCHANGED Lines!terminalVars
    BY <1>9, <2>1, <2>4, <2>6 DEF Lines!terminalVars
  <2> QED BY <2>5, <2>7
<1>12. CASE Readable(s)
  <2>1. FirstInv(u, n) /\ char \in Byte
    BY <1>5, <1>8, <1>9, <1>12, ReadFirst
  <2>2. CASE char = Newline
    <3>1. c = Nul
      BY <1>2, <2>2
    <3>2. inputStr' = <<>> /\ command' = IF str = <<>> THEN command ELSE str
      BY <1>s, <3>1
    <3>3. LineTyped(u) = LineTyped(s)
      BY <1>5, <1>8, <1>9, <1>12, <2>2, ReadEnd
    <3>4. /\ EnteredOf(s, str) # <<>> /\ Head(EnteredOf(s, str)) = str
          /\ EnteredOf(u, <<>>) = Tail(EnteredOf(s, str))
      BY <1>5, <1>8, <1>9, <1>12, <2>2, EnteredTaken
    <3>5. Entered' = Tail(Entered) /\ Entered # <<>> /\ Head(Entered) = str
      BY <1>8, <1>10, <3>2, <3>4
    <3>6. Lines!FirstPiece(str) = Len(str) /\ SubSeq(str, 1, Len(str)) = str
      BY <1>8, WholePiece
    <3>7. Lines!Take
      BY <1>9, <3>2, <3>3, <3>5, <3>6 DEF Lines!Take
    <3>8. FirstInv(input, typed)' /\ (inputStr # <<>> => Cardinality(Newlines(input)) # 0)'
      BY <1>10, <2>1, <3>2
    <3> QED BY <3>7, <3>8
  <2>3. CASE char # Newline
    <3>1. c = char
      BY <1>2, <2>3
    <3>2. /\ LineTyped(u) = LineTyped(s) /\ Newlines(u) = Newlines(s)
          /\ Cardinality(Newlines(s)) \in Nat \ {0}
      BY <1>5, <1>8, <1>9, <1>12, <2>3, ReadMore
    <3>3. FirstInv(input, typed)' /\ (inputStr # <<>> => Cardinality(Newlines(input)) # 0)'
      BY <1>10, <2>1, <3>2
    <3>4. CASE str # <<>> /\ (c = Nul \/ Len(str) > CommandLimit)
      <4>1. command' = str /\ inputStr' = <<>>
        <5>1. ~(Len(str) > CommandLimit /\ Len(str) <= CommandLimit)
          BY <1>8, LenProperties, SMT
        <5> QED BY <1>s, <3>4, <5>1
      <4>2. PICK t : t = Nth(u, 1)
        OBVIOUS
      <4>3. PICK whole : whole = str \o Behind(char, t)
        OBVIOUS
      <4>4. /\ EnteredOf(s, str) # <<>> /\ Head(EnteredOf(s, str)) = whole
            /\ t \in Seq(Byte)
            /\ EnteredOf(u, <<>>) = [EnteredOf(s, str) EXCEPT ![1] = Trimmed(t)]
        BY <1>5, <1>8, <1>9, <1>12, <2>3, <3>4, <4>2, <4>3, EnteredCut
      <4>5. Entered' = [Entered EXCEPT ![1] = Trimmed(t)] /\ Entered # <<>> /\ Head(Entered) = whole
        BY <1>8, <1>10, <4>1, <4>4
      <4>6. CutInto(whole, str, t)
        <5>1. char = Nul \/ Len(str) > CommandLimit
          BY <3>1, <3>4
        <5>2. str \in Seq(Kept) /\ Len(str) <= CommandLimit + 1 /\ char \in Byte /\ t \in Seq(Byte)
          BY <1>8, <2>1, <4>4
        <5>3. char \in Byte /\ t \in Seq(Byte)
          BY <5>2
        <5>4. str \in Seq(Kept) /\ Len(str) <= CommandLimit + 1
          BY <5>2
        <5> QED BY ONLY <4>3, <5>1, <5>3, <5>4, CutPiece
      <4>7. Trimmed(t) = Lines!Trim(t)
        BY TrimIs
      <4>8. Lines!Take
        BY <1>9, <3>2, <4>1, <4>5, <4>6, <4>7 DEF Lines!Take, CutInto
      <4> QED BY <3>3, <4>8
    <3>5. CASE ~(str # <<>> /\ (c = Nul \/ Len(str) > CommandLimit))
      <4>1. PICK str1 : str1 = ReadBehind(str, char)
        OBVIOUS
      <4>2. command' = command /\ inputStr' = str1
        BY <1>s, <3>1, <3>5, <4>1 DEF ReadBehind
      <4>3. EnteredOf(u, str1) = EnteredOf(s, str)
        BY <1>5, <1>8, <1>9, <1>12, <2>3, <4>1, EnteredRead
      <4>4. Entered' = Entered
        BY <1>8, <1>10, <4>2, <4>3
      <4>5. UNCHANGED Lines!terminalVars
        BY <1>9, <3>2, <4>2, <4>4 DEF Lines!terminalVars
      <4> QED BY <3>3, <4>5
    <3> QED BY <3>4, <3>5
  <2> QED BY <2>2, <2>3
<1> QED BY <1>11, <1>12

\* Each step is a step of the terminal or leaves it alone.
KeptLines ==
    /\ FirstInv(input, typed)'
    /\ (inputStr # <<>> => Cardinality(Newlines(input)) # 0)'
    /\ [Lines!Next]_Lines!terminalVars

\* The invariant is kept, and the step is one of the terminal, for every action.
LEMMA TerminalStep ==
    ASSUME FirstUse, TerminalInv, [Next]_vars
    PROVE  TerminalInv' /\ [Lines!Next]_Lines!terminalVars
<1>1. DevicesInv'
  BY DevicesStep DEF TerminalInv
<1>0. Lines!Type \/ Lines!Enter \/ Lines!Erase \/ Lines!Take => Lines!Next
  BY DEF Lines!Next
<1>2. ASSUME UNCHANGED <<input, typed, inputStr, command>> PROVE KeptLines
  <2>1. /\ (LineTyped(input))' = LineTyped(input') /\ Entered' = EnteredOf(input', inputStr')
        /\ (Newlines(input))' = Newlines(input')
        /\ (FirstInv(input, typed)' <=> FirstInv(input', typed'))
    BY DEF Entered, EnteredOf
  <2>2. (LineTyped(input))' = LineTyped(input) /\ Entered' = Entered
    BY <1>2, <2>1, TerminalTypes
  <2>3. UNCHANGED Lines!terminalVars
    BY <1>2, <2>2 DEF Lines!terminalVars
  <2> QED BY <1>2, <2>1, <2>3 DEF TerminalInv, KeptLines
<1>3. ASSUME NEW c \in Char \cup {Newline}, Typed(c) PROVE KeptLines
  BY <1>0, <1>3, TypedTerminal DEF KeptLines
<1>4. ASSUME Erase PROVE KeptLines
  BY <1>0, <1>4, EraseTerminal DEF KeptLines
<1>5. ASSUME getchar PROVE KeptLines
  BY <1>0, <1>5, GetcharTerminal DEF KeptLines
<1>6. ASSUME NEW text \in Output, writeFile(text) PROVE KeptLines
  BY <1>2, <1>6 DEF writeFile, shellVars
<1>7. ASSUME NEW k \in Modifier, ModifierDown(k) \/ ModifierUp(k)
      PROVE  KeptLines
  BY <1>2, <1>7 DEF ModifierDown, ModifierUp, shellVars
<1>8. ASSUME UNCHANGED vars PROVE KeptLines
  BY <1>2, <1>8 DEF vars, shellVars
<1>9. ASSUME NEW c \in {Newline, Space}, KeyText(c) PROVE KeptLines
  <2>1. c \in Char \cup {Newline} /\ Typed(c)
    BY <1>9 DEF KeyText, Char
  <2> QED BY <1>3, <2>1
<1>10. ASSUME NEW c \in Key, KeyDefault(c) PROVE KeptLines
  <2>1. c \in Char \cup {Newline}
    BY DEF Char
  <2>2. Typed(c) \/ Erase \/ UNCHANGED vars
    BY <1>10 DEF KeyDefault
  <2> QED BY <1>3, <1>4, <1>8, <2>1, <2>2
<1>11. KeptLines
  BY <1>4, <1>5, <1>6, <1>7, <1>8, <1>9, <1>10 DEF Next
<1> QED BY <1>1, <1>11 DEF TerminalInv, KeptLines

\* Until the buffer is used for the second time, and for any number of characters that
\* allows, keys and reads in any order, the commands the shell reads are the lines as
\* they were entered, those with a NUL in them or too long for the shell in pieces:
\* characters, count of lines, backspace and the NUL that is a key, the end of a line and
\* "nothing to read" agree.
THEOREM TerminalImplemented == FirstUse => (Spec => ImplementsTerminal)
<1> SUFFICES ASSUME FirstUse PROVE Spec => ImplementsTerminal
  OBVIOUS
<1>1. Init => TerminalInv /\ Lines!Init
  BY TerminalInit
<1>2. TerminalInv /\ [Next]_vars => TerminalInv' /\ [Lines!Next]_Lines!terminalVars
  BY TerminalStep
<1> QED BY <1>1, <1>2, PTL DEF Spec, ImplementsTerminal, Lines!Spec

-------------------------------------------------------------------------------
(* The line that is typed is on the screen. *)

\* A line is what is left of the cursor, as far as the screen goes back.
Echo(scr, line) ==
    \A k \in DOMAIN line :
        scr.line_adr - Len(line) + k - 1 >= 0
            => scr.cell[scr.line_adr - Len(line) + k - 1] = line[k]

\* The property says it of the line that is typed, unless something was printed behind it.
LEMMA EchoEquals == EchoIsLine <=> (~interrupted => Echo(screen, LineTyped(input)))
  BY DEF EchoIsLine, Echo

\* A character that is put behind it, ...
LEMMA PutEcho ==
    ASSUME NEW s, NEW r \in Int, InRow(s, r), NEW c, NEW u, u = Put(s, c),
           NEW line \in Seq(Byte), Echo(s, line), NEW more, more = Append(line, c), c \in Byte
    PROVE  Echo(u, more)
<1>1. PICK l : l = Len(line)
  OBVIOUS
<1>2. l \in Nat /\ DOMAIN line = 1 .. l
  BY <1>1, LenProperties
<1>3. /\ Len(more) = l + 1 /\ DOMAIN more = 1 .. l + 1
      /\ \A k \in 1 .. l : more[k] = line[k]
      /\ more[l + 1] = c
  <2>1. /\ more \in Seq(Byte) /\ Len(more) = l + 1
        /\ \A k \in 1 .. l : more[k] = line[k]
        /\ more[l + 1] = c
    BY <1>1, AppendProperties
  <2> QED BY <2>1, LenProperties
<1>4. PICK v : v = [s EXCEPT !.cell[s.line_adr] = c, !.line_adr = @ + 1]
  OBVIOUS
<1>5. s = [cell |-> s.cell, line_adr |-> s.line_adr, next_line_adrs |-> s.next_line_adrs,
            v_line_count |-> s.v_line_count]
  BY DEF InRow, OnRow
<1>6. /\ v.cell = [s.cell EXCEPT ![s.line_adr] = c] /\ v.line_adr = s.line_adr + 1
      /\ v.next_line_adrs = s.next_line_adrs
      /\ v = [cell |-> v.cell, line_adr |-> v.line_adr, next_line_adrs |-> v.next_line_adrs,
              v_line_count |-> v.v_line_count]
  BY <1>4, <1>5
<1>7. PICK d : d = s.line_adr
  OBVIOUS
<1>8. /\ d \in Int /\ d < s.next_line_adrs /\ s.next_line_adrs \in Int
      /\ s.next_line_adrs <= TextEnd /\ TextEnd \in Nat /\ Width \in Nat \ {0} /\ Slack \in Nat
  <2>1. /\ s.line_adr \in Int /\ s.line_adr < s.next_line_adrs
        /\ r < s.v_line_count /\ s.v_line_count \in 1 .. Rows
        /\ s.next_line_adrs = Width * (r + 1)
    BY DEF InRow, OnRow
  <2>2. r + 1 \in Int
    BY SMT
  <2>3. Width * (r + 1) \in Int
    BY <2>2, RowsGrow
  <2> QED BY <1>7, <2>1, <2>3, TextEndIs, ConsoleAssumption
<1>9. \A p \in 0 .. d : p \in Cells
  BY <1>8, SMT DEF Cells
<1>10. s.cell = [p \in Cells |-> s.cell[p]]
  BY DEF InRow, OnRow
<1>11. ASSUME NEW k \in 1 .. l + 1, d - l + k - 1 >= 0
       PROVE  /\ v.cell[d - l + k - 1] = more[k] /\ d - l + k - 1 \in 0 .. d
  <2>1. PICK p : p = d - l + k - 1
    OBVIOUS
  <2>2. p \in 0 .. d
    BY <1>2, <1>8, <1>11, <2>1, SMT
  <2>3. CASE k = l + 1
    <3>1. p = d
      BY <1>2, <1>8, <2>1, <2>3, SMT
    <3>2. v.cell[d] = c
      BY <1>6, <1>7, <1>9, <1>10, <2>2, <3>1
    <3> QED BY <1>3, <2>1, <2>2, <2>3, <3>1, <3>2
  <2>4. CASE k # l + 1
    <3>1. k \in 1 .. l /\ p # d
      BY <1>2, <1>8, <2>1, <2>4, SMT
    <3>2. s.cell[p] = line[k]
      BY <1>1, <1>2, <1>7, <1>11, <2>1, <3>1 DEF Echo
    <3>3. v.cell[p] = s.cell[p]
      BY <1>6, <1>7, <1>9, <1>10, <2>2, <3>1
    <3> QED BY <1>3, <2>1, <2>2, <3>1, <3>2, <3>3
  <2> QED BY <2>3, <2>4
<1>12. u = check_if_line_full(v)
  BY <1>4 DEF Put
<1>13. CASE u.cell = v.cell /\ u.line_adr = v.line_adr
  <2>1. ASSUME NEW k \in 1 .. l + 1 PROVE (d + 1) - (l + 1) + k - 1 = d - l + k - 1
    BY <1>2, <1>8, SMT
  <2> QED BY <1>3, <1>6, <1>7, <1>11, <1>13, <2>1 DEF Echo
<1>14. CASE /\ v.line_adr = v.next_line_adrs
            /\ u.cell = Scrolled(v.cell) /\ u.line_adr = v.next_line_adrs - Width
  <2>1. u.line_adr = d + 1 - Width
    <3>1. v.line_adr = d + 1
      BY <1>6, <1>7
    <3>2. u.line_adr = v.line_adr - Width
      BY <1>14
    <3> QED BY <1>8, <3>1, <3>2, SMT
  <2>2. ASSUME NEW k \in 1 .. l + 1, (d + 1 - Width) - (l + 1) + k - 1 >= 0
        PROVE  u.cell[(d + 1 - Width) - (l + 1) + k - 1] = more[k]
    <3>1. PICK p : p = d - l + k - 1
      OBVIOUS
    <3>2. PICK q : q = (d + 1 - Width) - (l + 1) + k - 1
      OBVIOUS
    <3>3. p >= 0 /\ q + Width = p /\ q >= 0 /\ q \in Int
      BY <1>2, <1>8, <2>2, <3>1, <3>2, SMT
    <3>4. v.cell[p] = more[k] /\ p \in 0 .. d
      BY <1>11, <3>1, <3>3
    <3>5. q \in 0 .. (TextEnd - Width - 1) /\ q \in Cells
      BY <1>8, <3>3, <3>4, SMT DEF Cells
    <3>6. u.cell[q] = v.cell[q + Width]
      BY <1>14, <3>5 DEF Scrolled
    <3> QED BY <3>2, <3>3, <3>4, <3>6
  <2> QED BY <1>3, <2>1, <2>2 DEF Echo
<1>15. \/ u.cell = v.cell /\ u.line_adr = v.line_adr
       \/ /\ v.line_adr = v.next_line_adrs
          /\ u.cell = Scrolled(v.cell) /\ u.line_adr = v.next_line_adrs - Width
  <2>1. CASE v.line_adr # v.next_line_adrs
    BY <1>12, <2>1 DEF check_if_line_full
  <2>2. CASE v.line_adr = v.next_line_adrs /\ v.v_line_count < Rows
    <3>1. u = [v EXCEPT !.v_line_count = @ + 1, !.next_line_adrs = @ + Width]
      BY <1>12, <2>2 DEF check_if_line_full
    <3> QED BY <1>6, <3>1
  <2>3. CASE v.line_adr = v.next_line_adrs /\ ~(v.v_line_count < Rows)
    <3>1. u = [v EXCEPT !.cell = Scrolled(@), !.line_adr = v.next_line_adrs - Width]
      BY <1>12, <2>3 DEF check_if_line_full
    <3> QED BY <1>6, <2>3, <3>1
  <2> QED BY <2>1, <2>2, <2>3
<1> QED BY <1>13, <1>14, <1>15

\* ... and one that is taken back.
LEMMA StepBackEcho ==
    ASSUME NEW s, NEW r \in Int, InRow(s, r), NEW u, u = StepBack(s),
           NEW line \in Seq(Byte), NEW c \in Byte, NEW more, more = Append(line, c), Echo(s, more)
    PROVE  Echo(u, line)
<1>1. PICK l : l = Len(line)
  OBVIOUS
<1>2. l \in Nat /\ DOMAIN line = 1 .. l
  BY <1>1, LenProperties
<1>3. /\ Len(more) = l + 1 /\ DOMAIN more = 1 .. l + 1
      /\ \A k \in 1 .. l : more[k] = line[k]
  <2>1. /\ more \in Seq(Byte) /\ Len(more) = l + 1
        /\ \A k \in 1 .. l : more[k] = line[k]
    BY <1>1, AppendProperties
  <2> QED BY <2>1, LenProperties
<1>4. s = [cell |-> s.cell, line_adr |-> s.line_adr, next_line_adrs |-> s.next_line_adrs,
            v_line_count |-> s.v_line_count] /\ s.cell = [p \in Cells |-> s.cell[p]]
      /\ s.line_adr \in Int
  BY DEF InRow, OnRow
<1>5. u.cell = [s.cell EXCEPT ![s.line_adr - 1] = Blank] /\ u.line_adr = s.line_adr - 1
  BY <1>4 DEF StepBack
<1>6. PICK d : d = s.line_adr
  OBVIOUS
<1>7. ASSUME NEW k \in 1 .. l, (d - 1) - l + k - 1 >= 0
      PROVE  u.cell[(d - 1) - l + k - 1] = line[k]
  <2>1. PICK p : p = (d - 1) - l + k - 1
    OBVIOUS
  <2>2. k \in 1 .. l + 1 /\ d - (l + 1) + k - 1 = p /\ p # d - 1 /\ p >= 0
    BY <1>2, <1>4, <1>6, <1>7, <2>1, SMT
  <2>3. s.cell[p] = more[k]
    BY <1>3, <1>6, <2>2 DEF Echo
  <2>4. u.cell[p] = s.cell[p]
    BY <1>4, <1>5, <1>6, <2>2
  <2> QED BY <1>3, <2>1, <2>3, <2>4
<1> QED BY <1>1, <1>2, <1>5, <1>6, <1>7 DEF Echo

\* The echo of a key, of a backspace and of what leaves line and screen alone.
EchoInv == TerminalInv /\ EchoIsLine

\* A key that is stored is shown behind the line, ...
LEMMA TypedEcho ==
    ASSUME FirstUse, EchoInv, NEW c \in Char \cup {Newline}, Typed(c)
    PROVE  EchoIsLine'
<1>1. PICK s : s = input
  OBVIOUS
<1>2. PICK u : u = writeChar(s, c)
  OBVIOUS
<1>3. PICK n : n = typed
  OBVIOUS
<1>4. n \in Nat /\ n < TypedLimit /\ n <= TypedLimit /\ FirstInv(s, n)
  BY <1>1, <1>3, TerminalTypes DEF EchoInv, Typed
<1>5. input' = u /\ Warnings(u) = <<>>
  BY <1>1, <1>2, <1>4, WriteFirst DEF Typed
<1>6. EchoIsLine' <=> (~interrupted' => Echo(screen', LineTyped(u)))
  <2>1. EchoIsLine' <=> (~interrupted' => Echo(screen', LineTyped(input')))
    BY DEF EchoIsLine, Echo
  <2> QED BY <1>5, <2>1
<1>7. CASE c = Newline
  <2>1. LineTyped(u) = <<>>
    BY <1>2, <1>4, <1>7, EnterLine
  <2>2. Echo(screen', <<>>)
    <3>1. DOMAIN <<>> = {}
      OBVIOUS
    <3> QED BY <3>1 DEF Echo
  <2> QED BY <1>6, <2>1, <2>2
<1>8. CASE c # Newline
  <2>1. c \in Char /\ c \in Byte
    BY <1>8 DEF Byte
  <2>2. PICK line : line = LineTyped(s)
    OBVIOUS
  <2>3. PICK more : more = Append(line, c)
    OBVIOUS
  <2>4. LineTyped(u) = more /\ line \in Seq(Byte)
    BY <1>2, <1>4, <2>1, <2>2, <2>3, TypeLine, LinesType
  <2>5. more # <<>>
    BY <2>1, <2>3, <2>4, AppendProperties
  <2>6. PICK key : key = <<c>>
    OBVIOUS
  <2>7. key \in Seq(Byte) /\ Len(key) = 1
    BY <2>1, <2>6
  <2>8. <<>> \o key = key /\ key \o <<>> = key
    BY <2>7, ConcatEmptySeq
  <2>9. /\ screen' = kprintf(screen, key)
        /\ interrupted' = (more # <<>> /\ (interrupted \/ 1 > 1))
    <3>1. PICK text : text = IF c \in {Newline, Space} THEN Warnings(u) \o <<c>>
                             ELSE <<c>> \o Warnings(u)
      OBVIOUS
    <3>2. text = key
      BY <1>5, <2>6, <2>8, <3>1
    <3>3. /\ screen' = kprintf(screen, text)
          /\ interrupted' = (LineTyped(u) # <<>> /\ (interrupted \/ Len(text) > 1))
      BY <1>1, <1>2, <3>1 DEF Typed
    <3> QED BY <2>4, <2>7, <3>2, <3>3
  <2>10. ~interrupted' => ~interrupted
    BY <2>5, <2>9
  <2>11. screen' = Put(screen, c)
    <3>1. c # Newline /\ c # Return /\ c # Backspace
      BY <2>1, InputAssumption
         DEF Char, Key, CtrlKey, Space, Blank, Nul, Newline, Return, Backspace
    <3>2. kprintf(screen, <<c>>) = Format(screen, c)
      BY OneShown
    <3> QED BY <2>6, <2>9, <3>1, <3>2 DEF Format
  <2>12. PICK r \in Int : InRow(screen, r)
    BY DEF EchoInv, TerminalInv, DevicesInv, RowInv
  <2>13. ASSUME ~interrupted' PROVE Echo(screen', more)
    <3>1. Echo(screen, line)
      BY <1>1, <2>2, <2>10, <2>13, EchoEquals DEF EchoInv
    <3>2. PICK scr : scr = screen
      OBVIOUS
    <3>3. PICK new : new = Put(scr, c)
      OBVIOUS
    <3>4. Echo(new, more)
      BY <2>1, <2>3, <2>4, <2>12, <3>1, <3>2, <3>3, PutEcho
    <3> QED BY <2>11, <3>2, <3>3, <3>4
  <2> QED BY <1>6, <2>4, <2>13
<1> QED BY <1>7, <1>8

\* ... a backspace takes the last character from both, ...
LEMMA EraseEcho ==
    ASSUME EchoInv, Erase
    PROVE  EchoIsLine'
<1>1. PICK s : s = input
  OBVIOUS
<1>2. PICK u : u = handleBackspace(s)
  OBVIOUS
<1>3. PICK n : n = typed
  OBVIOUS
<1>4. n \in Nat /\ n <= TypedLimit /\ FirstInv(s, n)
  BY <1>1, <1>3, TerminalTypes DEF EchoInv
<1>5. /\ input' = u /\ interrupted' = (LineTyped(u) # <<>> /\ interrupted)
      /\ screen' = IF u.writePosition = s.writePosition THEN screen
                   ELSE kprintf(screen, <<Backspace>>)
  BY <1>1, <1>2 DEF Erase
<1>6. EchoIsLine' <=> (~interrupted' => Echo(screen', LineTyped(u)))
  <2>1. EchoIsLine' <=> (~interrupted' => Echo(screen', LineTyped(input')))
    BY DEF EchoIsLine, Echo
  <2> QED BY <1>5, <2>1
<1>7. CASE LineTyped(u) = <<>>
  <2>1. DOMAIN <<>> = {}
    OBVIOUS
  <2> QED BY <1>6, <1>7, <2>1 DEF Echo
<1>8. CASE interrupted /\ LineTyped(u) # <<>>
  BY <1>5, <1>6, <1>8
<1>9. CASE ~interrupted
  <2>1. Echo(screen, LineTyped(s))
    BY <1>1, <1>9, EchoEquals DEF EchoInv
  <2>2. IF u.writePosition = s.writePosition THEN LineTyped(u) = LineTyped(s)
        ELSE \E c \in Byte : LineTyped(s) = Append(LineTyped(u), c)
    BY <1>2, <1>4, EraseLine
  <2>3. CASE u.writePosition = s.writePosition
    BY <1>5, <1>6, <2>1, <2>2, <2>3
  <2>4. CASE u.writePosition # s.writePosition
    <3>1. PICK c \in Byte : LineTyped(s) = Append(LineTyped(u), c)
      BY <2>2, <2>4
    <3>2. PICK line : line = LineTyped(u)
      OBVIOUS
    <3>3. PICK more : more = Append(line, c)
      OBVIOUS
    <3>4. line \in Seq(Byte)
      <4>1. FirstInv(u, n)
        BY <1>2, <1>4, BackFirst
      <4> QED BY <1>4, <3>2, <4>1, LinesType
    <3>5. PICK scr : scr = screen
      OBVIOUS
    <3>6. PICK new : new = StepBack(scr)
      OBVIOUS
    <3>7. screen' = new
      <4>1. kprintf(screen, <<Backspace>>) = Format(screen, Backspace)
        BY OneShown
      <4>2. Format(screen, Backspace) = StepBack(screen)
        BY DEF Format, Backspace, Newline, Return
      <4> QED BY <1>5, <2>4, <3>5, <3>6, <4>1, <4>2
    <3>8. PICK r \in Int : InRow(scr, r)
      BY <3>5 DEF EchoInv, TerminalInv, DevicesInv, RowInv
    <3>9. Echo(scr, more)
      BY <2>1, <3>1, <3>2, <3>3, <3>5
    <3>10. Echo(new, line)
      BY <3>3, <3>4, <3>6, <3>8, <3>9, StepBackEcho
    <3> QED BY <1>6, <3>2, <3>7, <3>10
  <2> QED BY <2>3, <2>4
<1> QED BY <1>7, <1>8, <1>9

\* ... and reading changes neither the screen nor the line that is typed.
LEMMA GetcharEcho ==
    ASSUME FirstUse, EchoInv, getchar
    PROVE  EchoIsLine'
<1>1. PICK s : s = input
  OBVIOUS
<1>2. PICK u : u = readChar(s)
  OBVIOUS
<1>3. PICK n : n = typed
  OBVIOUS
<1>4. n \in Nat /\ n <= TypedLimit /\ FirstInv(s, n)
  BY <1>1, <1>3, TerminalTypes DEF EchoInv
<1>5. input' = u /\ screen' = screen /\ interrupted' = interrupted
  BY <1>1, <1>2 DEF getchar, screenVars
<1>6. LineTyped(u) = LineTyped(s)
  <2>1. CASE ~Readable(s)
    BY <1>2, <2>1 DEF readChar
  <2>2. CASE Readable(s) /\ NextChar(s) = Newline
    BY <1>2, <1>4, <2>2, ReadEnd
  <2>3. CASE Readable(s) /\ NextChar(s) # Newline
    BY <1>2, <1>4, <2>3, ReadMore
  <2> QED BY <2>1, <2>2, <2>3
<1>7. EchoIsLine' <=> (~interrupted' => Echo(screen', LineTyped(input')))
  BY DEF EchoIsLine, Echo
<1> QED BY <1>1, <1>5, <1>6, <1>7, EchoEquals DEF EchoInv

\* Each step keeps the echo.
LEMMA EchoStep ==
    ASSUME FirstUse, EchoInv, [Next]_vars
    PROVE  EchoInv'
<1>1. TerminalInv'
  BY TerminalStep DEF EchoInv
<1>2. ASSUME UNCHANGED <<input, screen, interrupted>> PROVE EchoIsLine'
  BY <1>2 DEF EchoInv, EchoIsLine
<1>3. ASSUME NEW c \in Char \cup {Newline}, Typed(c) PROVE EchoIsLine'
  BY <1>3, TypedEcho
<1>4. ASSUME Erase PROVE EchoIsLine'
  BY <1>4, EraseEcho
<1>5. ASSUME getchar PROVE EchoIsLine'
  BY <1>5, GetcharEcho
<1>6. ASSUME NEW text \in Output, writeFile(text) PROVE EchoIsLine'
  <2>1. input' = input /\ interrupted' = (LineTyped(input) # <<>>)
    BY <1>6 DEF writeFile
  <2>2. EchoIsLine' <=> (~interrupted' => Echo(screen', LineTyped(input')))
    BY DEF EchoIsLine, Echo
  <2>3. Echo(screen', <<>>)
    <3>1. DOMAIN <<>> = {}
      OBVIOUS
    <3> QED BY <3>1 DEF Echo
  <2> QED BY <2>1, <2>2, <2>3
<1>7. ASSUME NEW k \in Modifier, ModifierDown(k) \/ ModifierUp(k)
      PROVE  EchoIsLine'
  BY <1>2, <1>7 DEF ModifierDown, ModifierUp, screenVars
<1>8. ASSUME UNCHANGED vars PROVE EchoIsLine'
  BY <1>2, <1>8 DEF vars, screenVars
<1>9. ASSUME NEW c \in {Newline, Space}, KeyText(c) PROVE EchoIsLine'
  <2>1. c \in Char \cup {Newline} /\ Typed(c)
    BY <1>9 DEF KeyText, Char
  <2> QED BY <1>3, <2>1
<1>10. ASSUME NEW c \in Key, KeyDefault(c) PROVE EchoIsLine'
  <2>1. c \in Char \cup {Newline}
    BY DEF Char
  <2>2. Typed(c) \/ Erase \/ UNCHANGED vars
    BY <1>10 DEF KeyDefault
  <2> QED BY <1>3, <1>4, <1>8, <2>1, <2>2
<1>11. EchoIsLine'
  BY <1>4, <1>5, <1>6, <1>7, <1>8, <1>9, <1>10 DEF Next
<1> QED BY <1>1, <1>11 DEF EchoInv

\* Until the buffer is used for the second time: over the ends of rows, scrolling and
\* backspaces that go back over both, what is left of the cursor is the line that Enter
\* will give to the shell, unless something else was printed meanwhile.
THEOREM EchoStays == FirstUse => (Spec => []EchoIsLine)
<1> SUFFICES ASSUME FirstUse PROVE Spec => []EchoIsLine
  OBVIOUS
<1>1. Init => EchoInv
  <2> SUFFICES ASSUME Init PROVE EchoInv
    OBVIOUS
  <2>1. TerminalInv /\ LineTyped(input) = <<>>
    BY TerminalInit DEF Lines!Init
  <2>2. DOMAIN <<>> = {}
    OBVIOUS
  <2> QED BY <2>1, <2>2, EchoEquals DEF EchoInv, Echo
<1>2. EchoInv /\ [Next]_vars => EchoInv'
  BY EchoStep
<1>3. EchoInv => EchoIsLine
  BY DEF EchoInv
<1> QED BY <1>1, <1>2, <1>3, PTL DEF Spec

-------------------------------------------------------------------------------
(* The screen is the end of a roll of paper. *)

\* The cells between two addresses, the first rows, and the sheet of paper that a
\* screen with its cursor in row r stands for.
Cut(cell, from, to) == [k \in 1 .. (to - from) |-> cell[from + k - 1]]
Rolled(cell, r) == [n \in 1 .. r |-> Cut(cell, Width * (n - 1), Width * n)]
SheetAt(s, r) ==
    [above |-> Rolled(s.cell, r), line |-> Cut(s.cell, Width * r, s.line_adr),
     lost |-> s.v_line_count - (r + 1)]

\* A function on 1 .. L is a sequence.
LEMMA ListIs ==
    ASSUME NEW f, NEW L \in Nat, f = [n \in 1 .. L |-> f[n]]
    PROVE  /\ f \in Seq({f[n] : n \in 1 .. L}) /\ Len(f) = L
           /\ DOMAIN f = 1 .. L
<1> DEFINE S == {f[n] : n \in 1 .. L}
<1>1. f \in [1 .. L -> S]
  OBVIOUS
<1>2. f \in Seq(S)
  BY <1>1, IsASeq
<1>3. DOMAIN f = 1 .. L
  BY <1>1
<1>4. Len(f) \in Nat /\ DOMAIN f = 1 .. Len(f)
  BY <1>2, LenProperties
<1>5. Len(f) = L
  BY <1>3, <1>4, SMT
<1> QED BY <1>2, <1>3, <1>5

\* A list with an element appended, ...
LEMMA ListAppended ==
    ASSUME NEW f, NEW L \in Nat, f = [n \in 1 .. L |-> f[n]], NEW x
    PROVE  Append(f, x) = [n \in 1 .. L + 1 |-> IF n = L + 1 THEN x ELSE f[n]]
<1> DEFINE S == {f[n] : n \in 1 .. L} \cup {x}
<1>1. f \in Seq({f[n] : n \in 1 .. L}) /\ Len(f) = L
  BY ListIs
<1>2. f \in Seq(S) /\ x \in S
  BY <1>1, SeqMonotonic, SMT
<1>3. /\ Append(f, x) \in Seq(S) /\ Len(Append(f, x)) = L + 1
      /\ \A n \in 1 .. L : Append(f, x)[n] = f[n]
      /\ Append(f, x)[L + 1] = x
  BY <1>1, <1>2, AppendProperties
<1>4. DOMAIN Append(f, x) = 1 .. L + 1 /\ Append(f, x) = [n \in 1 .. L + 1 |-> Append(f, x)[n]]
  BY <1>3, LenProperties
<1>5. \A n \in 1 .. L + 1 : n # L + 1 => n \in 1 .. L
  BY SMT
<1> QED BY <1>3, <1>4, <1>5

\* ... without its first element, ...
LEMMA ListTail ==
    ASSUME NEW f, NEW L \in Nat \ {0}, f = [n \in 1 .. L |-> f[n]]
    PROVE  Tail(f) = [n \in 1 .. L - 1 |-> f[n + 1]]
<1> DEFINE S == {f[n] : n \in 1 .. L}
<1>1. f \in Seq(S) /\ Len(f) = L
  BY ListIs
<1>2. f # <<>>
  BY <1>1, EmptySeq, SMT
<1>3. /\ Tail(f) \in Seq(S) /\ Len(Tail(f)) = L - 1
      /\ \A n \in 1 .. L - 1 : Tail(f)[n] = f[n + 1]
  BY <1>1, <1>2, HeadTailProperties
<1>4. Tail(f) = [n \in 1 .. L - 1 |-> Tail(f)[n]]
  BY <1>3, LenProperties
<1> QED BY <1>3, <1>4

\* ... without its last one, ...
LEMMA ListFront ==
    ASSUME NEW f, NEW L \in Nat \ {0}, f = [n \in 1 .. L |-> f[n]]
    PROVE  Roll!Front(f) = [n \in 1 .. L - 1 |-> f[n]] /\ Roll!Last(f) = f[L]
<1> DEFINE S == {f[n] : n \in 1 .. L}
<1>1. f \in Seq(S) /\ Len(f) = L
  BY ListIs
<1>2. /\ L - 1 \in Nat /\ 1 \in 1 .. L + 1 /\ L - 1 \in 1 - 1 .. L
  BY SMT
<1>3. Roll!Front(f) = SubSeq(f, 1, L - 1)
  BY <1>1 DEF Roll!Front
<1>4. /\ Len(SubSeq(f, 1, L - 1)) = L - 1 /\ SubSeq(f, 1, L - 1) \in Seq(S)
      /\ \A n \in 1 .. L - 1 : SubSeq(f, 1, L - 1)[n] = f[n]
  BY <1>1, <1>2, SubSeqProperties, SMT
<1>5. SubSeq(f, 1, L - 1) = [n \in 1 .. L - 1 |-> SubSeq(f, 1, L - 1)[n]]
  BY <1>4, LenProperties
<1> QED BY <1>1, <1>3, <1>4, <1>5 DEF Roll!Last

\* ... and with a list behind it.
LEMMA ListConcat ==
    ASSUME NEW f, NEW L \in Nat, f = [n \in 1 .. L |-> f[n]],
           NEW g, NEW M \in Nat, g = [n \in 1 .. M |-> g[n]]
    PROVE  f \o g = [n \in 1 .. L + M |-> IF n <= L THEN f[n] ELSE g[n - L]]
<1> DEFINE S == {f[n] : n \in 1 .. L} \cup {g[n] : n \in 1 .. M}
<1>1. /\ f \in Seq({f[n] : n \in 1 .. L}) /\ Len(f) = L
      /\ g \in Seq({g[n] : n \in 1 .. M}) /\ Len(g) = M
  BY ListIs
<1>2. f \in Seq(S) /\ g \in Seq(S)
  BY <1>1, SeqMonotonic, SMT
<1>3. /\ f \o g \in Seq(S) /\ Len(f \o g) = L + M
      /\ \A n \in 1 .. L + M : (f \o g)[n] = IF n <= L THEN f[n] ELSE g[n - L]
  BY <1>1, <1>2, ConcatProperties
<1>4. f \o g = [n \in 1 .. L + M |-> (f \o g)[n]]
  BY <1>3, LenProperties
<1> QED BY <1>3, <1>4

\* The cells between two addresses are a list, ...
LEMMA CutIs ==
    ASSUME NEW cell, NEW from \in Int, NEW to \in Int, from <= to
    PROVE  /\ to - from \in Nat
           /\ Cut(cell, from, to) = [k \in 1 .. (to - from) |-> Cut(cell, from, to)[k]]
           /\ \A k \in 1 .. (to - from) : Cut(cell, from, to)[k] = cell[from + k - 1]
           /\ Len(Cut(cell, from, to)) = to - from
<1>1. to - from \in Nat
  BY SMT
<1>2. Cut(cell, from, to) = [k \in 1 .. (to - from) |-> Cut(cell, from, to)[k]]
  BY DEF Cut
<1>3. Len(Cut(cell, from, to)) = to - from
  BY <1>1, <1>2, ListIs
<1> QED BY <1>1, <1>2, <1>3 DEF Cut

\* ... and so are the rows.
LEMMA RolledIs ==
    ASSUME NEW cell, NEW r \in Nat
    PROVE  /\ Rolled(cell, r) = [n \in 1 .. r |-> Rolled(cell, r)[n]]
           /\ \A n \in 1 .. r : Rolled(cell, r)[n] = Cut(cell, Width * (n - 1), Width * n)
           /\ Len(Rolled(cell, r)) = r
<1>1. Rolled(cell, r) = [n \in 1 .. r |-> Rolled(cell, r)[n]]
  BY DEF Rolled
<1> QED BY <1>1, ListIs DEF Rolled

\* Where a row starts and ends.
LEMMA RowBounds ==
    ASSUME NEW n \in Int
    PROVE  /\ Width \in Nat \ {0} /\ Width * (n - 1) \in Int /\ Width * n \in Int
           /\ Width * n = Width * (n - 1) + Width /\ Width * (n + 1) = Width * n + Width
           /\ Width * n - Width * (n - 1) = Width
           /\ n >= 0 => Width * n >= 0
<1>1. n - 1 \in Int /\ (n - 1) + 1 = n /\ Width \in Nat \ {0}
  BY ConsoleAssumption, SMT
<1>2. Width * (n - 1) \in Int /\ Width * n = Width * (n - 1) + Width
  BY <1>1, RowsGrow
<1>3. Width * n \in Int /\ Width * (n + 1) = Width * n + Width
  BY RowsGrow
<1>4. n >= 0 => Width * n >= 0
  BY <1>1, SMT
<1> QED BY <1>1, <1>2, <1>3, <1>4, SMT

\* Rows change only with their cells.
LEMMA SameRows ==
    ASSUME NEW f, NEW g, NEW r \in Nat,
           \A p \in Int : 0 <= p /\ p < Width * r => f[p] = g[p]
    PROVE  Rolled(f, r) = Rolled(g, r)
<1>1. ASSUME NEW n \in 1 .. r
      PROVE  Cut(f, Width * (n - 1), Width * n) = Cut(g, Width * (n - 1), Width * n)
  <2>1. n \in Int /\ n - 1 >= 0 /\ n <= r /\ n - 1 \in Int /\ r \in Int
    BY SMT
  <2>2. /\ Width * (n - 1) \in Int /\ Width * n = Width * (n - 1) + Width
        /\ Width * n - Width * (n - 1) = Width /\ Width * n \in Int
    BY <2>1, RowBounds
  <2>3. Width * n <= Width * r /\ Width * (n - 1) >= 0 /\ Width * r \in Int
    BY <2>1, RowsGrow, RowBounds
  <2>4. ASSUME NEW k \in 1 .. (Width * n - Width * (n - 1))
        PROVE  f[Width * (n - 1) + k - 1] = g[Width * (n - 1) + k - 1]
    <3>1. PICK a \in Int, b \in Int, c \in Int : a = Width * (n - 1) /\ b = Width * n /\ c = Width * r
      BY <2>2, <2>3
    <3>2. b <= c /\ a >= 0 /\ k \in 1 .. (b - a)
      BY <2>3, <2>4, <3>1
    <3>3. a + k - 1 \in Int /\ 0 <= a + k - 1 /\ a + k - 1 < c
      BY <3>2, SMT
    <3> QED BY <3>1, <3>3
  <2> QED BY <2>4 DEF Cut
<1> QED BY <1>1 DEF Rolled

\* One row more is one more line.
LEMMA RowMore ==
    ASSUME NEW cell, NEW r \in Nat
    PROVE  Append(Rolled(cell, r), Cut(cell, Width * r, Width * (r + 1))) = Rolled(cell, r + 1)
<1> DEFINE last == Cut(cell, Width * r, Width * (r + 1))
           A == Rolled(cell, r)
           B == Rolled(cell, r + 1)
<1>1. Append(A, last) = [n \in 1 .. r + 1 |-> IF n = r + 1 THEN last ELSE A[n]]
  <2>1. A = [n \in 1 .. r |-> A[n]]
    BY RolledIs
  <2> HIDE DEF A, last
  <2> QED BY <2>1, ListAppended
<1>2. ASSUME NEW n \in 1 .. r + 1 PROVE B[n] = IF n = r + 1 THEN last ELSE A[n]
  <2>1. B[n] = Cut(cell, Width * (n - 1), Width * n)
    BY DEF Rolled
  <2>2. CASE n = r + 1
    <3>1. n - 1 = r
      BY <2>2, SMT
    <3> QED BY <2>1, <2>2, <3>1
  <2>3. CASE n # r + 1
    <3>1. n \in 1 .. r
      BY <2>3, SMT
    <3> QED BY <2>1, <2>3, <3>1 DEF Rolled
  <2> QED BY <2>2, <2>3
<1>3. B = [n \in 1 .. r + 1 |-> B[n]]
  BY DEF Rolled
<1> QED BY <1>1, <1>2, <1>3

\* One row less is one line less.
LEMMA RowLess ==
    ASSUME NEW cell, NEW r \in Nat \ {0}
    PROVE  /\ Roll!Front(Rolled(cell, r)) = Rolled(cell, r - 1)
           /\ Roll!Last(Rolled(cell, r)) = Cut(cell, Width * (r - 1), Width * r)
<1> DEFINE A == Rolled(cell, r)
           B == Rolled(cell, r - 1)
<1>1. Roll!Front(A) = [n \in 1 .. r - 1 |-> A[n]] /\ Roll!Last(A) = A[r]
  BY RolledIs, ListFront
<1>2. r \in 1 .. r /\ \A n \in 1 .. r - 1 : n \in 1 .. r
  BY SMT
<1>3. \A n \in 1 .. r - 1 : A[n] = B[n]
  BY <1>2 DEF Rolled
<1>4. B = [n \in 1 .. r - 1 |-> B[n]]
  BY DEF Rolled
<1> QED BY <1>1, <1>2, <1>3, <1>4 DEF Rolled

\* The rows of a screen that has scrolled are the rows without the first one.
LEMMA RowsScrolled ==
    ASSUME NEW cell, NEW r \in Nat, r < Rows
    PROVE  Rolled(Scrolled(cell), r) = Tail(Rolled(cell, r + 1))
<1> DEFINE A == Rolled(cell, r + 1)
           B == Rolled(Scrolled(cell), r)
<1>1. Tail(A) = [n \in 1 .. r |-> A[n + 1]]
  <2>1. r + 1 \in Nat \ {0} /\ (r + 1) - 1 = r
    BY SMT
  <2>2. A = [n \in 1 .. r + 1 |-> A[n]]
    BY DEF Rolled
  <2> HIDE DEF A
  <2> QED BY <2>1, <2>2, ListTail
<1>2. ASSUME NEW n \in 1 .. r PROVE B[n] = A[n + 1]
  <2>1. /\ n \in Int /\ n + 1 \in 1 .. r + 1 /\ (n + 1) - 1 = n /\ n - 1 >= 0 /\ n - 1 \in Int
        /\ n + 1 \in Int /\ n + 1 <= Rows /\ Rows \in Nat
    BY ConsoleAssumption, SMT
  <2>2. /\ Width \in Nat \ {0} /\ Width * (n - 1) \in Int /\ Width * n \in Int
        /\ Width * n = Width * (n - 1) + Width /\ Width * (n + 1) = Width * n + Width
    BY <2>1, RowBounds
  <2>3. Width * (n - 1) >= 0 /\ Width * (n + 1) <= TextEnd /\ TextEnd \in Int
    BY <2>1, RowBounds, RowsGrow DEF TextEnd
  <2>4. ASSUME NEW k \in 1 .. (Width * n - Width * (n - 1))
        PROVE  Scrolled(cell)[Width * (n - 1) + k - 1] = cell[Width * n + k - 1]
    <3>1. /\ Width * (n - 1) + k - 1 \in 0 .. (TextEnd - Width - 1)
          /\ Width * (n - 1) + k - 1 + Width = Width * n + k - 1
      BY <2>2, <2>3, SMT
    <3>2. Width * (n - 1) + k - 1 \in Cells
      BY <2>2, <2>3, <3>1, ConsoleAssumption, SMT DEF Cells
    <3> QED BY <3>1, <3>2 DEF Scrolled
  <2>5. Width * (n + 1) - Width * n = Width * n - Width * (n - 1)
    BY <2>2, SMT
  <2>6. Cut(Scrolled(cell), Width * (n - 1), Width * n) = Cut(cell, Width * n, Width * (n + 1))
    BY <2>4, <2>5 DEF Cut
  <2> QED BY <2>1, <2>6 DEF Rolled
<1>3. B = [n \in 1 .. r |-> B[n]]
  BY DEF Rolled
<1> QED BY <1>1, <1>2, <1>3

-------------------------------------------------------------------------------
\* The fields of a sheet.
LEMMA SheetFields ==
    ASSUME NEW s, NEW r
    PROVE  /\ SheetAt(s, r).above = Rolled(s.cell, r)
           /\ SheetAt(s, r).line = Cut(s.cell, Width * r, s.line_adr)
           /\ SheetAt(s, r).lost = s.v_line_count - (r + 1)
  BY DEF SheetAt

\* The end of a line on the fields of a sheet, ...
LEMMA EndOfLineIs ==
    ASSUME NEW a, NEW l, NEW d, NEW last
    PROVE  Roll!EndOfLine([above |-> a, line |-> l, lost |-> d], last)
             = [above |-> IF Len(Append(a, last)) + d < Rows THEN Append(a, last)
                          ELSE Tail(Append(a, last)),
                line |-> <<>>, lost |-> d]
<1>1. PICK sheet : sheet = [above |-> a, line |-> l, lost |-> d]
  OBVIOUS
<1>2. /\ sheet.above = a /\ sheet.line = l /\ sheet.lost = d
      /\ sheet = [above |-> sheet.above, line |-> sheet.line, lost |-> sheet.lost]
  BY <1>1
<1>3. PICK all : all = Append(a, last)
  OBVIOUS
<1>4. PICK new : new = IF Len(all) + d < Rows THEN all ELSE Tail(all)
  OBVIOUS
<1>5. PICK ended : ended = Roll!EndOfLine(sheet, last)
  OBVIOUS
<1>6. ended = [sheet EXCEPT !.above = new, !.line = <<>>]
  BY <1>2, <1>3, <1>4, <1>5 DEF Roll!EndOfLine
<1>7. ended = [above |-> new, line |-> <<>>, lost |-> sheet.lost]
  BY <1>2, <1>6
<1> QED BY <1>1, <1>2, <1>3, <1>4, <1>5, <1>7

\* ... and a change of its line.
LEMMA LineIs ==
    ASSUME NEW a, NEW l, NEW d, NEW new
    PROVE  [[above |-> a, line |-> l, lost |-> d] EXCEPT !.line = new]
             = [above |-> a, line |-> new, lost |-> d]
  OBVIOUS

\* At the end of a row the line goes above, and the first one is gone when the count of
\* rows is used up.
LEMMA CheckedSheet ==
    ASSUME NEW s, NEW r \in Nat, OnRow(s, r), s.line_adr = s.next_line_adrs, NEW sheet,
           sheet = [above |-> Rolled(s.cell, r), line |-> sheet.line,
                    lost |-> s.v_line_count - (r + 1)]
    PROVE  \E q \in Nat : /\ InRow(check_if_line_full(s), q)
                          /\ SheetAt(check_if_line_full(s), q)
                                = Roll!EndOfLine(sheet, Cut(s.cell, Width * r, Width * (r + 1)))
<1> DEFINE last == Cut(s.cell, Width * r, Width * (r + 1))
           c == check_if_line_full(s)
           all == Append(sheet.above, last)
<1>1. /\ s = [cell |-> s.cell, line_adr |-> s.line_adr, next_line_adrs |-> s.next_line_adrs,
              v_line_count |-> s.v_line_count]
      /\ s.next_line_adrs = Width * (r + 1) /\ s.v_line_count \in 1 .. Rows /\ r < s.v_line_count
  BY DEF OnRow
<1>2. all = Rolled(s.cell, r + 1) /\ Len(all) = r + 1
  <2>1. sheet.above = Rolled(s.cell, r)
    OBVIOUS
  <2>2. all = Rolled(s.cell, r + 1)
    BY <2>1, RowMore
  <2>3. r + 1 \in Nat
    BY SMT
  <2> QED BY <2>2, <2>3, RolledIs
<1>3. Len(all) + sheet.lost = s.v_line_count
  <2>1. sheet.lost = s.v_line_count - (r + 1) /\ s.v_line_count \in Int
    BY <1>1, SMT
  <2> QED BY <1>2, <2>1, SMT
<1>4. Roll!EndOfLine(sheet, last)
        = [above |-> IF s.v_line_count < Rows THEN all ELSE Tail(all), line |-> <<>>,
           lost |-> s.v_line_count - (r + 1)]
  <2>1. PICK a, l, d : sheet = [above |-> a, line |-> l, lost |-> d]
    OBVIOUS
  <2>2. sheet.above = a /\ sheet.lost = d /\ d = s.v_line_count - (r + 1)
    BY <2>1
  <2> QED BY <1>3, <2>1, <2>2, EndOfLineIs
<1>5. /\ Width * r \in Int /\ Width * (r + 1) \in Int /\ Width \in Nat \ {0}
      /\ Width * (r + 1) = Width * r + Width /\ Width * ((r + 1) + 1) = Width * (r + 1) + Width
      /\ r + 1 \in Nat /\ r \in Int
  <2>1. r \in Int /\ r + 1 \in Int /\ r + 1 \in Nat
    BY SMT
  <2> QED BY <2>1, RowBounds
<1>6. \A a \in Int : \A cell : Cut(cell, a, a) = <<>>
  <2>1. ASSUME NEW a \in Int, NEW cell PROVE Cut(cell, a, a) = <<>>
    <3>1. a - a = 0 /\ 1 .. 0 = {}
      BY SMT
    <3> QED BY <3>1 DEF Cut
  <2> QED BY <2>1
<1>7. CASE s.v_line_count < Rows
  <2>1. c = [s EXCEPT !.v_line_count = @ + 1, !.next_line_adrs = @ + Width]
    BY <1>7 DEF check_if_line_full
  <2>2. c = [cell |-> s.cell, line_adr |-> s.line_adr, next_line_adrs |-> s.next_line_adrs + Width,
             v_line_count |-> s.v_line_count + 1]
    BY <1>1, <2>1
  <2>3. InRow(c, r + 1)
    <3> HIDE DEF c
    <3>1. /\ c.cell = s.cell /\ c.line_adr = s.next_line_adrs
          /\ c.next_line_adrs = s.next_line_adrs + Width /\ c.v_line_count = s.v_line_count + 1
          /\ c = [cell |-> c.cell, line_adr |-> c.line_adr, next_line_adrs |-> c.next_line_adrs,
                  v_line_count |-> c.v_line_count]
      BY <1>1, <2>2
    <3>2. PICK a \in Int, b \in Int : a = Width * (r + 1) /\ b = Width * ((r + 1) + 1)
      BY <1>5, SMT
    <3>3. b = a + Width /\ s.next_line_adrs = a
      BY <1>1, <1>5, <3>2
    <3>4. /\ c.line_adr \in Int /\ a <= c.line_adr /\ c.line_adr <= c.next_line_adrs
          /\ c.line_adr < c.next_line_adrs /\ c.next_line_adrs = b
          /\ c.v_line_count \in 1 .. Rows /\ r + 1 < c.v_line_count
      <4> HIDE <2>2
      <4> QED BY <1>1, <1>5, <1>7, <3>1, <3>3, ConsoleAssumption, SMT
    <3>5. c.cell = [p \in Cells |-> c.cell[p]] /\ \A p \in Cells : p >= TextEnd => c.cell[p] = Bar
      BY <3>1 DEF OnRow
    <3> QED BY <3>1, <3>2, <3>4, <3>5 DEF OnRow, InRow
  <2>4. SheetAt(c, r + 1) = [above |-> Rolled(s.cell, r + 1), line |-> <<>>,
                             lost |-> (s.v_line_count + 1) - ((r + 1) + 1)]
    BY <1>1, <1>5, <1>6, <2>2 DEF SheetAt
  <2>5. (s.v_line_count + 1) - ((r + 1) + 1) = s.v_line_count - (r + 1)
    BY <1>1, SMT
  <2> QED BY <1>2, <1>4, <1>5, <1>7, <2>3, <2>4, <2>5
<1>8. CASE ~(s.v_line_count < Rows)
  <2>1. c = [s EXCEPT !.cell = Scrolled(@), !.line_adr = s.next_line_adrs - Width]
    BY <1>8 DEF check_if_line_full
  <2>2. c = [cell |-> Scrolled(s.cell), line_adr |-> s.next_line_adrs - Width,
             next_line_adrs |-> s.next_line_adrs, v_line_count |-> s.v_line_count]
    BY <1>1, <2>1
  <2>3. s.next_line_adrs - Width = Width * r
    BY <1>1, <1>5, SMT
  <2>4. InRow(c, r)
    <3>1. /\ Scrolled(s.cell) = [p \in Cells |-> Scrolled(s.cell)[p]]
          /\ \A p \in Cells : p >= TextEnd => Scrolled(s.cell)[p] = Bar
      <4>1. \A p \in Cells : p >= TextEnd => s.cell[p] = Bar
        BY DEF OnRow
      <4>2. \A p \in Cells : p >= TextEnd => Scrolled(s.cell)[p] = Bar
        BY <4>1, ScrolledBars
      <4> QED BY <4>2 DEF Scrolled
    <3> HIDE DEF c
    <3> QED BY <1>1, <1>5, <2>2, <2>3, <3>1, SMT DEF OnRow, InRow
  <2>5. SheetAt(c, r) = [above |-> Rolled(Scrolled(s.cell), r), line |-> <<>>,
                         lost |-> s.v_line_count - (r + 1)]
    BY <1>5, <1>6, <2>2, <2>3 DEF SheetAt
  <2>6. Rolled(Scrolled(s.cell), r) = Tail(all)
    <3>1. r < Rows
      BY <1>1, ConsoleAssumption, SMT
    <3> QED BY <1>2, <3>1, RowsScrolled
  <2> QED BY <1>4, <1>8, <2>4, <2>5, <2>6
<1> QED BY <1>7, <1>8

\* Where the cursor is in its row.
LEMMA CursorIs ==
    ASSUME NEW s, NEW r \in Nat, InRow(s, r)
    PROVE  /\ s = [cell |-> s.cell, line_adr |-> s.line_adr, next_line_adrs |-> s.next_line_adrs,
                   v_line_count |-> s.v_line_count]
           /\ s.cell = [p \in Cells |-> s.cell[p]]
           /\ Width \in Nat \ {0} /\ Width * r \in Int /\ Width * r >= 0
           /\ s.next_line_adrs = Width * r + Width /\ s.next_line_adrs = Width * (r + 1)
           /\ s.line_adr \in Int /\ Width * r <= s.line_adr /\ s.line_adr < s.next_line_adrs
           /\ TextEnd \in Nat /\ s.next_line_adrs <= TextEnd
           /\ 0 .. (TextEnd - 1) \subseteq Cells
           /\ s.v_line_count \in 1 .. Rows /\ r < s.v_line_count
<1>1. r \in Int /\ r >= 0
  BY SMT
<1>2. /\ Width \in Nat \ {0} /\ Width * r \in Int /\ Width * r >= 0
      /\ Width * (r + 1) = Width * r + Width
  BY <1>1, RowBounds
<1>3. r < s.v_line_count /\ s.v_line_count \in 1 .. Rows /\ s.next_line_adrs = Width * (r + 1)
  BY DEF InRow, OnRow
<1>4. Width * (r + 1) <= TextEnd /\ TextEnd \in Nat
  BY <1>1, <1>3, TextEndIs
<1>5. 0 .. (TextEnd - 1) \subseteq Cells
  BY <1>2, <1>4, ConsoleAssumption, SMT DEF Cells
<1> QED BY <1>2, <1>3, <1>4, <1>5 DEF InRow, OnRow

\* A character.
LEMMA PutSheet ==
    ASSUME NEW s, NEW r \in Nat, InRow(s, r), NEW c,
           c # Newline, c # Return, c # Backspace
    PROVE  \E q \in Nat : InRow(Put(s, c), q) /\ SheetAt(Put(s, c), q) = Roll!Typed(SheetAt(s, r), c)
<1> DEFINE sheet == SheetAt(s, r)
           line == Cut(s.cell, Width * r, s.line_adr)
           L == s.line_adr - Width * r
<1>u. PICK u : u = [s EXCEPT !.cell[s.line_adr] = c, !.line_adr = @ + 1]
  OBVIOUS
<1>1. /\ s = [cell |-> s.cell, line_adr |-> s.line_adr, next_line_adrs |-> s.next_line_adrs,
                   v_line_count |-> s.v_line_count]
      /\ s.cell = [p \in Cells |-> s.cell[p]]
      /\ Width \in Nat \ {0} /\ Width * r \in Int /\ Width * r >= 0
      /\ s.next_line_adrs = Width * r + Width /\ s.next_line_adrs = Width * (r + 1)
      /\ s.line_adr \in Int /\ Width * r <= s.line_adr /\ s.line_adr < s.next_line_adrs
      /\ TextEnd \in Nat /\ s.next_line_adrs <= TextEnd
      /\ 0 .. (TextEnd - 1) \subseteq Cells
      /\ s.v_line_count \in 1 .. Rows /\ r < s.v_line_count
  BY CursorIs
<1>2. u = [cell |-> [s.cell EXCEPT ![s.line_adr] = c], line_adr |-> s.line_adr + 1,
           next_line_adrs |-> s.next_line_adrs, v_line_count |-> s.v_line_count]
  BY <1>1, <1>u
<1>3. OnRow(u, r)
  <2>1. ASSUME NEW p \in Cells, p >= TextEnd PROVE p # s.line_adr
    BY <1>1, <2>1, SMT DEF Cells
  <2>2. u.cell = [p \in Cells |-> u.cell[p]] /\ \A p \in Cells : p >= TextEnd => u.cell[p] = Bar
    BY <1>1, <1>2, <2>1 DEF InRow, OnRow
  <2>3. u.line_adr \in Int /\ Width * r <= u.line_adr /\ u.line_adr <= u.next_line_adrs
    BY <1>1, <1>2, SMT
  <2> QED BY <1>1, <1>2, <2>2, <2>3 DEF OnRow
<1>4. check_if_line_full(u) = Put(s, c)
  BY <1>u DEF Put
<1>5. Rolled(u.cell, r) = Rolled(s.cell, r)
  <2>1. ASSUME NEW p \in Int, 0 <= p, p < Width * r PROVE u.cell[p] = s.cell[p]
    <3>1. p \in Cells /\ p # s.line_adr
      BY <1>1, <2>1, SMT
    <3> QED BY <1>1, <1>2, <3>1
  <2> QED BY <2>1, SameRows
<1>6. L \in Nat /\ Len(line) = L /\ L + 1 \in Nat /\ L + 1 <= Width
      /\ (s.line_adr + 1) - Width * r = L + 1
      /\ (L + 1 = Width <=> s.line_adr + 1 = s.next_line_adrs)
  <2>1. Len(line) = L
    BY <1>1, CutIs
  <2> QED BY <1>1, <2>1, SMT
<1>7. Cut(u.cell, Width * r, s.line_adr + 1) = Append(line, c)
  <2>1. line = [k \in 1 .. L |-> line[k]] /\ \A k \in 1 .. L : line[k] = s.cell[Width * r + k - 1]
    BY DEF Cut
  <2>2. Append(line, c) = [k \in 1 .. L + 1 |-> IF k = L + 1 THEN c ELSE line[k]]
    <3> HIDE DEF line, L
    <3> QED BY <1>6, <2>1, ListAppended
  <2>3. ASSUME NEW k \in 1 .. L + 1
        PROVE  u.cell[Width * r + k - 1] = IF k = L + 1 THEN c ELSE line[k]
    <3>1. CASE k = L + 1
      <4>1. Width * r + k - 1 = s.line_adr /\ s.line_adr \in Cells
        BY <1>1, <3>1, SMT
      <4> QED BY <1>1, <1>2, <3>1, <4>1
    <3>2. CASE k # L + 1
      <4>1. k \in 1 .. L /\ Width * r + k - 1 # s.line_adr /\ Width * r + k - 1 \in 0 .. (TextEnd - 1)
        <5>1. PICK a \in Int, adr \in Int, next \in Int, M \in Nat :
                  a = Width * r /\ adr = s.line_adr /\ next = s.next_line_adrs /\ M = L
          BY <1>1, <1>6, SMT
        <5>2. M = adr - a /\ a >= 0 /\ adr < next /\ next <= TextEnd /\ TextEnd \in Nat
              /\ k \in 1 .. M + 1 /\ k # M + 1
          BY <1>1, <3>2, <5>1
        <5>3. k \in 1 .. M /\ a + k - 1 # adr /\ a + k - 1 \in 0 .. (TextEnd - 1)
          BY <5>2, SMT
        <5> QED BY <5>1, <5>3
      <4>2. Width * r + k - 1 \in Cells
        BY <1>1, <4>1
      <4>3. u.cell[Width * r + k - 1] = s.cell[Width * r + k - 1]
        BY <1>1, <1>2, <4>1, <4>2
      <4> QED BY <2>1, <3>2, <4>1, <4>3
    <3> QED BY <3>1, <3>2
  <2>4. Cut(u.cell, Width * r, s.line_adr + 1)
            = [k \in 1 .. L + 1 |-> u.cell[Width * r + k - 1]]
    BY <1>6 DEF Cut
  <2> QED BY <2>2, <2>3, <2>4
<1>8. Roll!Typed(sheet, c) = IF Len(line) + 1 = Width THEN Roll!EndOfLine(sheet, Append(line, c))
                             ELSE [sheet EXCEPT !.line = Append(line, c)]
  BY SheetFields DEF Roll!Typed
<1>9. CASE L + 1 # Width
  <2>1. Put(s, c) = u
    BY <1>2, <1>4, <1>6, <1>9 DEF check_if_line_full
  <2>2. InRow(u, r)
    <3>1. u.line_adr = s.line_adr + 1 /\ u.next_line_adrs = s.next_line_adrs
      BY <1>2
    <3>2. PICK adr \in Int, next \in Int : adr = s.line_adr /\ next = s.next_line_adrs
      BY <1>1, SMT
    <3>3. adr < next /\ adr + 1 # next
      BY <1>1, <1>6, <1>9, <3>2
    <3>4. adr + 1 < next
      BY <3>3, SMT
    <3> QED BY <1>3, <3>1, <3>2, <3>4 DEF InRow
  <2>3. SheetAt(u, r) = [above |-> Rolled(s.cell, r), line |-> Append(line, c),
                         lost |-> s.v_line_count - (r + 1)]
    BY <1>2, <1>5, <1>7 DEF SheetAt
  <2>4. SheetAt(u, r) = [sheet EXCEPT !.line = Append(line, c)]
    <3>1. PICK new : new = Append(line, c)
      OBVIOUS
    <3>2. sheet = [above |-> Rolled(s.cell, r), line |-> line, lost |-> s.v_line_count - (r + 1)]
      BY DEF SheetAt
    <3> HIDE DEF sheet, line
    <3>3. [sheet EXCEPT !.line = new]
            = [above |-> Rolled(s.cell, r), line |-> new, lost |-> s.v_line_count - (r + 1)]
      BY <3>2, LineIs
    <3> QED BY <2>3, <3>1, <3>3
  <2> QED BY <1>6, <1>8, <1>9, <2>1, <2>2, <2>4
<1>10. CASE L + 1 = Width
  <2>1. u.line_adr = u.next_line_adrs
    BY <1>2, <1>6, <1>10
  <2>2. sheet = [above |-> Rolled(u.cell, r), line |-> sheet.line,
                 lost |-> u.v_line_count - (r + 1)]
    BY <1>2, <1>5 DEF SheetAt
  <2>3. \E q \in Nat : /\ InRow(check_if_line_full(u), q)
                       /\ SheetAt(check_if_line_full(u), q)
                            = Roll!EndOfLine(sheet, Cut(u.cell, Width * r, Width * (r + 1)))
    <3> HIDE DEF sheet
    <3> QED BY <1>3, <2>1, <2>2, CheckedSheet
  <2>4. Cut(u.cell, Width * r, Width * (r + 1)) = Append(line, c)
    BY <1>1, <1>6, <1>7, <1>10
  <2> QED BY <1>4, <1>6, <1>8, <1>10, <2>3, <2>4
<1> QED BY <1>9, <1>10

\* The end of a line, which is filled with blanks.
LEMMA EndLineSheet ==
    ASSUME NEW s, NEW r \in Nat, InRow(s, r)
    PROVE  \E q \in Nat : /\ InRow(EndLine(s), q)
                          /\ SheetAt(EndLine(s), q) = Roll!Typed(SheetAt(s, r), Newline)
<1> DEFINE sheet == SheetAt(s, r)
           line == Cut(s.cell, Width * r, s.line_adr)
           L == s.line_adr - Width * r
           blanks == [p \in Cells |->
                        IF p \in s.line_adr .. (s.next_line_adrs - 1) THEN Blank ELSE s.cell[p]]
           more == [k \in 1 .. (Width - L) |-> Blank]
<1>u. PICK u : u = [s EXCEPT !.cell = blanks, !.line_adr = s.next_line_adrs]
  OBVIOUS
<1>1. /\ s = [cell |-> s.cell, line_adr |-> s.line_adr, next_line_adrs |-> s.next_line_adrs,
                   v_line_count |-> s.v_line_count]
      /\ s.cell = [p \in Cells |-> s.cell[p]]
      /\ Width \in Nat \ {0} /\ Width * r \in Int /\ Width * r >= 0
      /\ s.next_line_adrs = Width * r + Width /\ s.next_line_adrs = Width * (r + 1)
      /\ s.line_adr \in Int /\ Width * r <= s.line_adr /\ s.line_adr < s.next_line_adrs
      /\ TextEnd \in Nat /\ s.next_line_adrs <= TextEnd
      /\ 0 .. (TextEnd - 1) \subseteq Cells
      /\ s.v_line_count \in 1 .. Rows /\ r < s.v_line_count
  BY CursorIs
<1>2. u = [cell |-> blanks, line_adr |-> s.next_line_adrs,
           next_line_adrs |-> s.next_line_adrs, v_line_count |-> s.v_line_count]
  BY <1>1, <1>u
<1>3. OnRow(u, r)
  <2>1. ASSUME NEW p \in Cells, p >= TextEnd PROVE p \notin s.line_adr .. (s.next_line_adrs - 1)
    BY <1>1, <2>1, SMT DEF Cells
  <2>2. u.cell = [p \in Cells |-> u.cell[p]] /\ \A p \in Cells : p >= TextEnd => u.cell[p] = Bar
    BY <1>2, <2>1 DEF InRow, OnRow
  <2>3. u.line_adr \in Int /\ Width * r <= u.line_adr /\ u.line_adr <= u.next_line_adrs
    BY <1>1, <1>2, SMT
  <2> QED BY <1>1, <1>2, <2>2, <2>3 DEF OnRow
<1>4. check_if_line_full(u) = EndLine(s)
  BY <1>u DEF EndLine
<1>5. Rolled(u.cell, r) = Rolled(s.cell, r)
  <2>1. ASSUME NEW p \in Int, 0 <= p, p < Width * r PROVE u.cell[p] = s.cell[p]
    <3>1. p \in Cells /\ p \notin s.line_adr .. (s.next_line_adrs - 1)
      BY <1>1, <2>1, SMT
    <3> QED BY <1>2, <3>1
  <2> QED BY <2>1, SameRows
<1>6. /\ L \in Nat /\ Len(line) = L /\ Width - L \in Nat /\ L + (Width - L) = Width
      /\ Width * (r + 1) - Width * r = Width
  <2>1. Len(line) = L
    BY <1>1, CutIs
  <2>2. PICK a \in Int, adr \in Int, w \in Nat :
            a = Width * r /\ adr = s.line_adr /\ w = Width /\ adr - a = L
    BY <1>1
  <2>3. a <= adr /\ adr < a + w /\ Width * (r + 1) = a + w
    BY <1>1, <2>2
  <2>4. adr - a \in Nat /\ w - (adr - a) \in Nat /\ (adr - a) + (w - (adr - a)) = w /\ (a + w) - a = w
    BY <2>3, SMT
  <2> QED BY <2>1, <2>2, <2>3, <2>4
<1>7. Cut(u.cell, Width * r, Width * (r + 1)) = line \o more
  <2>1. line = [k \in 1 .. L |-> line[k]] /\ \A k \in 1 .. L : line[k] = s.cell[Width * r + k - 1]
    BY DEF Cut
  <2>2. line \o more = [k \in 1 .. Width |-> IF k <= L THEN line[k] ELSE more[k - L]]
    <3>1. more = [k \in 1 .. (Width - L) |-> more[k]]
      OBVIOUS
    <3>2. PICK M : M = Width - L
      OBVIOUS
    <3>3. L + M = Width /\ M \in Nat /\ more = [k \in 1 .. M |-> more[k]]
      BY <1>6, <3>1, <3>2
    <3>4. L \in Nat /\ M \in Nat /\ line = [k \in 1 .. L |-> line[k]] /\ more = [k \in 1 .. M |-> more[k]]
      BY <1>6, <2>1, <3>3
    <3> HIDE DEF line, L, more
    <3>5. line \o more = [k \in 1 .. L + M |-> IF k <= L THEN line[k] ELSE more[k - L]]
      BY <3>4, ListConcat
    <3> QED BY <3>3, <3>5
  <2>3. ASSUME NEW k \in 1 .. Width
        PROVE  u.cell[Width * r + k - 1] = IF k <= L THEN line[k] ELSE more[k - L]
    <3>0. PICK a \in Int, adr \in Int, next \in Int, w \in Nat :
            a = Width * r /\ adr = s.line_adr /\ next = s.next_line_adrs /\ w = Width
      BY <1>1, SMT
    <3>1. /\ a >= 0 /\ a <= adr /\ adr < next /\ next = a + w /\ next <= TextEnd /\ TextEnd \in Nat
          /\ k \in 1 .. w
      BY <1>1, <3>0
    <3>2. a + k - 1 \in 0 .. (TextEnd - 1)
      BY <3>1, SMT
    <3>3. a + k - 1 \in Cells
      BY <1>1, <3>2
    <3>4. CASE k <= adr - a
      <4>1. a + k - 1 \notin adr .. (next - 1) /\ k \in 1 .. (adr - a)
        BY <3>1, <3>4, SMT
      <4>2. u.cell[a + k - 1] = s.cell[a + k - 1]
        BY <1>2, <3>0, <3>3, <4>1
      <4>3. line[k] = s.cell[a + k - 1] /\ k <= L
        BY <2>1, <3>0, <3>4, <4>1
      <4> QED BY <3>0, <4>2, <4>3
    <3>5. CASE ~(k <= adr - a)
      <4>1. a + k - 1 \in adr .. (next - 1) /\ k - (adr - a) \in 1 .. (w - (adr - a))
        BY <3>1, <3>5, SMT
      <4>2. u.cell[a + k - 1] = Blank
        BY <1>2, <3>0, <3>3, <4>1
      <4>3. more[k - L] = Blank /\ ~(k <= L)
        BY <3>0, <3>5, <4>1
      <4> QED BY <3>0, <4>2, <4>3
    <3> QED BY <3>4, <3>5
  <2>4. Cut(u.cell, Width * r, Width * (r + 1)) = [k \in 1 .. Width |-> u.cell[Width * r + k - 1]]
    BY <1>6 DEF Cut
  <2> QED BY <2>2, <2>3, <2>4
<1>8. Roll!Typed(sheet, Newline) = Roll!EndOfLine(sheet, line \o more)
  <2>1. sheet.line = line
    BY SheetFields
  <2>2. Roll!Typed(sheet, Newline) = Roll!EndOfLine(sheet,
            sheet.line \o [k \in 1 .. (Width - Len(sheet.line)) |-> Blank])
    BY DEF Roll!Typed, Newline, Return, Backspace
  <2> QED BY <1>6, <2>1, <2>2
<1>9. u.line_adr = u.next_line_adrs
  BY <1>2
<1>10. sheet = [above |-> Rolled(u.cell, r), line |-> sheet.line, lost |-> u.v_line_count - (r + 1)]
  BY <1>2, <1>5 DEF SheetAt
<1>11. \E q \in Nat : /\ InRow(check_if_line_full(u), q)
                      /\ SheetAt(check_if_line_full(u), q)
                            = Roll!EndOfLine(sheet, Cut(u.cell, Width * r, Width * (r + 1)))
  <2> HIDE DEF sheet
  <2> QED BY <1>3, <1>9, <1>10, CheckedSheet
<1> QED BY <1>4, <1>7, <1>8, <1>11

\* A return.
LEMMA StartSheet ==
    ASSUME NEW s, NEW r \in Nat, InRow(s, r)
    PROVE  /\ InRow(StartOfLine(s), r)
           /\ SheetAt(StartOfLine(s), r) = Roll!Typed(SheetAt(s, r), Return)
<1>1. r \in Int
  BY SMT
<1>2. InRow(StartOfLine(s), r)
  BY <1>1, StartRow
<1>3. s = [cell |-> s.cell, line_adr |-> s.line_adr, next_line_adrs |-> s.next_line_adrs,
            v_line_count |-> s.v_line_count]
  BY DEF InRow, OnRow
<1>4. StartOfLine(s) = [cell |-> s.cell, line_adr |-> s.next_line_adrs - Width,
           next_line_adrs |-> s.next_line_adrs, v_line_count |-> s.v_line_count]
  BY <1>3 DEF StartOfLine
<1>5. s.next_line_adrs - Width = Width * r /\ Width * r \in Int
  <2>1. s.next_line_adrs = Width * r + Width /\ Width * r \in Int /\ Width \in Nat
    BY CursorIs
  <2> QED BY <2>1, SMT
<1>6. Cut(s.cell, Width * r, Width * r) = <<>>
  <2>1. Width * r - Width * r = 0 /\ 1 .. 0 = {}
    BY <1>5, SMT
  <2> QED BY <2>1 DEF Cut
<1>7. PICK a, l, d : a = Rolled(s.cell, r) /\ l = Cut(s.cell, Width * r, s.line_adr) /\ d = s.v_line_count - (r + 1)
  OBVIOUS
<1>8. SheetAt(StartOfLine(s), r) = [above |-> a, line |-> <<>>, lost |-> d]
  BY <1>4, <1>5, <1>6, <1>7 DEF SheetAt
<1>9. SheetAt(s, r) = [above |-> a, line |-> l, lost |-> d]
  BY <1>7 DEF SheetAt
<1>10. Roll!Typed(SheetAt(s, r), Return) = [SheetAt(s, r) EXCEPT !.line = <<>>]
  BY DEF Roll!Typed, Newline, Return, Backspace
<1> QED BY <1>2, <1>8, <1>9, <1>10, LineIs

\* A step back, over the start of a row at the cost of a line.
LEMMA StepBackSheet ==
    ASSUME NEW s, NEW r \in Nat, InRow(s, r), s.line_adr > 0
    PROVE  /\ SheetAt(s, r).above # <<>> \/ SheetAt(s, r).line # <<>>
           /\ \E q \in Nat : /\ InRow(StepBack(s), q)
                             /\ SheetAt(StepBack(s), q) = Roll!Typed(SheetAt(s, r), Backspace)
<1> DEFINE above == s.line_adr = s.next_line_adrs - Width
           line == Cut(s.cell, Width * r, s.line_adr)
           L == s.line_adr - Width * r
<1>u. PICK u : u = StepBack(s)
  OBVIOUS
<1>1. /\ s = [cell |-> s.cell, line_adr |-> s.line_adr, next_line_adrs |-> s.next_line_adrs,
                   v_line_count |-> s.v_line_count]
      /\ s.cell = [p \in Cells |-> s.cell[p]]
      /\ Width \in Nat \ {0} /\ Width * r \in Int /\ Width * r >= 0
      /\ s.next_line_adrs = Width * r + Width /\ s.next_line_adrs = Width * (r + 1)
      /\ s.line_adr \in Int /\ Width * r <= s.line_adr /\ s.line_adr < s.next_line_adrs
      /\ TextEnd \in Nat /\ s.next_line_adrs <= TextEnd
      /\ 0 .. (TextEnd - 1) \subseteq Cells
      /\ s.v_line_count \in 1 .. Rows /\ r < s.v_line_count
  BY CursorIs
<1>2. u = [cell |-> [s.cell EXCEPT ![s.line_adr - 1] = Blank], line_adr |-> s.line_adr - 1,
           next_line_adrs |-> IF above THEN s.next_line_adrs - Width ELSE s.next_line_adrs,
           v_line_count |-> s.v_line_count]
  BY <1>1, <1>u DEF StepBack
<1>3. u.cell = [p \in Cells |-> u.cell[p]] /\ \A p \in Cells : p >= TextEnd => u.cell[p] = Bar
  <2>1. ASSUME NEW p \in Cells, p >= TextEnd PROVE p # s.line_adr - 1
    BY <1>1, <2>1, SMT DEF Cells
  <2> QED BY <1>1, <1>2, <2>1 DEF InRow, OnRow
<1>4. \A p \in Int : 0 <= p /\ p < s.line_adr - 1 => u.cell[p] = s.cell[p]
  <2>1. ASSUME NEW p \in Int, 0 <= p, p < s.line_adr - 1 PROVE u.cell[p] = s.cell[p]
    <3>1. p \in 0 .. (TextEnd - 1) /\ p # s.line_adr - 1
      BY <1>1, <2>1, SMT
    <3>2. p \in Cells
      BY <1>1, <3>1
    <3> QED BY <1>1, <1>2, <3>1, <3>2
  <2> QED BY <2>1
<1>5. PICK a, d : a = Rolled(s.cell, r) /\ d = s.v_line_count - (r + 1)
  OBVIOUS
<1>6. SheetAt(s, r) = [above |-> a, line |-> line, lost |-> d]
  BY <1>5 DEF SheetAt
<1>7. L \in Nat /\ Len(line) = L /\ line = [k \in 1 .. L |-> line[k]]
  <2>1. Len(line) = L
    BY <1>1, CutIs
  <2>2. L \in Nat
    BY <1>1, SMT
  <2> QED BY <2>1, <2>2 DEF Cut
<1>8. CASE above
  <2>1. /\ s.line_adr = Width * r /\ r \in Nat \ {0} /\ r - 1 \in Nat /\ r - 1 \in Int
        /\ (r - 1) + 1 = r /\ r \in Int
    <3>1. s.line_adr = Width * r
      BY <1>1, <1>8, SMT
    <3>2. r # 0
      BY <1>1, <3>1, SMT
    <3> QED BY <3>1, <3>2, SMT
  <2>2. /\ Width * (r - 1) \in Int /\ Width * r = Width * (r - 1) + Width /\ Width * (r - 1) >= 0
    <3>1. r - 1 >= 0
      BY <2>1, SMT
    <3> QED BY <2>1, <3>1, RowBounds
  <2>3. line = <<>>
    <3>1. L = 0 /\ 1 .. 0 = {}
      BY <1>1, <2>1, SMT
    <3> QED BY <1>7, <3>1
  <2>4. a # <<>>
    <3>1. Len(a) = r
      BY <1>5, RolledIs
    <3>2. Len(<<>>) = 0
      BY SMT
    <3> QED BY <2>1, <3>1, <3>2
  <2>5. InRow(u, r - 1)
    <3>1. /\ u.line_adr \in Int /\ Width * (r - 1) <= u.line_adr /\ u.line_adr < u.next_line_adrs
          /\ u.line_adr <= u.next_line_adrs /\ u.next_line_adrs = Width * r
      <4>1. u.line_adr = s.line_adr - 1 /\ u.next_line_adrs = s.next_line_adrs - Width
        BY <1>2, <1>8
      <4>2. PICK x \in Int, y \in Int, w \in Nat \ {0} : x = Width * r /\ y = Width * (r - 1) /\ w = Width
        BY <1>1, <2>2
      <4>3. x = y + w /\ s.line_adr = x /\ s.next_line_adrs = x + w
        BY <1>1, <2>1, <2>2, <4>2
      <4>4. x - 1 \in Int /\ y <= x - 1 /\ x - 1 < x /\ x - 1 <= x /\ (x + w) - w = x
        BY <4>3, SMT
      <4> QED BY <4>1, <4>2, <4>3, <4>4
    <3>2. u.v_line_count \in 1 .. Rows /\ r - 1 < u.v_line_count
      <4>1. u.v_line_count = s.v_line_count
        BY <1>2
      <4> QED BY <1>1, <4>1, SMT
    <3>3. u = [cell |-> u.cell, line_adr |-> u.line_adr, next_line_adrs |-> u.next_line_adrs,
               v_line_count |-> u.v_line_count]
      BY <1>2
    <3> QED BY <1>3, <2>1, <3>1, <3>2, <3>3 DEF InRow, OnRow
  <2>6. Rolled(u.cell, r - 1) = Roll!Front(a)
    <3>1. ASSUME NEW p \in Int, 0 <= p, p < Width * (r - 1) PROVE u.cell[p] = s.cell[p]
      <4>1. p < s.line_adr - 1
        BY <1>1, <2>1, <2>2, <3>1, SMT
      <4> QED BY <1>4, <3>1, <4>1
    <3>2. Rolled(u.cell, r - 1) = Rolled(s.cell, r - 1)
      BY <2>1, <3>1, SameRows
    <3> QED BY <1>5, <2>1, <3>2, RowLess
  <2>7. Cut(u.cell, Width * (r - 1), u.line_adr) = Roll!Front(Roll!Last(a))
    <3> DEFINE last == Cut(s.cell, Width * (r - 1), Width * r)
    <3>1. Roll!Last(a) = last
      BY <1>5, <2>1, RowLess
    <3>2. last = [k \in 1 .. Width |-> last[k]] /\ \A k \in 1 .. Width : last[k] = s.cell[Width * (r - 1) + k - 1]
      <4>1. Width * r - Width * (r - 1) = Width
        BY <1>1, <2>2, SMT
      <4> QED BY <4>1 DEF Cut
    <3>3. Roll!Front(last) = [k \in 1 .. Width - 1 |-> last[k]]
      <4> HIDE DEF last
      <4> QED BY <1>1, <3>2, ListFront
    <3>4. u.line_adr - Width * (r - 1) = Width - 1
      <4>1. u.line_adr = Width * r - 1
        BY <1>2, <2>1
      <4> QED BY <1>1, <2>2, <4>1, SMT
    <3>5. ASSUME NEW k \in 1 .. Width - 1 PROVE u.cell[Width * (r - 1) + k - 1] = last[k]
      <4>1. PICK y \in Int, w \in Nat \ {0} : y = Width * (r - 1) /\ w = Width
        BY <1>1, <2>2
      <4>2. y >= 0 /\ s.line_adr = y + w /\ k \in 1 .. w - 1
        BY <2>1, <2>2, <4>1
      <4>3. y + k - 1 \in Int /\ 0 <= y + k - 1 /\ y + k - 1 < s.line_adr - 1 /\ k \in 1 .. w
        BY <4>2, SMT
      <4>4. u.cell[y + k - 1] = s.cell[y + k - 1]
        BY <1>4, <4>3
      <4> QED BY <3>2, <4>1, <4>3, <4>4
    <3> QED BY <3>1, <3>3, <3>4, <3>5 DEF Cut
  <2>8. u.v_line_count - ((r - 1) + 1) = d + 1
    <3>1. u.v_line_count = s.v_line_count /\ d = s.v_line_count - (r + 1)
      BY <1>2, <1>5
    <3> QED BY <1>1, <3>1, SMT
  <2>9. SheetAt(u, r - 1) = [above |-> Roll!Front(a), line |-> Roll!Front(Roll!Last(a)), lost |-> d + 1]
    BY <2>6, <2>7, <2>8 DEF SheetAt
  <2>10. Roll!Typed(SheetAt(s, r), Backspace)
           = [above |-> Roll!Front(a), line |-> Roll!Front(Roll!Last(a)), lost |-> d + 1]
    <3>1. PICK sheet : sheet = SheetAt(s, r)
      OBVIOUS
    <3>2. sheet.line = <<>> /\ sheet.above = a /\ sheet.lost = d
      BY <1>6, <2>3, <3>1
    <3>3. Roll!Typed(sheet, Backspace)
            = [above |-> Roll!Front(sheet.above), line |-> Roll!Front(Roll!Last(sheet.above)),
               lost |-> sheet.lost + 1]
      BY <3>2 DEF Roll!Typed, Newline, Return, Backspace
    <3> QED BY <3>1, <3>2, <3>3
  <2> QED BY <1>u, <1>6, <2>1, <2>4, <2>5, <2>9, <2>10
<1>9. CASE ~above
  <2>1. L \in Nat \ {0} /\ Width * r <= s.line_adr - 1 /\ r \in Int
    BY <1>1, <1>9, SMT
  <2>2. line # <<>>
    <3>1. Len(<<>>) = 0
      BY SMT
    <3> QED BY <1>7, <2>1, <3>1
  <2>3. InRow(u, r)
    <3>1. /\ u.line_adr = s.line_adr - 1 /\ u.next_line_adrs = s.next_line_adrs
          /\ u.v_line_count = s.v_line_count
      BY <1>2, <1>9
    <3>2. s.line_adr - 1 \in Int /\ s.line_adr - 1 < s.next_line_adrs /\ s.line_adr - 1 <= s.next_line_adrs
      BY <1>1, SMT
    <3>3. u = [cell |-> u.cell, line_adr |-> u.line_adr, next_line_adrs |-> u.next_line_adrs,
               v_line_count |-> u.v_line_count]
      BY <1>2
    <3> QED BY <1>1, <1>3, <2>1, <3>1, <3>2, <3>3 DEF InRow, OnRow
  <2>4. Rolled(u.cell, r) = a
    <3>1. ASSUME NEW p \in Int, 0 <= p, p < Width * r PROVE u.cell[p] = s.cell[p]
      <4>1. p < s.line_adr - 1
        BY <1>1, <2>1, <3>1, SMT
      <4> QED BY <1>4, <3>1, <4>1
    <3> QED BY <1>5, <3>1, SameRows
  <2>5. Cut(u.cell, Width * r, u.line_adr) = Roll!Front(line)
    <3>1. Roll!Front(line) = [k \in 1 .. L - 1 |-> line[k]]
      <4> HIDE DEF line, L
      <4> QED BY <1>7, <2>1, ListFront
    <3>2. u.line_adr - Width * r = L - 1
      <4>1. u.line_adr = s.line_adr - 1
        BY <1>2
      <4> QED BY <1>1, <4>1, SMT
    <3>3. ASSUME NEW k \in 1 .. L - 1 PROVE u.cell[Width * r + k - 1] = line[k]
      <4>1. PICK x \in Int, adr \in Int : x = Width * r /\ adr = s.line_adr /\ L = adr - x
        BY <1>1
      <4>2. x >= 0 /\ k \in 1 .. (adr - x) - 1
        BY <1>1, <4>1
      <4>3. x + k - 1 \in Int /\ 0 <= x + k - 1 /\ x + k - 1 < adr - 1 /\ k \in 1 .. (adr - x)
        BY <4>2, SMT
      <4>4. u.cell[x + k - 1] = s.cell[x + k - 1]
        BY <1>4, <4>1, <4>3
      <4>5. line[k] = s.cell[x + k - 1]
        BY <4>1, <4>3 DEF Cut
      <4> QED BY <4>1, <4>4, <4>5
    <3> QED BY <3>1, <3>2, <3>3 DEF Cut
  <2>6. SheetAt(u, r) = [above |-> a, line |-> Roll!Front(line), lost |-> d]
    <3>1. u.v_line_count = s.v_line_count
      BY <1>2
    <3> QED BY <1>5, <2>4, <2>5, <3>1 DEF SheetAt
  <2>7. Roll!Typed(SheetAt(s, r), Backspace) = [above |-> a, line |-> Roll!Front(line), lost |-> d]
    <3>1. PICK sheet : sheet = SheetAt(s, r)
      OBVIOUS
    <3>2. sheet.line = line
      BY <1>6, <3>1
    <3>3. Roll!Typed(sheet, Backspace) = [sheet EXCEPT !.line = Roll!Front(line)]
      BY <2>2, <3>2 DEF Roll!Typed, Newline, Return, Backspace
    <3>4. PICK front : front = Roll!Front(line)
      OBVIOUS
    <3> HIDE DEF line
    <3> QED BY <1>6, <3>1, <3>3, <3>4, LineIs
  <2> QED BY <1>u, <1>6, <2>2, <2>3, <2>6, <2>7
<1> QED BY <1>8, <1>9

\* Any character but the backspace.
LEMMA FormattedSheet ==
    ASSUME NEW s, NEW r \in Nat, InRow(s, r), NEW c, c # Backspace
    PROVE  \E q \in Nat : /\ InRow(Formatted(s, c), q)
                          /\ SheetAt(Formatted(s, c), q) = Roll!Typed(SheetAt(s, r), c)
<1>1. CASE c = Newline
  <2>1. Formatted(s, c) = EndLine(s)
    BY <1>1 DEF Formatted, Newline, Return
  <2> QED BY <1>1, <2>1, EndLineSheet
<1>2. CASE c = Return
  <2>1. Formatted(s, c) = StartOfLine(s)
    BY <1>2 DEF Formatted, Newline, Return
  <2> QED BY <1>2, <2>1, StartSheet
<1>3. CASE c # Newline /\ c # Return
  <2>1. Formatted(s, c) = Put(s, c)
    BY <1>3 DEF Formatted
  <2> QED BY <1>3, <2>1, PutSheet
<1> QED BY <1>1, <1>2, <1>3

\* The sheet of a screen, with the row that Roll computes.
SheetOf(s) == SheetAt(s, (s.next_line_adrs \div Width) - 1)

\* That row is the cursor's.
LEMMA SheetOfIs ==
    ASSUME NEW s, NEW r \in Nat, InRow(s, r)
    PROVE  (s.next_line_adrs \div Width) - 1 = r /\ SheetOf(s) = SheetAt(s, r)
<1>1. s.next_line_adrs = Width * (r + 1) /\ Width \in Nat \ {0}
  BY CursorIs
<1>2. (Width * (r + 1)) \div Width = r + 1
  <2>1. PICK n \in Nat : n = r + 1
    BY SMT
  <2>2. \A w \in Nat \ {0} : (w * n) \div w = n
    BY SMT
  <2> QED BY <1>1, <2>1, <2>2
<1>3. (s.next_line_adrs \div Width) - 1 = r
  BY <1>1, <1>2, SMT
<1> QED BY <1>3 DEF SheetOf

\* The fields of that sheet are what Roll computes from the cells.
LEMMA RollSheet ==
    ASSUME NEW s, NEW r \in Nat, InRow(s, r)
    PROVE  LET row == (s.next_line_adrs \div Width) - 1
               shown(from, to) == [k \in 1 .. (to - from) |-> s.cell[from + k - 1]] IN
           /\ [n \in 1 .. row |-> shown((n - 1) * Width, n * Width)] = SheetOf(s).above
           /\ shown(row * Width, s.line_adr) = SheetOf(s).line
           /\ s.v_line_count - (row + 1) = SheetOf(s).lost
<1> DEFINE row == (s.next_line_adrs \div Width) - 1
           shown(from, to) == [k \in 1 .. (to - from) |-> s.cell[from + k - 1]]
<1>1. row = r /\ SheetOf(s) = SheetAt(s, r)
  BY SheetOfIs
<1>2. Width \in Nat /\ \A n \in Int : n * Width = Width * n
  BY ConsoleAssumption, SMT
<1>3. ASSUME NEW n \in 1 .. r
      PROVE  shown((n - 1) * Width, n * Width) = Cut(s.cell, Width * (n - 1), Width * n)
  <2>1. n \in Int /\ n - 1 \in Int
    BY SMT
  <2>2. (n - 1) * Width = Width * (n - 1) /\ n * Width = Width * n
    BY <1>2, <2>1
  <2> QED BY <2>2 DEF Cut
<1>4. [n \in 1 .. r |-> shown((n - 1) * Width, n * Width)] = Rolled(s.cell, r)
  BY <1>3 DEF Rolled
<1>5. shown(r * Width, s.line_adr) = Cut(s.cell, Width * r, s.line_adr)
  <2>1. r * Width = Width * r
    BY <1>2, SMT
  <2> QED BY <2>1 DEF Cut
<1> HIDE DEF row, shown
<1>6. /\ [n \in 1 .. row |-> shown((n - 1) * Width, n * Width)] = SheetOf(s).above
      /\ shown(row * Width, s.line_adr) = SheetOf(s).line
      /\ s.v_line_count - (row + 1) = SheetOf(s).lost
  BY <1>1, <1>4, <1>5, SheetFields
<1> QED BY <1>6 DEF row, shown

\* The sheets after each character of a text.
IsPrinted(g, L, sheet, text) ==
    g = [n \in 0 .. L |-> IF n = 0 THEN sheet ELSE Roll!Typed(g[n - 1], text[n])]

\* A text without backspaces prints on the paper what it does on the screen.
LEMMA StringSheet ==
    ASSUME NEW s, NEW text, NEW f, NEW L \in Nat, IsStringShown(f, L, s, text),
           \A k \in 1 .. L : text[k] # Backspace, NEW r \in Nat, InRow(s, r)
    PROVE  /\ \E q \in Nat : InRow(f[L], q)
           /\ \E g : IsPrinted(g, L, SheetOf(s), text) /\ g[L] = SheetOf(f[L])
<1>1. f[0] = s /\ \A n \in 1 .. L : f[n] = Formatted(f[n - 1], text[n])
  <2>1. 0 \in 0 .. L /\ \A n \in 1 .. L : n \in 0 .. L /\ n # 0
    BY SMT
  <2> QED BY <2>1 DEF IsStringShown
<1> DEFINE T == {n \in 0 .. L : \E q \in Nat : InRow(f[n], q)}
<1>2. ASSUME NEW n \in 0 .. L - 1, NEW q \in Nat, InRow(f[n], q)
      PROVE  \E t \in Nat : InRow(f[n + 1], t) /\ SheetAt(f[n + 1], t) = Roll!Typed(SheetAt(f[n], q), text[n + 1])
  <2>1. n + 1 \in 1 .. L /\ (n + 1) - 1 = n
    BY SMT
  <2>2. f[n + 1] = Formatted(f[n], text[n + 1]) /\ text[n + 1] # Backspace
    BY <1>1, <2>1
  <2> QED BY <1>2, <2>2, FormattedSheet
<1>3. 0 \in T
  BY <1>1, SMT
<1>4. ASSUME NEW n \in 0 .. L - 1, n \in T PROVE n + 1 \in T
  <2>1. n + 1 \in 0 .. L
    BY SMT
  <2> QED BY <1>2, <1>4, <2>1
<1>5. \A n \in 0 .. L : n \in T
  <2> HIDE DEF T
  <2> QED BY <1>3, <1>4, Induction
<1> DEFINE g == [n \in 0 .. L |-> SheetOf(f[n])]
<1>6. ASSUME NEW n \in 0 .. L
      PROVE  g[n] = IF n = 0 THEN SheetOf(s) ELSE Roll!Typed(g[n - 1], text[n])
  <2>1. CASE n = 0
    BY <1>1, <2>1
  <2>2. CASE n # 0
    <3>1. n - 1 \in 0 .. L - 1 /\ n - 1 \in 0 .. L /\ (n - 1) + 1 = n
      BY <2>2, SMT
    <3>2. PICK q \in Nat : InRow(f[n - 1], q)
      BY <1>5, <3>1
    <3>3. PICK t \in Nat : InRow(f[n], t) /\ SheetAt(f[n], t) = Roll!Typed(SheetAt(f[n - 1], q), text[n])
      BY <1>2, <3>1, <3>2
    <3>4. SheetOf(f[n - 1]) = SheetAt(f[n - 1], q) /\ SheetOf(f[n]) = SheetAt(f[n], t)
      BY <3>2, <3>3, SheetOfIs
    <3> QED BY <2>2, <3>1, <3>3, <3>4
  <2> QED BY <2>1, <2>2
<1>7. g = [n \in 0 .. L |-> g[n]]
  OBVIOUS
<1>8. L \in 0 .. L
  BY SMT
<1>9. g[L] = SheetOf(f[L])
  BY <1>8
<1>10. \E q \in Nat : InRow(f[L], q)
  BY <1>5, <1>8
<1> HIDE DEF g
<1>11. IsPrinted(g, L, SheetOf(s), text)
  BY <1>6, <1>7 DEF IsPrinted
<1> QED BY <1>9, <1>10, <1>11

\* Printed() is the last one of such sheets.
LEMMA PrintedIs ==
    ASSUME NEW text, Len(text) \in Nat, NEW g, IsPrinted(g, Len(text), Roll!Sheet, text)
    PROVE  Roll!Printed(text) = g[Len(text)]
<1> DEFINE L == Len(text)
           h == CHOOSE e : IsPrinted(e, L, Roll!Sheet, text)
<1>1. IsPrinted(h, L, Roll!Sheet, text)
  OBVIOUS
<1>2. Roll!Printed(text) = h[L]
  BY DEF Roll!Printed, IsPrinted
<1> HIDE DEF h
<1>3. g[0] = Roll!Sheet /\ h[0] = Roll!Sheet
  <2>1. 0 \in 0 .. L
    BY SMT
  <2> QED BY <1>1, <2>1 DEF IsPrinted
<1>4. ASSUME NEW n \in 1 .. L, g[n - 1] = h[n - 1] PROVE g[n] = h[n]
  <2>1. n \in 0 .. L /\ n # 0
    BY SMT
  <2>2. g[n] = Roll!Typed(g[n - 1], text[n]) /\ h[n] = Roll!Typed(h[n - 1], text[n])
    BY <1>1, <2>1 DEF IsPrinted
  <2> QED BY <1>4, <2>2
<1>5. GoTogether(g, h, L)
  BY <1>3, <1>4 DEF GoTogether
<1>6. L \in 0 .. L
  BY SMT
<1>7. g[L] = h[L]
  BY <1>5, <1>6, SameIteration
<1> QED BY <1>2, <1>7

\* No program of src/bin prints a backspace, and the cursor has not been taken back
\* over the first row.
PlainOutput == \A text \in Output : \A k \in DOMAIN text : text[k] # Backspace
CursorOnScreen == screen.line_adr >= 0

\* What the variables of Roll stand for.
RollAbove == [r \in 1 .. Row |-> Shown((r - 1) * Width, r * Width)]
RollLine == Shown(Row * Width, screen.line_adr)
RollLost == screen.v_line_count - (Row + 1)

\* The cursor is in a row of the screen, and Roll has the sheet of the screen.
RollAgrees ==
    /\ \E r \in Nat : InRow(screen, r)
    /\ RollAbove = SheetOf(screen).above /\ RollLine = SheetOf(screen).line
    /\ RollLost = SheetOf(screen).lost

\* It does while the cursor is on the screen.
LEMMA RollIs == DevicesInv /\ CursorOnScreen => RollAgrees
<1> SUFFICES ASSUME DevicesInv, CursorOnScreen PROVE RollAgrees
  OBVIOUS
<1>1. PICK r \in Int : InRow(screen, r)
  BY DEF DevicesInv, RowInv
<1>2. r \in Nat
  <2>1. /\ screen.line_adr \in Int /\ screen.line_adr < Width * (r + 1)
    BY <1>1 DEF InRow, OnRow
  <2>2. 0 < Width * (r + 1) /\ r + 1 \in Int /\ Width * 0 = 0
    <3>1. r + 1 \in Int /\ Width \in Nat
      BY ConsoleAssumption, SMT
    <3>2. Width * (r + 1) \in Int /\ Width * 0 = 0
      BY <3>1, RowsGrow, SMT
    <3> QED BY <2>1, <3>1, <3>2, SMT DEF CursorOnScreen
  <2>3. Width * 0 < Width * (r + 1) /\ 0 \in Int
    BY <2>2
  <2>4. 0 < r + 1
    BY <2>2, <2>3, RowsGrow
  <2> QED BY <2>4, SMT
<1>3. PICK s : s = screen
  OBVIOUS
<1>4. InRow(s, r)
  BY <1>1, <1>3
<1>5. /\ [n \in 1 .. ((s.next_line_adrs \div Width) - 1) |->
            [k \in 1 .. (n * Width - (n - 1) * Width) |-> s.cell[(n - 1) * Width + k - 1]]]
            = SheetOf(s).above
      /\ [k \in 1 .. (s.line_adr - ((s.next_line_adrs \div Width) - 1) * Width) |->
            s.cell[((s.next_line_adrs \div Width) - 1) * Width + k - 1]] = SheetOf(s).line
      /\ s.v_line_count - (((s.next_line_adrs \div Width) - 1) + 1) = SheetOf(s).lost
  BY <1>2, <1>4, RollSheet
<1> QED BY <1>1, <1>2, <1>3, <1>5 DEF RollAgrees, RollAbove, RollLine, RollLost, Row, Shown

\* The sheet that Roll has.
LEMMA RollSheetIs ==
    ASSUME DevicesInv, CursorOnScreen
    PROVE  Roll!Sheet = SheetOf(screen)
<1>1. Roll!Sheet = [above |-> RollAbove, line |-> RollLine, lost |-> RollLost]
  BY DEF Roll!Sheet, RollAbove, RollLine, RollLost
<1>2. SheetOf(screen) = [above |-> SheetOf(screen).above, line |-> SheetOf(screen).line,
                         lost |-> SheetOf(screen).lost]
  BY DEF SheetOf, SheetAt
<1> QED BY <1>1, <1>2, RollIs DEF RollAgrees

\* A text that takes the sheet to that of the next screen is emitted.
LEMMA Emitted ==
    ASSUME DevicesInv, CursorOnScreen, DevicesInv', CursorOnScreen', NEW text,
           text = <<Backspace>> => SheetOf(screen).above # <<>> \/ SheetOf(screen).line # <<>>,
           Roll!Printed(text) = SheetOf(screen')
    PROVE  Roll!Emit(text)
<1>1. /\ RollAbove = SheetOf(screen).above /\ RollLine = SheetOf(screen).line
  BY RollIs DEF RollAgrees
<1>2. /\ RollAbove' = SheetOf(screen').above /\ RollLine' = SheetOf(screen').line
      /\ RollLost' = SheetOf(screen').lost
  <2>1. RollAgrees'
    BY RollIs, PTL
  <2> QED BY <2>1 DEF RollAgrees, SheetOf, SheetAt, Rolled, Cut
<1> QED BY <1>1, <1>2 DEF Roll!Emit, RollAbove, RollLine, RollLost

\* A text without backspaces, as a format or as a string, ...
LEMMA TextPrinted ==
    ASSUME DevicesInv, CursorOnScreen, NEW text, NEW f, Len(text) \in Nat,
           IsStringShown(f, Len(text), screen, text),
           \A k \in 1 .. Len(text) : text[k] # Backspace
    PROVE  Roll!Printed(text) = SheetOf(f[Len(text)])
<1>1. PICK r \in Nat : InRow(screen, r)
  BY RollIs DEF RollAgrees
<1>2. PICK g : IsPrinted(g, Len(text), SheetOf(screen), text) /\ g[Len(text)] = SheetOf(f[Len(text)])
  BY <1>1, StringSheet
<1>3. IsPrinted(g, Len(text), Roll!Sheet, text)
  BY <1>2, RollSheetIs
<1> QED BY <1>2, <1>3, PrintedIs

\* ... and a backspace.
LEMMA BackspacePrinted ==
    ASSUME DevicesInv, CursorOnScreen, StepBack(screen).line_adr >= 0
    PROVE  /\ SheetOf(screen).above # <<>> \/ SheetOf(screen).line # <<>>
           /\ Roll!Printed(<<Backspace>>) = SheetOf(StepBack(screen))
<1>1. PICK r \in Nat : InRow(screen, r)
  BY RollIs DEF RollAgrees
<1>2. screen.line_adr > 0
  <2>1. /\ screen = [cell |-> screen.cell, line_adr |-> screen.line_adr,
                     next_line_adrs |-> screen.next_line_adrs, v_line_count |-> screen.v_line_count]
        /\ screen.line_adr \in Int
    BY <1>1 DEF InRow, OnRow
  <2>2. StepBack(screen).line_adr = screen.line_adr - 1
    BY <2>1 DEF StepBack
  <2> QED BY <2>1, <2>2, SMT
<1>3. /\ SheetAt(screen, r).above # <<>> \/ SheetAt(screen, r).line # <<>>
      /\ \E q \in Nat : /\ InRow(StepBack(screen), q)
                        /\ SheetAt(StepBack(screen), q) = Roll!Typed(SheetAt(screen, r), Backspace)
  BY <1>1, <1>2, StepBackSheet
<1>4. SheetOf(screen) = SheetAt(screen, r)
  BY <1>1, SheetOfIs
<1>5. SheetOf(StepBack(screen)) = Roll!Typed(SheetOf(screen), Backspace)
  BY <1>3, <1>4, SheetOfIs
<1> DEFINE text == <<Backspace>>
           g == [n \in 0 .. 1 |-> IF n = 0 THEN SheetOf(screen) ELSE SheetOf(StepBack(screen))]
<1>6. Len(text) = 1 /\ Len(text) \in Nat /\ text[1] = Backspace
  BY SMT
<1>7. g[0] = SheetOf(screen) /\ g[1] = SheetOf(StepBack(screen)) /\ g = [n \in 0 .. 1 |-> g[n]]
  BY SMT
<1> HIDE DEF g, text
<1>8. ASSUME NEW n \in 0 .. 1
      PROVE  g[n] = IF n = 0 THEN SheetOf(screen) ELSE Roll!Typed(g[n - 1], text[n])
  <2>1. CASE n = 0
    BY <1>7, <2>1
  <2>2. CASE n # 0
    <3>1. n = 1 /\ n - 1 = 0
      BY <2>2, SMT
    <3> QED BY <1>5, <1>6, <1>7, <3>1
  <2> QED BY <2>1, <2>2
<1>9. IsPrinted(g, Len(text), Roll!Sheet, text)
  BY <1>6, <1>7, <1>8, RollSheetIs DEF IsPrinted
<1>10. Roll!Printed(text) = g[Len(text)]
  BY <1>6, <1>9, PrintedIs
<1> QED BY <1>3, <1>4, <1>6, <1>7, <1>10 DEF text

\* Each text is one of those that Roll prints.
LEMMA EmittedNext ==
    ASSUME NEW text \in Output \cup Echoes \cup {<<Backspace>>}, Roll!Emit(text)
    PROVE  Roll!Next
  BY DEF Roll!Next

\* A full buffer warns once.
LEMMA WarnsOnce ==
    ASSUME NEW s, s.readPosition \in 0 .. Size
    PROVE  Warnings(s) \in {<<>>, Warning}
<1>1. Warning \in Seq(Quiet) /\ Size \in Nat
  BY WarningIsQuiet, InputAssumption
<1>2. <<>> \o Warning = Warning /\ Warning \o <<>> = Warning
  BY <1>1, ConcatEmptySeq
<1>3. <<>> \o <<>> = <<>>
  BY EmptySeq, ConcatEmptySeq
<1>4. s.writePosition = Size => s.writePosition # s.readPosition - 1
  BY <1>1, SMT
<1>5. CASE s.writePosition = Size
  BY <1>2, <1>4, <1>5 DEF Warnings
<1>6. CASE s.writePosition # Size /\ s.writePosition = s.readPosition - 1
  BY <1>2, <1>6 DEF Warnings
<1>7. CASE s.writePosition # Size /\ s.writePosition # s.readPosition - 1
  BY <1>3, <1>7 DEF Warnings
<1> QED BY <1>5, <1>6, <1>7

\* A key, ...
LEMMA TypedPaper ==
    ASSUME DevicesInv, CursorOnScreen, DevicesInv', CursorOnScreen',
           NEW c \in Char \cup {Newline}, Typed(c)
    PROVE  Roll!Next
<1>1. PICK s : s = writeChar(input, c)
  OBVIOUS
<1>2. PICK text : text = IF c \in {Newline, Space} THEN Warnings(s) \o <<c>>
                         ELSE <<c>> \o Warnings(s)
  OBVIOUS
<1>3. input' = s /\ screen' = kprintf(screen, text)
  BY <1>1, <1>2 DEF Typed
<1>4. Len(text) \in Nat /\ \A k \in 1 .. Len(text) : text[k] # Backspace
  <2>1. text \in {Warnings(s) \o <<c>>, <<c>> \o Warnings(s)}
    BY <1>2
  <2> QED BY <2>1, QuietText
<1>5. text \in Echoes
  <2>1. s.readPosition \in 0 .. Size
    BY <1>3 DEF DevicesInv, BufferInv
  <2>2. Warnings(s) \in {<<>>, Warning}
    BY <2>1, WarnsOnce
  <2>3. PICK w : w = Warnings(s)
    OBVIOUS
  <2>4. PICK one : one = <<c>>
    OBVIOUS
  <2>5. one \in Seq({c}) /\ <<>> \o one = one /\ one \o <<>> = one
    <3>1. one \in Seq({c})
      BY <2>4
    <3> QED BY <3>1, ConcatEmptySeq
  <2>6. w = <<>> => text = one
    BY <1>2, <2>3, <2>4, <2>5
  <2>7. CASE w = <<>>
    BY <2>4, <2>6, <2>7 DEF Echoes, Char
  <2>8. CASE w = Warning /\ c \in {Newline, Space}
    <3>1. text = Warning \o <<c>>
      BY <1>2, <2>3, <2>8
    <3> QED BY <2>8, <3>1 DEF Echoes
  <2>9. CASE w = Warning /\ c \notin {Newline, Space}
    <3>1. text = <<c>> \o Warning /\ c \in Key
      BY <1>2, <2>3, <2>9 DEF Char
    <3> QED BY <3>1 DEF Echoes
  <2> QED BY <2>2, <2>3, <2>7, <2>8, <2>9
<1>6. PICK f : IsShown(f, Len(text), screen, text) /\ kprintf(screen, text) = f[Len(text)]
  BY <1>4, TextIsShown
<1>7. IsStringShown(f, Len(text), screen, text)
  BY <1>4, <1>6, NoStepBack
<1>8. Roll!Printed(text) = SheetOf(screen')
  BY <1>3, <1>4, <1>6, <1>7, TextPrinted
<1>9. text # <<Backspace>>
  <2>1. Len(<<Backspace>>) = 1 /\ <<Backspace>>[1] = Backspace /\ 1 \in 1 .. 1
    BY SMT
  <2> QED BY <1>4, <2>1
<1>10. Roll!Emit(text)
  BY <1>8, <1>9, Emitted
<1> QED BY <1>5, <1>10, EmittedNext

\* ... a program ...
LEMMA PrintPaper ==
    ASSUME PlainOutput, DevicesInv, CursorOnScreen, DevicesInv', CursorOnScreen',
           NEW text \in Output, writeFile(text)
    PROVE  Roll!Next
<1>1. screen' = kprintfString(screen, text)
  BY DEF writeFile
<1>2. Len(text) \in Nat /\ \A k \in 1 .. Len(text) : text[k] # Backspace
  <2>1. text \in Seq(STRING)
    BY InputAssumption
  <2>2. Len(text) \in Nat /\ DOMAIN text = 1 .. Len(text)
    BY <2>1, LenProperties
  <2> QED BY <2>2 DEF PlainOutput
<1>3. PICK f : IsStringShown(f, Len(text), screen, text) /\ kprintfString(screen, text) = f[Len(text)]
  BY <1>2, StringIsShown
<1>4. Roll!Printed(text) = SheetOf(screen')
  BY <1>1, <1>2, <1>3, TextPrinted
<1>5. text # <<Backspace>>
  <2>1. Len(<<Backspace>>) = 1 /\ <<Backspace>>[1] = Backspace /\ 1 \in 1 .. 1
    BY SMT
  <2> QED BY <1>2, <2>1
<1>6. Roll!Emit(text)
  BY <1>4, <1>5, Emitted
<1> QED BY <1>6, EmittedNext

\* ... and a backspace print on the paper.
LEMMA ErasePaper ==
    ASSUME DevicesInv, CursorOnScreen, DevicesInv', CursorOnScreen', Erase
    PROVE  Roll!Next \/ screen' = screen
<1>1. CASE screen' = kprintf(screen, <<Backspace>>)
  <2>1. screen' = StepBack(screen)
    BY <1>1, OneShown DEF Format, Backspace, Newline, Return
  <2>2. StepBack(screen).line_adr >= 0
    BY <2>1 DEF CursorOnScreen
  <2>3. /\ SheetOf(screen).above # <<>> \/ SheetOf(screen).line # <<>>
        /\ Roll!Printed(<<Backspace>>) = SheetOf(screen')
    BY <2>1, <2>2, BackspacePrinted
  <2>4. Roll!Emit(<<Backspace>>)
    BY <2>3, Emitted
  <2> QED BY <2>4, EmittedNext
<1>2. CASE screen' # kprintf(screen, <<Backspace>>)
  BY <1>2 DEF Erase
<1> QED BY <1>1, <1>2

\* Each step prints on the paper or leaves it alone.
LEMMA PaperStep ==
    ASSUME PlainOutput, DevicesInv, CursorOnScreen, DevicesInv', CursorOnScreen', [Next]_vars
    PROVE  [Roll!Next]_Roll!paperVars
<1>1. ASSUME screen' = screen PROVE UNCHANGED Roll!paperVars
  BY <1>1 DEF Roll!paperVars, Row, Shown
<1>2. ASSUME NEW c \in {Newline, Space}, KeyText(c) PROVE Roll!Next
  <2>1. c \in Char \cup {Newline} /\ Typed(c)
    BY <1>2 DEF KeyText, Char
  <2> QED BY <2>1, TypedPaper
<1>3. ASSUME NEW c \in Key, KeyDefault(c) PROVE Roll!Next \/ screen' = screen
  <2>1. c \in Char \cup {Newline}
    BY DEF Char
  <2>2. Typed(c) \/ Erase \/ screen' = screen
    BY <1>3 DEF KeyDefault, vars, screenVars
  <2> QED BY <2>1, <2>2, TypedPaper, ErasePaper
<1>4. ASSUME NEW text \in Output, writeFile(text) PROVE Roll!Next
  BY <1>4, PrintPaper
<1>5. ASSUME getchar PROVE screen' = screen
  BY <1>5 DEF getchar, screenVars
<1>6. ASSUME NEW k \in Modifier, ModifierDown(k) \/ ModifierUp(k)
      PROVE  screen' = screen
  BY <1>6 DEF ModifierDown, ModifierUp, screenVars
<1>7. ASSUME UNCHANGED vars PROVE screen' = screen
  BY <1>7 DEF vars, screenVars
<1> QED BY <1>1, <1>2, <1>3, <1>4, <1>5, <1>6, <1>7, ErasePaper DEF Next

\* The screen starts as a sheet without a line.
LEMMA PaperInit == Init => Roll!Init
<1> SUFFICES ASSUME Init PROVE Roll!Init
  OBVIOUS
<1>1. PICK row \in FirstRows : screen = ScreenAt(row)
  BY DEF Init
<1>2. row \in Nat /\ InRow(screen, row)
  BY <1>1, ScreenInit
<1>3. /\ screen.line_adr = row * Width /\ screen.v_line_count = row + 1
      /\ Width * row >= 0 /\ Width * row \in Int /\ Width \in Nat
  <2>1. screen.line_adr = row * Width /\ screen.v_line_count = row + 1
    BY <1>1 DEF ScreenAt
  <2> QED BY <1>2, <2>1, CursorIs
<1>4. screen.line_adr = Width * row
  BY <1>2, <1>3, SMT
<1>5. CursorOnScreen
  BY <1>3, <1>4 DEF CursorOnScreen
<1>6. RollLine = SheetOf(screen).line /\ RollLost = SheetOf(screen).lost
  BY <1>5, DevicesInit, RollIs DEF RollAgrees
<1>7. SheetOf(screen) = SheetAt(screen, row)
  BY <1>2, SheetOfIs
<1>8. SheetOf(screen).line = <<>>
  <2>1. Width * row - Width * row = 0 /\ 1 .. 0 = {}
    BY <1>3, SMT
  <2>2. SheetOf(screen).line = Cut(screen.cell, Width * row, Width * row)
    BY <1>4, <1>7, SheetFields
  <2>3. Cut(screen.cell, Width * row, Width * row) = <<>>
    BY <2>1 DEF Cut
  <2> QED BY <2>2, <2>3
<1>9. SheetOf(screen).lost = 0
  <2>1. (row + 1) - (row + 1) = 0
    BY <1>2, SMT
  <2> QED BY <1>3, <1>7, <2>1, SheetFields
<1> QED BY <1>6, <1>8, <1>9 DEF Roll!Init, RollLine, RollLost

\* For any screen, texts and keys: as long as backspaces do not take the cursor above the
\* first row, two pointers and a count of rows show the end of all that kprintf() has
\* printed, over the ends of rows, returns, scrolling and backspaces that go back over both.
THEOREM PaperImplemented == PlainOutput => (Spec /\ []CursorOnScreen => ImplementsPaper)
<1> SUFFICES ASSUME PlainOutput PROVE Spec /\ []CursorOnScreen => ImplementsPaper
  OBVIOUS
<1>1. Init => Roll!Init
  BY PaperInit
<1>2. DevicesInv /\ CursorOnScreen /\ DevicesInv' /\ CursorOnScreen' /\ [Next]_vars
        => [Roll!Next]_Roll!paperVars
  BY PaperStep
<1>3. Spec => []DevicesInv
  BY DevicesInvariant
<1> QED BY <1>1, <1>2, <1>3, PTL DEF Spec, ImplementsPaper, Roll!Spec

-------------------------------------------------------------------------------
(* The timer: slices, sleeps and alarms. *)

\* The two counters.  A second that ends with a slice leaves j at a full
\* slice and i at zero; from then on they advance together, and because a
\* second is longer than a slice, the second slice ends before it.
CountersInv ==
    /\ i \in Nat
    /\ i < TicksPerSecond
    /\ j \in Nat
    /\ j < 2 * TicksPerSlice
    /\ ranFor = j
    /\ j >= TicksPerSlice => i = j - TicksPerSlice

\* A multiple of m among 1 .. 2m is m or 2m.
LEMMA Multiple ==
    ASSUME NEW m \in Nat \ {0}, NEW n \in Nat, 1 <= n, n <= 2 * m
    PROVE  n % m = 0 <=> (n = m \/ n = 2 * m)
<1>1. n = m * (n \div m) + (n % m) /\ n % m \in 0 .. (m - 1) /\ n \div m \in Nat
  BY SMT
<1>2. CASE n < m
  <2>1. n \div m = 0
    BY <1>1, <1>2, SMT
  <2> QED BY <1>1, <1>2, <2>1, SMT
<1>3. CASE n >= m /\ n < 2 * m
  <2>1. n \div m = 1
    BY <1>1, <1>3, SMT
  <2> QED BY <1>1, <1>3, <2>1, SMT
<1>4. CASE n = 2 * m
  <2>1. n \div m = 2
    BY <1>1, <1>4, SMT
  <2> QED BY <1>1, <1>4, <2>1, SMT
<1> QED BY <1>2, <1>3, <1>4, SMT

-------------------------------------------------------------------------------
\* The tests of the timer interrupt in terms of the counters' ranges.
LEMMA SecondTest ==
    ASSUME CountersInv
    PROVE  AtSecond <=> i + 1 = TicksPerSecond
<1>1. TicksPerSecond \in Nat \ {0}
  BY TimerAssumption, SMT
<1>2. i + 1 \in Nat /\ 1 <= i + 1 /\ i + 1 <= TicksPerSecond
  BY <1>1, SMT DEF CountersInv
<1>3. (i + 1) % TicksPerSecond = 0 <=>
        (i + 1 = TicksPerSecond \/ i + 1 = 2 * TicksPerSecond)
  BY <1>1, <1>2, Multiple, SMT
<1> QED BY <1>1, <1>2, <1>3, SMT DEF AtSecond

\* The same of the second counter, up to two slices.
LEMMA SliceTest ==
    ASSUME CountersInv
    PROVE  AtSlice <=> (j + 1 = TicksPerSlice \/ j + 1 = 2 * TicksPerSlice)
<1>1. TicksPerSlice \in Nat \ {0}
  BY TimerAssumption, SMT
<1>2. j + 1 \in Nat /\ 1 <= j + 1 /\ j + 1 <= 2 * TicksPerSlice
  BY <1>1, SMT DEF CountersInv
<1> QED BY <1>1, <1>2, Multiple, SMT DEF AtSlice

\* The counters start in step, ...
LEMMA CountersInit == TimerInit => CountersInv
  BY TimerAssumption, SMT DEF TimerInit, CountersInv

\* ... and every interrupt keeps them so.
LEMMA CountersStep == CountersInv /\ [TimerNext]_timerVars => CountersInv'
<1> SUFFICES ASSUME CountersInv, [TimerNext]_timerVars
             PROVE  CountersInv'
  OBVIOUS
<1> USE TimerAssumption, SecondTest, SliceTest
<1>1. CASE TickSecond
  <2>1. j < TicksPerSlice
    BY <1>1, SMT DEF TickSecond, CountersInv
  <2> QED BY <1>1, <2>1, SMT DEF TickSecond, CountersInv
<1>2. CASE TickSlice
  BY <1>2, SMT DEF TickSlice, CountersInv
<1>3. CASE TickOnly
  <2>1. j + 1 # 2 * TicksPerSlice /\ j + 1 # TicksPerSlice /\ i + 1 # TicksPerSecond
    BY <1>3 DEF TickOnly
  <2> QED BY <1>3, <2>1, SMT DEF TickOnly, CountersInv
<1>4. CASE getCounter \/ setAlarmFP \/ (\E s \in Seconds : setSleep(s) \/ setAlarm(s))
  BY <1>4 DEF getCounter, setAlarmFP, setSleep, setAlarm, CountersInv
<1>5. CASE UNCHANGED timerVars
  BY <1>5 DEF timerVars, CountersInv
<1> QED BY <1>1, <1>2, <1>3, <1>4, <1>5 DEF TimerNext, Tick

\* No process runs for two full slices, whatever the rates: a second's tick
\* swallows the end of a slice at most once.
THEOREM SlicesAreBounded == TimerSpec => []SliceIsBounded
<1>1. CountersInv => SliceIsBounded
  BY DEF CountersInv, SliceIsBounded
<1> QED BY <1>1, CountersInit, CountersStep, PTL DEF TimerSpec

-------------------------------------------------------------------------------
\* Every alarm that counts has a handler, with what keeps the two fields
\* functions over the processes.
AlarmInv ==
    /\ runningThread \in Task
    /\ functionPointer \in [Task -> BOOLEAN]
    /\ currAlarmCount = [t \in Task |-> currAlarmCount[t]]
    /\ AlarmHasHandler

\* No alarm counts initially, ...
LEMMA AlarmInit == TimerInit => AlarmInv
  BY TimerAssumption, SMT DEF TimerInit, AlarmInv, AlarmHasHandler, Task

\* A count that is not running does not start by itself.
LEMMA AdvancedKeepsZero ==
    ASSUME NEW count, NEW t \in Task, Advanced(count)[t] >= 1
    PROVE  count[t] >= 1
  BY SMT DEF Advanced

\* The task that is switched to is one of the processes.
LEMMA NextIsTask == ASSUME runningThread \in Task PROVE NextThread \in Task
  BY TimerAssumption, SMT DEF Task, NextThread

\* ... and one is only set where a handler is, which is never taken away.
LEMMA AlarmStep == AlarmInv /\ [TimerNext]_timerVars => AlarmInv'
<1> SUFFICES ASSUME AlarmInv, [TimerNext]_timerVars
             PROVE  AlarmInv'
  OBVIOUS
<1>1. CASE TickSecond
  <2>1. runningThread' \in Task /\ functionPointer' \in [Task -> BOOLEAN]
    BY <1>1 DEF TickSecond, AlarmInv
  <2>2. currAlarmCount' = [t \in Task |-> currAlarmCount'[t]]
    BY <1>1 DEF TickSecond, Advanced
  <2>3. AlarmHasHandler'
    BY <1>1, AdvancedKeepsZero DEF TickSecond, AlarmInv, AlarmHasHandler
  <2> QED BY <2>1, <2>2, <2>3 DEF AlarmInv
<1>2. CASE TickSlice
  <2>1. NextThread \in Task
    BY NextIsTask DEF AlarmInv
  <2>2. CASE Due(NextThread)
    <3>1. /\ runningThread' = NextThread
          /\ functionPointer' = [functionPointer EXCEPT ![NextThread] = FALSE]
          /\ currAlarmCount' = [currAlarmCount EXCEPT ![NextThread] = 0]
      BY <1>2, <2>2 DEF TickSlice
    <3>2. functionPointer' \in [Task -> BOOLEAN]
      BY <3>1 DEF AlarmInv
    <3>3. currAlarmCount' = [t \in Task |-> IF t = NextThread THEN 0 ELSE currAlarmCount[t]]
      BY <3>1, SMT DEF AlarmInv
    <3>4. ASSUME NEW t \in Task, currAlarmCount'[t] >= 1
          PROVE  functionPointer'[t]
      <4>1. t # NextThread /\ currAlarmCount[t] >= 1
        BY <3>3, <3>4, SMT
      <4>2. functionPointer'[t] = functionPointer[t]
        BY <3>1, <4>1 DEF AlarmInv
      <4> QED BY <4>1, <4>2 DEF AlarmInv, AlarmHasHandler
    <3> QED BY <2>1, <3>1, <3>2, <3>3, <3>4 DEF AlarmInv, AlarmHasHandler
  <2>3. CASE ~Due(NextThread)
    BY <1>2, <2>1, <2>3 DEF TickSlice, AlarmInv, AlarmHasHandler
  <2> QED BY <2>2, <2>3
<1>3. CASE TickOnly
  BY <1>3 DEF TickOnly, AlarmInv, AlarmHasHandler
<1>4. CASE getCounter
  BY <1>4 DEF getCounter, alarms, AlarmInv, AlarmHasHandler
<1>5. CASE setAlarmFP
  BY <1>5 DEF setAlarmFP, AlarmInv, AlarmHasHandler
<1>6. ASSUME NEW s \in Seconds, setSleep(s)
      PROVE  AlarmInv'
  BY <1>6 DEF setSleep, alarms, AlarmInv, AlarmHasHandler
<1>7. ASSUME NEW s \in Seconds, setAlarm(s)
      PROVE  AlarmInv'
  BY <1>7 DEF setAlarm, AlarmInv, AlarmHasHandler
<1>8. CASE UNCHANGED timerVars
  BY <1>8 DEF timerVars, alarms, AlarmInv, AlarmHasHandler
<1> QED BY <1>1, <1>2, <1>3, <1>4, <1>5, <1>6, <1>7, <1>8 DEF TimerNext, Tick

\* An alarm never goes off without a function to jump to, for any number of
\* processes and any order of signal(), alarm() and switches.
THEOREM AlarmsHaveHandlers == TimerSpec => []AlarmHasHandler
<1>1. AlarmInv => AlarmHasHandler
  BY DEF AlarmInv
<1> QED BY <1>1, AlarmInit, AlarmStep, PTL DEF TimerSpec
-------------------------------------------------------------------------------
\* The highest argument is one of them, so the bounds are numbers.
LEMMA MaxSecondsIsMax ==
    MaxSeconds \in Nat /\ \A s \in Seconds \cup {0} : s <= MaxSeconds
<1>1. \E s \in Seconds \cup {0} : \A r \in Seconds : r <= s
  BY TimerAssumption
<1>2. MaxSeconds \in Seconds \cup {0} /\ \A r \in Seconds : r <= MaxSeconds
  BY <1>1 DEF MaxSeconds
<1> QED BY <1>2, TimerAssumption, SMT

\* Seconds as ticks.
Ticks(n) == n * TicksPerSecond

\* Ticks is monotonic, and a second more is TicksPerSecond ticks more.
LEMMA TicksGrow ==
    ASSUME NEW m \in Int, NEW n \in Int, m <= n
    PROVE  Ticks(m) <= Ticks(n) /\ Ticks(n) \in Int
<1>1. TicksPerSecond \in Nat
  BY TimerAssumption
<1>2. m * TicksPerSecond <= n * TicksPerSecond
  BY <1>1, SMT
<1> QED BY <1>1, <1>2, SMT DEF Ticks

\* One second more is TicksPerSecond ticks more.
LEMMA NextSecond ==
    ASSUME NEW m \in Int
    PROVE  Ticks(m + 1) = Ticks(m) + TicksPerSecond /\ Ticks(m) \in Int
<1>1. TicksPerSecond \in Nat
  BY TimerAssumption
<1> QED BY <1>1, SMT DEF Ticks

\* The bounds of the counts and histories, in seconds and in ticks.
LEMMA Limits == MaxCount \in Nat /\ MaxCount >= 2 /\ MaxTicks \in Nat /\ MaxTicks = Ticks(MaxCount)
<1>1. MaxCount \in Nat /\ MaxCount >= 2 /\ TicksPerSecond \in Nat
  BY MaxSecondsIsMax, TimerAssumption, SMT DEF MaxCount
<1> QED BY <1>1, SMT DEF MaxTicks, Ticks

\* A count that has gone over n full seconds is as old as they are, and as old
\* as the second that runs: history h of count c, with k ticks of this second.
Old(c, h, k) == c >= 2 => h = MaxTicks \/ h >= Ticks(c - 2) + 1 + k

\* Counts and histories are numbers that belong together in this way.
CountInv(count, history) ==
    /\ count \in [Task -> Nat]
    /\ history \in [Task -> Nat]
    /\ \A t \in Task : Old(count[t], history[t], i)

\* Both the counts of sleeps and those of alarms are as old as they say.
EarlyInv ==
    /\ CountersInv
    /\ runningThread \in Task
    /\ expectedSleepCount \in [Task -> Seconds \cup {0}]
    /\ expectedAlarmCount \in [Task -> Seconds \cup {0}]
    /\ CountInv(currSleepCount, sleptFor)
    /\ CountInv(currAlarmCount, armedFor)

\* The tick of a second adds one to the count and ends TicksPerSecond ticks.
LEMMA OldAtSecond ==
    ASSUME NEW c \in Nat, NEW h \in Nat, c >= 1, Old(c, h, TicksPerSecond - 1)
    PROVE  Old(UpTo(c + 1, MaxCount), UpTo(h + 1, MaxTicks), 0)
<1> DEFINE d == UpTo(c + 1, MaxCount)
<1>1. d \in Nat /\ d >= 2 /\ d <= c + 1
  BY Limits, SMT DEF UpTo
<1> HIDE DEF d
<1>2. Ticks(d - 2) <= Ticks(c - 1) /\ Ticks(d - 2) \in Int /\ Ticks(c - 1) \in Int
  BY <1>1, TicksGrow, SMT
<1>3. Ticks(c - 1) = Ticks(c - 2) + TicksPerSecond /\ Ticks(c - 2) \in Int
  <2>1. c - 2 \in Int /\ (c - 2) + 1 = c - 1
    BY SMT
  <2> QED BY <2>1, NextSecond
<1>4. TicksPerSecond \in Nat /\ MaxTicks \in Nat
  BY TimerAssumption, Limits
<1>5. CASE h = MaxTicks \/ h + 1 > MaxTicks
  BY <1>4, <1>5, SMT DEF Old, UpTo
<1>6. CASE h + 1 <= MaxTicks
  <2>1. UpTo(h + 1, MaxTicks) = h + 1
    BY <1>4, <1>6, SMT DEF UpTo
  <2>2. CASE c = 1
    <3>1. d = 2
      BY <1>1, <2>2, SMT
    <3>2. Ticks(0) = 0
      BY <1>4, SMT DEF Ticks
    <3> QED BY <2>1, <3>1, <3>2, SMT DEF Old, d
  <2>3. CASE c >= 2
    <3>1. h >= Ticks(c - 2) + 1 + (TicksPerSecond - 1) \/ h = MaxTicks
      BY <2>3 DEF Old
    <3>2. h + 1 >= Ticks(d - 2) + 1 + 0
      BY <1>2, <1>3, <1>4, <1>6, <3>1, SMT
    <3> QED BY <2>1, <3>2 DEF Old, d
  <2> QED BY <2>2, <2>3, SMT
<1> QED BY <1>4, <1>5, <1>6, SMT

\* Any other tick only ages.
LEMMA OldAtTick ==
    ASSUME NEW c \in Nat, NEW h \in Nat, NEW k \in Nat, Old(c, h, k)
    PROVE  Old(c, UpTo(h + 1, MaxTicks), k + 1)
<1>1. MaxTicks \in Nat
  BY Limits
<1>2. c >= 2 => Ticks(c - 2) \in Int
  BY NextSecond, SMT
<1> QED BY <1>1, <1>2, SMT DEF Old, UpTo

\* The count and the age of each process at a second's tick.
LEMMA CountsAtSecond ==
    ASSUME NEW count, NEW history, CountInv(count, history), i = TicksPerSecond - 1, i' = 0
    PROVE  /\ Advanced(count) \in [Task -> Nat] /\ Aged(history, count) \in [Task -> Nat]
           /\ \A t \in Task : Old(Advanced(count)[t], Aged(history, count)[t], i')
<1>1. MaxCount \in Nat /\ MaxTicks \in Nat
  BY Limits
<1>2. \A t \in Task : count[t] \in Nat /\ history[t] \in Nat /\ Old(count[t], history[t], i)
  BY DEF CountInv
<1>3. Advanced(count) \in [Task -> Nat] /\ Aged(history, count) \in [Task -> Nat]
  BY <1>1, <1>2, SMT DEF Advanced, Aged, UpTo
<1>4. ASSUME NEW t \in Task
      PROVE  Old(Advanced(count)[t], Aged(history, count)[t], 0)
  <2>1. CASE count[t] >= 1
    <3>1. Old(UpTo(count[t] + 1, MaxCount), UpTo(history[t] + 1, MaxTicks), 0)
      BY <1>2, <2>1, OldAtSecond
    <3> QED BY <2>1, <3>1 DEF Advanced, Aged
  <2>2. CASE ~(count[t] >= 1)
    BY <2>2, SMT DEF Advanced, Old
  <2> QED BY <2>1, <2>2
<1> QED BY <1>3, <1>4

\* The count and the age of each process at any other tick, which may stop counts.
LEMMA CountsAtTick ==
    ASSUME NEW count, NEW history, CountInv(count, history), i \in Nat, i' = i + 1,
           NEW next \in [Task -> Nat], \A t \in Task : next[t] \in {count[t], 0}
    PROVE  /\ Aged(history, count) \in [Task -> Nat]
           /\ \A t \in Task : Old(next[t], Aged(history, count)[t], i')
<1>1. MaxTicks \in Nat
  BY Limits
<1>2. \A t \in Task : count[t] \in Nat /\ history[t] \in Nat /\ Old(count[t], history[t], i)
  BY DEF CountInv
<1>3. Aged(history, count) \in [Task -> Nat]
  BY <1>1, <1>2, SMT DEF Aged, UpTo
<1>4. ASSUME NEW t \in Task
      PROVE  Old(next[t], Aged(history, count)[t], i + 1)
  <2>1. CASE next[t] # 0
    <3>1. next[t] = count[t] /\ count[t] >= 1
      BY <1>2, <2>1, SMT
    <3>2. Old(count[t], UpTo(history[t] + 1, MaxTicks), i + 1)
      BY <1>2, OldAtTick
    <3> QED BY <3>1, <3>2 DEF Aged
  <2>2. CASE next[t] = 0
    BY <2>2, SMT DEF Old
  <2> QED BY <2>1, <2>2
<1> QED BY <1>3, <1>4

\* The inductive invariant of the wake-ups: initially, and over every step.
LEMMA EarlyInit == TimerInit => EarlyInv
<1> SUFFICES ASSUME TimerInit PROVE EarlyInv
  OBVIOUS
<1>1. CountersInv
  BY CountersInit
<1>2. runningThread \in Task
  BY TimerAssumption, SMT DEF TimerInit, Task
<1> QED BY <1>1, <1>2, SMT DEF TimerInit, EarlyInv, CountInv, Old

LEMMA EarlyStep == EarlyInv /\ [TimerNext]_timerVars => EarlyInv'
<1> SUFFICES ASSUME EarlyInv, [TimerNext]_timerVars
             PROVE  EarlyInv'
  OBVIOUS
<1>1. CountersInv'
  BY CountersStep DEF EarlyInv
<1>2. /\ i \in Nat /\ runningThread \in Task /\ NextThread \in Task
      /\ expectedSleepCount \in [Task -> Seconds \cup {0}]
      /\ expectedAlarmCount \in [Task -> Seconds \cup {0}]
      /\ CountInv(currSleepCount, sleptFor) /\ CountInv(currAlarmCount, armedFor)
  BY NextIsTask DEF EarlyInv, CountersInv
<1>3. /\ currSleepCount \in [Task -> Nat] /\ sleptFor \in [Task -> Nat]
      /\ currAlarmCount \in [Task -> Nat] /\ armedFor \in [Task -> Nat]
  BY <1>2 DEF CountInv
<1>4. CASE TickSecond
  <2>1. i = TicksPerSecond - 1 /\ i' = 0
    BY <1>4, SecondTest, TimerAssumption, SMT DEF TickSecond, EarlyInv, CountersInv
  <2>2. /\ currSleepCount' = Advanced(currSleepCount) /\ sleptFor' = Aged(sleptFor, currSleepCount)
        /\ currAlarmCount' = Advanced(currAlarmCount) /\ armedFor' = Aged(armedFor, currAlarmCount)
        /\ UNCHANGED <<runningThread, expectedSleepCount, expectedAlarmCount>>
    BY <1>4 DEF TickSecond
  <2>3. CountInv(currSleepCount, sleptFor)'
    BY <1>2, <2>1, <2>2, CountsAtSecond DEF CountInv
  <2>4. CountInv(currAlarmCount, armedFor)'
    BY <1>2, <2>1, <2>2, CountsAtSecond DEF CountInv
  <2> QED BY <1>1, <1>2, <2>2, <2>3, <2>4 DEF EarlyInv
<1>5. CASE TickSlice \/ TickOnly
  <2>1. /\ i' = i + 1 /\ currSleepCount' = currSleepCount
        /\ sleptFor' = Aged(sleptFor, currSleepCount) /\ armedFor' = Aged(armedFor, currAlarmCount)
        /\ runningThread' \in Task /\ expectedSleepCount' = expectedSleepCount
    BY <1>2, <1>5 DEF TickSlice, TickOnly
  <2>2. /\ currAlarmCount' \in [Task -> Nat]
        /\ \A t \in Task : currAlarmCount'[t] \in {currAlarmCount[t], 0}
        /\ expectedAlarmCount' \in [Task -> Seconds \cup {0}]
    BY <1>2, <1>3, <1>5 DEF TickSlice, TickOnly
  <2>3. \A t \in Task : currSleepCount'[t] \in {currSleepCount[t], 0}
    BY <2>1
  <2>4. CountInv(currSleepCount, sleptFor)'
    BY <1>2, <1>3, <2>1, <2>3, CountsAtTick DEF CountInv
  <2>5. CountInv(currAlarmCount, armedFor)'
    BY <1>2, <2>1, <2>2, CountsAtTick DEF CountInv
  <2> QED BY <1>1, <1>2, <2>1, <2>2, <2>4, <2>5 DEF EarlyInv
<1>6. CASE getCounter \/ setAlarmFP \/ (\E s \in Seconds : setSleep(s) \/ setAlarm(s))
  <2>1. /\ i' = i /\ runningThread' = runningThread
        /\ expectedSleepCount' \in [Task -> Seconds \cup {0}]
        /\ expectedAlarmCount' \in [Task -> Seconds \cup {0}]
    BY <1>2, <1>6 DEF getCounter, setAlarmFP, setSleep, setAlarm, alarms, sleeps
  <2>2. /\ currSleepCount' \in [Task -> Nat] /\ sleptFor' \in [Task -> Nat]
        /\ \A t \in Task : \/ currSleepCount'[t] \in {0, 1}
                           \/ currSleepCount'[t] = currSleepCount[t] /\ sleptFor'[t] = sleptFor[t]
    BY <1>2, <1>3, <1>6 DEF getCounter, setAlarmFP, setSleep, setAlarm, sleeps
  <2>3. /\ currAlarmCount' \in [Task -> Nat] /\ armedFor' \in [Task -> Nat]
        /\ \A t \in Task : \/ currAlarmCount'[t] \in {0, 1}
                           \/ currAlarmCount'[t] = currAlarmCount[t] /\ armedFor'[t] = armedFor[t]
    BY <1>2, <1>3, <1>6 DEF getCounter, setAlarmFP, setSleep, setAlarm, alarms
  <2>4. CountInv(currSleepCount, sleptFor)'
    <3>1. \A t \in Task : Old(currSleepCount'[t], sleptFor'[t], i')
      <4> TAKE t \in Task
      <4> QED BY <1>2, <2>1, <2>2, SMT DEF CountInv, Old
    <3> QED BY <2>2, <3>1 DEF CountInv
  <2>5. CountInv(currAlarmCount, armedFor)'
    <3>1. \A t \in Task : Old(currAlarmCount'[t], armedFor'[t], i')
      <4> TAKE t \in Task
      <4> QED BY <1>2, <2>1, <2>3, SMT DEF CountInv, Old
    <3> QED BY <2>3, <3>1 DEF CountInv
  <2> QED BY <1>1, <1>2, <2>1, <2>4, <2>5 DEF EarlyInv
<1>7. CASE UNCHANGED timerVars
  BY <1>1, <1>7 DEF timerVars, sleeps, alarms, EarlyInv, CountInv
<1> QED BY <1>4, <1>5, <1>6, <1>7 DEF TimerNext, Tick

\* The tick of a second stops no count.
LEMMA AdvancedGoesOn ==
    ASSUME NEW count \in [Task -> Nat], NEW t \in Task, count[t] >= 1
    PROVE  Advanced(count)[t] # 0
  BY Limits, SMT DEF Advanced, UpTo

\* A count above the expected one is of a call that is old enough.
LEMMA LateEnough ==
    ASSUME NEW c \in Nat, NEW h \in Nat, NEW e \in Seconds \cup {0}, NEW k \in Nat,
           Old(c, h, k), c > e
    PROVE  h > (e - 1) * TicksPerSecond
<1>1. e \in Nat /\ e <= MaxSeconds /\ MaxSeconds \in Nat /\ TicksPerSecond \in Nat \ {0}
  BY MaxSecondsIsMax, TimerAssumption, SMT
<1>2. Ticks(e - 1) = (e - 1) * TicksPerSecond /\ Ticks(e - 1) \in Int
  BY <1>1, SMT DEF Ticks
<1>3. CASE c < 2
  <2>1. e = 0
    BY <1>1, <1>3, SMT
  <2> QED BY <1>1, <2>1, SMT
<1>4. CASE c >= 2 /\ h = MaxTicks
  <2>1. Ticks(e) <= Ticks(MaxCount) /\ Ticks(e) = Ticks(e - 1) + TicksPerSecond
    <3>1. e <= MaxCount /\ MaxCount \in Int /\ (e - 1) + 1 = e /\ e - 1 \in Int
      BY <1>1, SMT DEF MaxCount
    <3>2. Ticks(e) <= Ticks(MaxCount)
      BY <1>1, <3>1, TicksGrow
    <3>3. Ticks(e) = Ticks(e - 1) + TicksPerSecond
      BY <1>1, <3>1, NextSecond
    <3> QED BY <3>2, <3>3
  <2> QED BY <1>1, <1>2, <1>4, <2>1, Limits, SMT
<1>5. CASE c >= 2 /\ h # MaxTicks
  <2>1. h >= Ticks(c - 2) + 1 + k
    BY <1>5 DEF Old
  <2>2. Ticks(e - 1) <= Ticks(c - 2) /\ Ticks(c - 2) \in Int
    <3>1. e - 1 \in Int /\ c - 2 \in Int /\ e - 1 <= c - 2
      BY <1>1, SMT
    <3> QED BY <3>1, TicksGrow
  <2> QED BY <1>2, <2>1, <2>2, SMT
<1> QED BY <1>3, <1>4, <1>5, SMT

\* sleep(s) and the handler of alarm(s) come after more than s - 1 full seconds,
\* whichever tick of a second the call was made at, for any rates of the clock.
THEOREM NobodyWakesEarly == TimerSpec => NoneWakesEarly
<1> DEFINE InTime ==
      \A t \in Task :
        /\ Asleep(t) /\ currSleepCount'[t] = 0
               => sleptFor[t] > (expectedSleepCount[t] - 1) * TicksPerSecond
        /\ currAlarmCount[t] >= 1 /\ currAlarmCount'[t] = 0
               => armedFor[t] > (expectedAlarmCount[t] - 1) * TicksPerSecond
<1>1. EarlyInv /\ [TimerNext]_timerVars => [InTime]_timerVars
  <2> SUFFICES ASSUME EarlyInv, TimerNext, NEW t \in Task
               PROVE  /\ Asleep(t) /\ currSleepCount'[t] = 0
                            => sleptFor[t] > (expectedSleepCount[t] - 1) * TicksPerSecond
                      /\ currAlarmCount[t] >= 1 /\ currAlarmCount'[t] = 0
                            => armedFor[t] > (expectedAlarmCount[t] - 1) * TicksPerSecond
    OBVIOUS
  <2>1. /\ i \in Nat /\ currSleepCount \in [Task -> Nat] /\ sleptFor \in [Task -> Nat]
        /\ currAlarmCount \in [Task -> Nat] /\ armedFor \in [Task -> Nat]
        /\ expectedSleepCount[t] \in Seconds \cup {0}
        /\ expectedAlarmCount[t] \in Seconds \cup {0}
        /\ Old(currSleepCount[t], sleptFor[t], i) /\ Old(currAlarmCount[t], armedFor[t], i)
    BY DEF EarlyInv, CountersInv, CountInv
  <2>2. currSleepCount[t] > expectedSleepCount[t]
            => sleptFor[t] > (expectedSleepCount[t] - 1) * TicksPerSecond
    BY <2>1, LateEnough
  <2>3. currAlarmCount[t] > expectedAlarmCount[t]
            => armedFor[t] > (expectedAlarmCount[t] - 1) * TicksPerSecond
    BY <2>1, LateEnough
  <2>4. currSleepCount[t] >= 1 /\ currSleepCount'[t] = 0
            => currSleepCount[t] > expectedSleepCount[t]
    BY <2>1, AdvancedGoesOn DEF TimerNext, Tick, TickSecond, TickSlice, TickOnly, getCounter,
       setAlarmFP, setSleep, setAlarm, sleeps
  <2>5. currAlarmCount[t] >= 1 /\ currAlarmCount'[t] = 0
            => currAlarmCount[t] > expectedAlarmCount[t]
    BY <2>1, AdvancedGoesOn DEF TimerNext, Tick, TickSecond, TickSlice, TickOnly, getCounter,
       setAlarmFP, setSleep, setAlarm, alarms, Due
  <2> QED BY <2>2, <2>3, <2>4, <2>5 DEF Asleep
<1>2. EarlyInv /\ [TimerNext]_timerVars => EarlyInv'
  BY EarlyStep
<1> QED BY EarlyInit, <1>1, <1>2, PTL DEF TimerSpec, NoneWakesEarly
===============================================================================
