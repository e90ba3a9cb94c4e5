------------------------------- MODULE Terminal -------------------------------
(***************************************************************************)
(* What the keyboard and the standard input give the shell: a line can be  *)
(* edited until Enter, entered lines are read in their order, each once,   *)
(* without the spaces in front, and empty ones are passed over.  A key     *)
(* that writes a NUL ends a command, and so does one character more than   *)
(* fits; it is lost, and the rest of the line is the next command.         *)
(***************************************************************************)
EXTENDS Integers, Sequences, SequencesExt, FiniteSetsExt

CONSTANTS Char, Space, Nul, CommandLimit

VARIABLES line,     \* what is typed since the last Enter
          entered,  \* lines that are entered and not yet read
          command   \* the last line the shell took

terminalVars == <<line, entered, command>>

Trim(s) ==
    LET Solid == {k \in 1 .. Len(s) : s[k] \notin {Space, Nul}} IN
    IF Solid = {} THEN <<>> ELSE SubSeq(s, Min(Solid), Len(s))

\* The length of the command at the start of a line.
FirstPiece(s) ==
    Min({Len(s), CommandLimit + 1} \cup {k - 1 : k \in {k \in 1 .. Len(s) : s[k] = Nul}})

Init == line = <<>> /\ entered = <<>> /\ command = <<>>

Type ==
    \E c \in Char :
        /\ line' = Append(line, c)
        /\ UNCHANGED <<entered, command>>

Erase ==
    /\ line # <<>>
    /\ line' = Front(line)
    /\ UNCHANGED <<entered, command>>

Enter ==
    /\ line' = <<>>
    /\ entered' = Append(entered, Trim(line))
    /\ UNCHANGED command

Take ==
    /\ UNCHANGED line
    /\ entered # <<>>
    /\ LET whole == Head(entered)
           n == FirstPiece(whole)
       IN  /\ command' = IF whole = <<>> THEN command ELSE SubSeq(whole, 1, n)
           /\ entered' = IF n = Len(whole) THEN Tail(entered)
                         ELSE [entered EXCEPT ![1] = Trim(SubSeq(whole, n + 2, Len(whole)))]

Next == Type \/ Erase \/ Enter \/ Take

Spec == Init /\ [][Next]_terminalVars
===============================================================================
