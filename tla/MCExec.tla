-------------------------------- MODULE MCExec --------------------------------
(***************************************************************************)
(* Exec for TLC: a shell, and programs of two files of three pages, one    *)
(* with a segment of more than a page, one with a segment that is not in   *)
(* the file at all.                                                        *)
(***************************************************************************)
EXTENDS Exec

CONSTANTS PATH, PWD, PS1

Segment(page, offset, filesz, memsz) ==
    [page |-> page, offset |-> offset, filesz |-> filesz, memsz |-> memsz]

cat == <<"c", "t">>
ls == <<"l", "s">>

Files == cat :> <<Segment(0, 0, 4, 4), Segment(2, 4, 1, 2)>>
      @@ ls :> <<Segment(0, 0, 2, 2), Segment(1, 3, 3, 3), Segment(2, 6, 0, 2)>>

\* The words of the first line just fit; those of the second one fill the page
\* before the name; the name of the third one is not found; the fourth one has as
\* many words as the array.
Commands == {<<"l", "s", " ", "b">>,
             <<"c", "t", " ", " ", "b", "c", "d", "e", " ", "&", " ">>,
             <<"l", " ", "s">>,
             <<"l", "s", " ", "b", " ", "c", " ", "d", " ", "e", " ", "f", " ", "&">>}

\* exec() keeps the first character only of the value that the shell starts with.
Values == {<<"w">>}
ShellVariables == <<Entry(PATH, <<"v", "w">>)>>

Symmetry == Permutations(Proc \ {Shell}) \cup Permutations({PWD, PS1})
===============================================================================
