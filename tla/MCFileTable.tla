----------------------------- MODULE MCFileTable -----------------------------
(***************************************************************************)
(* An archive for TLC: a directory below a directory, with a file, and one *)
(* more of the same name in a directory below.                             *)
(***************************************************************************)
EXTENDS FileTable, TLC

CONSTANTS t1, t2, t3

ThreeTasks == {t1, t2, t3}
Others == Permutations({t2, t3})

SmallArchive == <<
    [name |-> <<"bin", "/">>, size |-> 0],
    [name |-> <<"bin", "/", "d", "/">>, size |-> 0],
    [name |-> <<"bin", "/", "d", "/", "f">>, size |-> 3],
    [name |-> <<"bin", "/", "d", "/", "d", "/">>, size |-> 0],
    [name |-> <<"bin", "/", "d", "/", "d", "/", "f">>, size |-> 1]>>

\* The paths go up from the root and from /bin/d; the file is found from there.
Files == {<<"..", "/", "d", "/", ".", "/", "f">>}
Directories == {<<"/">>, <<"/", "bin">>}
\* Found in the working directory, in two directories of a PATH, or in none.
Programs == {<<"d", "/", "f">>}
PATHs == {<< <<"/">>, <<"/", "bin", "/", "d", "/">>, <<"/", "bin">> >>, << <<"/">> >>}
\* The stack held zeros, or the rest of a longer PATH that was searched before.
Stacks == {<<Nul>>, <<"/", "bin", "/", "d", Nul, Nul>>}
Places == {<<"..", "/", "bin", "/", "d">>}
===============================================================================
