------------------------------ MODULE Dictionary -------------------------------
(***************************************************************************)
(* What the environment is to the programs: each has values for names, and *)
(* a program it starts gets those that are handed on.  A new name is handed*)
(* on as long as the program has room for it, which grows with each        *)
(* generation, until names and room are more than the pages that a child   *)
(* is given: then the program can start no other.                          *)
(***************************************************************************)
EXTENDS Integers, FiniteSets, Sequences

CONSTANTS Proc, Shell, Name, Value, None,
          Covered, ShellCovered,  \* the pages that a program, and the shell, give a child
          ValueLimit            \* the characters of a value that are handed on

VARIABLES live,
          parent,   \* of a process that has not started its program yet
          dict, handed, room

dictionaryVars == <<live, parent, dict, handed, room>>

Cut(v) == IF Len(v) > ValueLimit THEN SubSeq(v, 1, ValueLimit) ELSE v
Pages(p) == IF p = Shell THEN ShellCovered ELSE Covered

Init ==
    /\ live = {Shell}
    /\ parent = [p \in Proc |-> None]
    /\ DOMAIN dict = Proc
    /\ DOMAIN dict[Shell] = Name
    /\ \A p \in Proc \ {Shell}, n \in Name : dict[p][n] = None
    /\ handed = [p \in Proc |-> {n \in Name : dict[p][n] # None}]
    /\ room = [p \in Proc |-> IF p = Shell THEN 1 ELSE 0]

\* Children that have not started their programs may see it.
Set(p, n, v) ==
    /\ p \in live /\ parent[p] = None
    /\ \E seen \in SUBSET {r \in Proc : parent[r] = p} :
        LET more == {r \in seen \cup {p} : dict[r][n] = None /\ room[r] > 0} IN
        /\ dict' = [r \in Proc |->
                        IF r \in seen \cup {p} THEN [dict[r] EXCEPT ![n] = v] ELSE dict[r]]
        /\ handed' = [r \in Proc |-> IF r \in more THEN handed[r] \cup {n} ELSE handed[r]]
        /\ room' = [r \in Proc |-> IF r \in more THEN room[r] - 1 ELSE room[r]]
    /\ UNCHANGED <<live, parent>>

\* The child has as many variables as there are pages for, and those that would be
\* handed on; or none is handed on, if they and the room are too many.
Fork(p, q) ==
    LET fits == Cardinality(handed[p]) + room[p] <= Pages(p)
        set == {n \in Name : dict[p][n] # None}
    IN  /\ p \in live /\ parent[p] = None
        /\ q \notin live
        /\ live' = live \cup {q}
        /\ parent' = [parent EXCEPT ![q] = p]
        /\ \E kept \in SUBSET set :
            /\ Cardinality(kept) =
                    IF Cardinality(set) <= Pages(p) THEN Cardinality(set) ELSE Pages(p)
            /\ fits => handed[p] \subseteq kept
            /\ dict' = [dict EXCEPT ![q] =
                        [n \in Name |-> IF n \in kept THEN dict[p][n] ELSE None]]
        /\ handed' = [handed EXCEPT ![q] = IF fits THEN handed[p] ELSE {}]
        /\ room' = [room EXCEPT ![q] = IF fits THEN room[p] ELSE 0]

Start(q) ==
    /\ q \in live /\ parent[q] # None
    /\ handed[q] # {} \/ room[q] > 0
    /\ parent' = [parent EXCEPT ![q] = None]
    /\ room' = [room EXCEPT ![q] = @ + 1]
    /\ dict' = [dict EXCEPT ![q] = [n \in Name |->
                    IF n \in handed[q] THEN Cut(dict[q][n]) ELSE None]]
    /\ UNCHANGED <<live, handed>>

End(q) ==
    /\ q \in live /\ parent[q] = None
    /\ \A r \in live : parent[r] # q
    /\ live' = live \ {q}
    /\ dict' = [dict EXCEPT ![q] = [n \in Name |-> None]]
    /\ handed' = [handed EXCEPT ![q] = {}]
    /\ room' = [room EXCEPT ![q] = 0]
    /\ UNCHANGED parent

Next ==
    \/ \E p \in Proc, n \in Name, v \in Value : Set(p, n, v)
    \/ \E p, q \in Proc : Fork(p, q)
    \/ \E q \in Proc : Start(q) \/ End(q)

Spec == Init /\ [][Next]_dictionaryVars
===============================================================================
