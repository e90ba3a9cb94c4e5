---------------------------- MODULE PrivateMemory ----------------------------
(***************************************************************************)
(* What virtual memory promises to programs: each process has its own      *)
(* pages, a store changes one page of one process, fork gives the child    *)
(* the contents of its parent's pages that are listed, exec starts from    *)
(* the program's image.  Which pages malloc() and free() list is in Heap.  *)
(***************************************************************************)
CONSTANTS Process, Page, Value,
          NoPage,       \* the content of a page that is not there
          Zero,         \* the content of a page at its first use
          first,        \* the process that exists at the start
          FirstListed,  \* the pages that are listed for it
          Image,        \* the content of every page of a program that starts
          ImageListed   \* the pages that are listed for it

VARIABLES live,
          memory,       \* [Process -> [Page -> content]]
          listed        \* [Process -> set of pages], those in its areas

memoryVars == <<live, memory, listed>>

Nothing == [p \in Page |-> NoPage]

Init ==
    /\ live = {first}
    /\ memory = [t \in Process |-> IF t = first THEN Image ELSE Nothing]
    /\ listed = [t \in Process |-> IF t = first THEN FirstListed ELSE {}]

Inherited(t) == [p \in Page |-> IF p \in listed[t] THEN memory[t][p] ELSE NoPage]

Fork ==
    \E t \in live, child \in Process \ live :
        /\ live' = live \cup {child}
        /\ memory' = [memory EXCEPT ![child] = Inherited(t)]
        /\ listed' = [listed EXCEPT ![child] = listed[t]]

Store ==
    /\ UNCHANGED <<live, listed>>
    /\ \E t \in live, p \in Page, v \in Value :
        /\ memory[t][p] # NoPage
        /\ memory' = [memory EXCEPT ![t][p] = v]

FirstUse ==
    /\ UNCHANGED <<live, listed>>
    /\ \E t \in live : \E p \in listed[t] :
        /\ memory[t][p] = NoPage
        /\ memory' = [memory EXCEPT ![t][p] = Zero]

\* malloc() and free() change nothing that is stored.
Regroup ==
    /\ UNCHANGED <<live, memory>>
    /\ \E t \in live, pages \in SUBSET Page : listed' = [listed EXCEPT ![t] = pages]

Exec ==
    \E t \in live, new \in Process \ live :
        /\ live' = (live \ {t}) \cup {new}
        /\ memory' = [memory EXCEPT ![t] = Nothing, ![new] = Image]
        /\ listed' = [listed EXCEPT ![t] = {}, ![new] = ImageListed]

End ==
    \E t \in live :
        /\ live' = live \ {t}
        /\ memory' = [memory EXCEPT ![t] = Nothing]
        /\ listed' = [listed EXCEPT ![t] = {}]

Next == Fork \/ Store \/ FirstUse \/ Regroup \/ Exec \/ End

Spec == Init /\ [][Next]_memoryVars
===============================================================================
