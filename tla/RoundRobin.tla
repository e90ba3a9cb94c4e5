------------------------------ MODULE RoundRobin ------------------------------
(***************************************************************************)
(* What the scheduler promises, in terms of process numbers only: the live *)
(* processes form a queue whose head is running, a new process runs next   *)
(* but one, a time slice moves the head to the back, and a process leaves  *)
(* the queue once.                                                         *)
(***************************************************************************)
EXTENDS Naturals, Sequences, SequencesExt

CONSTANT InitPid     \* the number of the first process, which never ends

VARIABLES queue,     \* live processes, the running one first
          exited,    \* processes that ps still lists as EXITED
          lastPid    \* numbers above this one were never given out

queueVars == <<queue, exited, lastPid>>

Place(q, p) == CHOOSE k \in 1 .. Len(q) : q[k] = p
Without(q, p) ==
    SubSeq(q, 1, Place(q, p) - 1) \o SubSeq(q, Place(q, p) + 1, Len(q))
\* The others, from the one after p on.
Behind(q, p) ==
    SubSeq(q, Place(q, p) + 1, Len(q)) \o SubSeq(q, 1, Place(q, p) - 1)

Init ==
    /\ queue = <<InitPid>>
    /\ exited = <<>>
    /\ lastPid = InitPid

Spawn ==
    /\ queue' = <<Head(queue), lastPid + 1>> \o Tail(queue)
    /\ lastPid' = lastPid + 1
    /\ UNCHANGED exited

\* exec changes the program of the running process, not its place.
Replace ==
    /\ lastPid' = lastPid + 1
    /\ UNCHANGED <<queue, exited>>

TimeSlice ==
    /\ queue' = Append(Tail(queue), Head(queue))
    /\ UNCHANGED <<exited, lastPid>>

\* The running process ends, with or without an entry among the exited.
End ==
    /\ Head(queue) # InitPid
    /\ queue' = Tail(queue)
    /\ exited' \in {exited, Append(exited, Head(queue))}
    /\ UNCHANGED lastPid

\* The running process ends another one and goes on.
EndOther ==
    \E p \in ToSet(Tail(queue)) \ {InitPid} :
        /\ queue' = Without(queue, p)
        /\ exited' = Append(exited, p)
        /\ UNCHANGED lastPid

\* The keyboard ends a process; the one behind it runs.
Interrupt ==
    \E p \in ToSet(queue) \ {InitPid} :
        /\ queue' = Behind(queue, p)
        /\ exited' = Append(exited, p)
        /\ UNCHANGED lastPid

Next == Spawn \/ Replace \/ TimeSlice \/ End \/ EndOther \/ Interrupt

Spec == Init /\ [][Next]_queueVars
===============================================================================
