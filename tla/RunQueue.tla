------------------------------- MODULE RunQueue -------------------------------
(***************************************************************************)
(* Processes and the queues they are on (src/sys/task.c): the circular run *)
(* queue linked through Task.next, the deleteQueue linked through the same *)
(* field, the process numbers, and the calls and interrupts that move a    *)
(* Task structure from one place to another.                               *)
(*                                                                         *)
(* Every kernel entry masks interrupts until it returns to user mode (the  *)
(* system calls through SFMASK, the gates of the IDT by their type), so a  *)
(* handler is one step; steps of different processes interleave at the     *)
(* timer and keyboard interrupts between them.                             *)
(***************************************************************************)
EXTENDS Integers, FiniteSets, Sequences

CONSTANTS
    Task,            \* the Task structures kmalloc() can still provide
    sbush,           \* the structure initUserProcess() builds for /bin/sbush
    NULL,
    UnknownCommands, \* whether a process may exec a file that is not there
    WaitPids         \* bound: the pids that programs call waitpid() with

ASSUME TaskAssumption ==
    /\ IsFiniteSet(Task)
    /\ sbush \in Task
    /\ NULL \notin Task
    /\ UnknownCommands \in BOOLEAN
    /\ WaitPids \subseteq Nat \cup {-1}

VARIABLES
    next,            \* Task.next
    runningThread,
    deleteQueue,
    pid_t, ppid_t,   \* 0 in a structure that is not allocated yet
    state,           \* 1 while the process is alive
    pidCount,
    foregroundPid,   \* what Ctrl-C ends; 0 when nothing
    waitFor          \* the pid the program is in a waitpid() loop for

queues == <<next, runningThread, deleteQueue>>
vars == <<next, runningThread, deleteQueue, pid_t, ppid_t, state, pidCount,
          foregroundPid, waitFor>>

NotWaiting == 0
AnyChild == -1       \* the pid of waitpid(-1, ...)

-------------------------------------------------------------------------------
\* The structures met when following next from h: the smallest set around h
\* that no link leaves.
Closed(S) == \A u \in S : next[u] \in S \cup {NULL}
ReachFrom(h) ==
    LET Around == {S \in {R \cup {h} : R \in SUBSET (Task \ {h})} : Closed(S)}
    IN  {t \in Task : \A S \in Around : t \in S}

Ring == ReachFrom(runningThread)
Dead == IF deleteQueue = NULL THEN {} ELSE ReachFrom(deleteQueue)
Unused == {t \in Task : pid_t[t] = 0}

\* What the loops "while(temp->next != t) temp = temp->next" find.
Pred(t) == CHOOSE u \in Ring : next[u] = t
\* The end of the deleteQueue.
LastDead == CHOOSE u \in Dead : next[u] = NULL

LivePids == {pid_t[t] : t \in Ring}
WithPid(p) == {t \in Ring : pid_t[t] = p}

\* Mutant: the link of the appended structure is not cut.
addToDeleteQueueKeepsNext(t, link) ==
    /\ deleteQueue' = IF deleteQueue = NULL THEN t ELSE deleteQueue
    /\ next' = IF deleteQueue = NULL THEN link ELSE [link EXCEPT ![LastDead] = t]

\* Take t out of the run queue and append it to the deleteQueue.
addToDeleteQueue(t, link) ==
    /\ deleteQueue' = IF deleteQueue = NULL THEN t ELSE deleteQueue
    /\ next' = IF deleteQueue = NULL
                 THEN [link EXCEPT ![t] = NULL]
                 ELSE [link EXCEPT ![LastDead] = t, ![t] = NULL]
\* Mutant: the structure behind t is unlinked with it.
UnlinkedWithNext(t) == [next EXCEPT ![Pred(t)] = next[next[t]]]

Unlinked(t) == [next EXCEPT ![Pred(t)] = next[t]]

\* Mutant: the walk stops before the last task of the ring.
StillAliveSkipsLast(p) ==
    \E t \in Ring \ {runningThread, Pred(runningThread)} :
        /\ state[t] = 1
        /\ IF p = AnyChild THEN ppid_t[t] = ppid_t[runningThread]
                           ELSE pid_t[t] = p

\* Mutant: the search is over every structure, in the ring or not.
StillAliveAnywhere(p) ==
    \E t \in Task \ {runningThread} :
        /\ state[t] = 1
        /\ IF p = AnyChild THEN ppid_t[t] = ppid_t[runningThread]
                           ELSE pid_t[t] = p

\* waitpid() looks at every other task of the ring; with pid -1 it compares
\* the parent of that task with the parent of the caller.
StillAlive(p) ==
    \E t \in Ring \ {runningThread} :
        /\ state[t] = 1
        /\ IF p = AnyChild THEN ppid_t[t] = ppid_t[runningThread]
                           ELSE pid_t[t] = p

-------------------------------------------------------------------------------
Init ==
    /\ next = [t \in Task |-> IF t = sbush THEN sbush ELSE NULL]
    /\ runningThread = sbush
    /\ deleteQueue = NULL
    /\ pid_t = [t \in Task |-> IF t = sbush THEN 1 ELSE 0]
    /\ ppid_t = [t \in Task |-> 0]
    /\ state = [t \in Task |-> IF t = sbush THEN 1 ELSE 0]
    /\ pidCount = 1
    /\ foregroundPid = 0
    /\ waitFor = [t \in Task |-> NotWaiting]

\* The running program makes a system call only when it is not polling.
InProgram == waitFor[runningThread] = NotWaiting

\* Mutant: the count is taken before it is advanced.
forkSamePid ==
    /\ InProgram
    /\ \E child \in Unused :
        /\ pid_t' = [pid_t EXCEPT ![child] = pidCount]
        /\ ppid_t' = [ppid_t EXCEPT ![child] = pid_t[runningThread]]
        /\ state' = [state EXCEPT ![child] = 1]
        /\ next' = [next EXCEPT ![child] = next[runningThread],
                                ![runningThread] = child]
    /\ pidCount' = pidCount + 1
    /\ UNCHANGED <<runningThread, deleteQueue, foregroundPid, waitFor>>

\* Mutant: the smallest number of no live process is taken.
forkReusesPid ==
    /\ InProgram
    /\ \E child \in Unused :
        /\ pid_t' = [pid_t EXCEPT ![child] = CHOOSE p \in 1 .. (pidCount + 1) :
                                 p \notin LivePids /\ \A q \in 1 .. (p - 1) : q \in LivePids]
        /\ ppid_t' = [ppid_t EXCEPT ![child] = pid_t[runningThread]]
        /\ state' = [state EXCEPT ![child] = 1]
        /\ next' = [next EXCEPT ![child] = next[runningThread],
                                ![runningThread] = child]
    /\ pidCount' = pidCount + 1
    /\ UNCHANGED <<runningThread, deleteQueue, foregroundPid, waitFor>>

\* Mutant: the child is linked in front of the parent.
forkAtBack ==
    /\ InProgram
    /\ \E child \in Unused :
        /\ pid_t' = [pid_t EXCEPT ![child] = pidCount + 1]
        /\ ppid_t' = [ppid_t EXCEPT ![child] = pid_t[runningThread]]
        /\ state' = [state EXCEPT ![child] = 1]
        /\ next' = [next EXCEPT ![child] = runningThread,
                                ![Pred(runningThread)] = child]
    /\ pidCount' = pidCount + 1
    /\ UNCHANGED <<runningThread, deleteQueue, foregroundPid, waitFor>>

\* fork(): createChildTask() and addToQueue(), right behind the parent.
fork ==
    /\ InProgram
    /\ \E child \in Unused :
        /\ pid_t' = [pid_t EXCEPT ![child] = pidCount + 1]
        /\ ppid_t' = [ppid_t EXCEPT ![child] = pid_t[runningThread]]
        /\ state' = [state EXCEPT ![child] = 1]
        /\ next' = [next EXCEPT ![child] = next[runningThread],
                                ![runningThread] = child]
    /\ pidCount' = pidCount + 1
    /\ UNCHANGED <<runningThread, deleteQueue, foregroundPid, waitFor>>

\* exec() of a file that exists: a new structure takes the place and the
\* number of the running one, which is dropped.  sbush itself never calls
\* exec; it forks first.
exec ==
    /\ InProgram
    /\ runningThread # sbush
    /\ \E task \in Unused :
        /\ pid_t' = [pid_t EXCEPT ![task] = pid_t[runningThread]]
        /\ state' = [state EXCEPT ![task] = 1]
        /\ next' = [next EXCEPT ![task] = next[runningThread],
                                ![Pred(runningThread)] = task]
        /\ runningThread' = task
    /\ foregroundPid' = pid_t[runningThread]
    /\ pidCount' = pidCount + 1
    /\ UNCHANGED <<deleteQueue, ppid_t, waitFor>>

\* exec() of a file that does not exist: the caller leaves the ring, and
\* the next task of the ring starts again from where it was created.
execNotFound ==
    /\ UnknownCommands
    /\ InProgram
    /\ runningThread # sbush
    /\ state' = [state EXCEPT ![runningThread] = 0]
    /\ next' = Unlinked(runningThread)
    /\ runningThread' = next[runningThread]
    /\ waitFor' = [waitFor EXCEPT ![next[runningThread]] = NotWaiting]
    /\ UNCHANGED <<deleteQueue, pid_t, ppid_t, pidCount, foregroundPid>>

\* exit(); the first process gets a message and goes on.
exit ==
    /\ InProgram
    /\ pid_t[runningThread] # 1
    /\ state' = [state EXCEPT ![runningThread] = 0]
    /\ addToDeleteQueue(runningThread, Unlinked(runningThread))
    /\ runningThread' = next[runningThread]
    /\ UNCHANGED <<pid_t, ppid_t, pidCount, foregroundPid, waitFor>>

\* kill(p) finds neither the first process nor the caller.
kill(p) ==
    /\ InProgram
    /\ p # 1
    /\ \E t \in WithPid(p) \ {runningThread} :
           addToDeleteQueue(t, Unlinked(t))
    /\ UNCHANGED <<runningThread, pid_t, ppid_t, state, pidCount,
                   foregroundPid, waitFor>>

\* Ctrl-C in the keyboard handler, with exitpid(foregroundPid): the task
\* behind the one that ends runs next, whichever was running.
CtrlC ==
    /\ foregroundPid # 0
    /\ foregroundPid' = 0
    /\ IF foregroundPid = 1 \/ WithPid(foregroundPid) = {}
         THEN UNCHANGED <<queues, state>>
         ELSE \E t \in WithPid(foregroundPid) :
                /\ state' = [state EXCEPT ![t] = 0]
                /\ addToDeleteQueue(t, Unlinked(t))
                /\ runningThread' = next[t]
    /\ UNCHANGED <<pid_t, ppid_t, pidCount, waitFor>>

\* waitpid(p), and the loop around it that the programs use: the caller
\* goes on when no such process is left.
waitpid(p) ==
    /\ waitFor[runningThread] \in {NotWaiting, p}
    /\ waitFor' = [waitFor EXCEPT
                     ![runningThread] = IF StillAlive(p) THEN p ELSE NotWaiting]
    /\ UNCHANGED <<queues, pid_t, ppid_t, state, pidCount, foregroundPid>>

\* The timer interrupt when it switches.
runNextTask ==
    /\ runningThread' = next[runningThread]
    /\ UNCHANGED <<next, deleteQueue, pid_t, ppid_t, state, pidCount,
                   foregroundPid, waitFor>>

Pids == 1 .. (pidCount + 1)

Next ==
    \/ fork
    \/ exec
    \/ execNotFound
    \/ exit
    \/ \E p \in Pids : kill(p)
    \/ CtrlC
    \/ \E p \in WaitPids : waitpid(p)
    \/ runNextTask

Spec == Init /\ [][Next]_vars

\* The timer always ticks, and a time slice is long enough for a program in
\* a waitpid() loop to make one call.
Poll(t) ==
    /\ runningThread = t
    /\ waitFor[t] # NotWaiting
    /\ waitpid(waitFor[t])
Fairness ==
    /\ WF_vars(runNextTask)
    /\ \A t \in Task : SF_vars(Poll(t))

FairSpec == Spec /\ Fairness

-------------------------------------------------------------------------------
TypeOK ==
    /\ next \in [Task -> Task \cup {NULL}]
    /\ runningThread \in Task
    /\ deleteQueue \in Task \cup {NULL}
    /\ pid_t \in [Task -> Nat]
    /\ ppid_t \in [Task -> Nat]
    /\ state \in [Task -> {0, 1}]
    /\ pidCount \in Nat
    /\ foregroundPid \in Nat
    /\ waitFor \in [Task -> Nat \cup {AnyChild}]

\* The run queue is one cycle through allocated, live structures: from any
\* of them the loops over next come back to it, so the walks of kill, exit,
\* waitpid, ps and of the timer terminate and see every process.
RingIsACycle ==
    LET R == Ring IN
    \A t \in R :
        /\ next[t] \in R
        /\ ReachFrom(t) = R
        /\ pid_t[t] # 0
        /\ state[t] = 1

\* The run queue is a cycle and the deleteQueue is not, and they share no
\* structure although both are linked through the same field.
QueuesAreSound ==
    /\ RingIsACycle
    /\ Ring \cap Dead = {}
    /\ Dead # {} => \E t \in Dead : next[t] = NULL

\* Two processes never have the same number, alive or exited.
PidsAreUnique ==
    LET Known == Ring \cup Dead IN
    \A t, u \in Known : pid_t[t] = pid_t[u] => t = u

\* A number that no live process has, and that was given out, never belongs
\* to a live process again: kill, Ctrl-C and waitpid with a stale number
\* cannot hit a stranger.
PidsAreNotReused ==
    [][LivePids' \cap 1 .. pidCount \subseteq LivePids]_vars

\* A program leaves its waitpid(p) loop by itself only when process p is gone,
\* through every fork, exec, exit and kill in between.  A command that is not
\* found restarts another program, which may be one that waits (task.c:909).
WaitIsSound ==
    [][\A t \in Ring :
           waitFor[t] > 0 /\ waitFor'[t] # waitFor[t]
               => waitFor[t] \notin LivePids' \/ t # runningThread]_vars

\* No program polls for ever for a process that is gone: every process gets its
\* turn again, wherever others are linked in front of it, and sees it.
WaiterGoesOn ==
    \A t \in Task :
        []<>~(waitFor[t] > 0 /\ t \in Ring /\ waitFor[t] \notin LivePids)

\* The numbers of the structures S, linked from h on, in the order of next.
Chain(h, S) ==
    LET n == Cardinality(S)
        walk[i \in 1 .. n] == IF i = 1 THEN h ELSE next[walk[i - 1]]
    IN  [i \in 1 .. n |-> pid_t[walk[i]]]

\* The linked structures implement the abstract queue of processes.
Abstract == INSTANCE RoundRobin WITH
    InitPid <- 1,
    queue   <- Chain(runningThread, Ring),
    exited  <- Chain(deleteQueue, Dead),
    lastPid <- pidCount

\* fork, exec, exit, kill, Ctrl-C and the timer, each a few pointer writes
\* after a walk, are the insertions, removals and rotations of a queue.
ImplementsRoundRobin == Abstract!Spec
===============================================================================
