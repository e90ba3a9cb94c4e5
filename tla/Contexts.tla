------------------------------- MODULE Contexts -------------------------------
(***************************************************************************)
(* What a process resumes with: the run queue of RunQueue together with    *)
(* the frames that interrupts push on the kernel stacks and the registers  *)
(* kept in Task.regs (src/sys/task.c, task.s, idt.s, syscall.s).           *)
(*                                                                         *)
(* A position on a kernel stack counts frames of 40 bytes (what the CPU    *)
(* pushes and iretq pops) down from the end of the page; position 0 is     *)
(* behind it.  rbx stands for the registers handled like it.  System calls *)
(* use a stack of their own and leave these positions alone.               *)
(***************************************************************************)
EXTENDS Integers, FiniteSets, Sequences

CONSTANTS
    Task, sbush, NULL, UnknownCommands, WaitPids,   \* as in RunQueue
    Point,             \* points a program can be at, from its entry on
    KeysHitForeground  \* Ctrl-C comes only while the foreground process runs

Entry == 0
Handler == -1          \* the start of the program's SIGALRM handler
Nowhere == -2          \* what a position holds that has no frame

\* TaskAssumption of RunQueue.
ASSUME QueueAssumption ==
    /\ IsFiniteSet(Task)
    /\ sbush \in Task
    /\ NULL \notin Task
    /\ UnknownCommands \in BOOLEAN
    /\ WaitPids \subseteq Nat \cup {-1}

ASSUME ContextAssumption ==
    /\ Point \subseteq Nat
    /\ Entry \in Point
    /\ KeysHitForeground \in BOOLEAN

VARIABLES
    next, runningThread, deleteQueue, pid_t, ppid_t, state, pidCount,
    foregroundPid, waitFor,
    regs,              \* regs.kernelRsp, count, rip and rbx of each task
    frame,             \* the last frame on its kernel stack: position and rip
    tss,               \* where the CPU starts to push at the next interrupt
    cpu,               \* rip and rbx of the program that runs
    armed,             \* tasks that have an alarm that may be due
    userStack,         \* the point a running handler returns to
    at                 \* history: rip and rbx where each program really is,
                       \* and where it was when its handler took over

queueVars == <<next, runningThread, deleteQueue, pid_t, ppid_t, state, pidCount,
               foregroundPid, waitFor>>
stackVars == <<regs, frame, tss>>
programVars == <<armed, userStack, at>>
vars == <<queueVars, stackVars, cpu, programVars>>

Queue == INSTANCE RunQueue

-------------------------------------------------------------------------------
\* _prepareInitialKernelStack(): a frame below kernelRsp that starts at rip.
_prepareInitialKernelStack(r) == [position |-> r.kernelRsp + 1, rip |-> r.rip]

NewRegs(rip, rbx) ==
    [kernelRsp |-> 0, count |-> 0, rip |-> rip, rbx |-> rbx]

AtPoint(rip, rbx) == [rip |-> rip, rbx |-> rbx, back |-> Nowhere]

\* Where iretq finds the frame of a task that gets the processor: below
\* kernelRsp (add = 40) the first time, at kernelRsp (add = 0) afterwards.
ResumePosition(r) == IF r.count = 0 THEN r.kernelRsp + 1 ELSE r.kernelRsp
Found(f, position) == IF f.position = position THEN f.rip ELSE Nowhere

\* Mutant: the stack pointer of the TSS is kernelRsp in both cases.
TssPositionLow(r) == r.kernelRsp

TssPosition(r) == IF r.count = 0 THEN r.kernelRsp ELSE r.kernelRsp - 1

\* The code before every _moveToNextProcess(): task t gets the processor,
\* with its registers R[t] and its frame F[t].
SwitchTo(t, R, F) ==
    /\ regs' = [R EXCEPT ![t].count = 1]
    /\ frame' = F
    /\ tss' = TssPosition(R[t])
    /\ cpu' = [rip |-> Found(F[t], ResumePosition(R[t])), rbx |-> R[t].rbx]

\* The registers of the interrupted task, as runNextTask() stores them.
Saved(t) == [regs EXCEPT ![t].kernelRsp = tss + 1, ![t].rbx = cpu.rbx]
Interrupted(t) == [frame EXCEPT ![t] = [position |-> tss + 1, rip |-> cpu.rip]]

-------------------------------------------------------------------------------
\* createNewTask() and switchToUserMode() for the shell.
Init ==
    /\ Queue!Init
    /\ regs = [t \in Task |->
                  [NewRegs(Entry, Entry) EXCEPT !.count = IF t = sbush THEN 1 ELSE 0]]
    /\ frame = [t \in Task |->
                   IF t = sbush THEN _prepareInitialKernelStack(NewRegs(Entry, Entry))
                   ELSE [position |-> 0, rip |-> Nowhere]]
    /\ tss = 0
    /\ cpu = [rip |-> Entry, rbx |-> Entry]
    /\ armed = {}
    /\ userStack = [t \in Task |-> Nowhere]
    /\ at = [t \in Task |-> AtPoint(Entry, Entry)]

\* The running program goes on to another point.
Step ==
    /\ cpu.rip \in Point
    /\ \E p \in Point :
        /\ cpu' = [rip |-> p, rbx |-> p]
        /\ at' = [at EXCEPT ![runningThread] = AtPoint(p, p)]
    /\ UNCHANGED <<queueVars, stackVars, armed, userStack>>

\* Its handler ends with ret; it has kept rbx.
HandlerReturns ==
    /\ cpu.rip = Handler
    /\ cpu' = [cpu EXCEPT !.rip = userStack[runningThread]]
    /\ at' = [at EXCEPT ![runningThread].rip = at[runningThread].back,
                     ![runningThread].back = Nowhere]
    /\ userStack' = [userStack EXCEPT ![runningThread] = Nowhere]
    /\ UNCHANGED <<queueVars, stackVars, armed>>

\* signal() and alarm(), outside of the handler.
setAlarm ==
    /\ cpu.rip \in Point
    /\ armed' = armed \cup {runningThread}
    /\ UNCHANGED <<queueVars, stackVars, cpu, userStack, at>>

\* createChildTask() gives the child the registers of the system call.
fork ==
    /\ cpu.rip \in Point
    /\ Queue!fork
    /\ LET child == next'[runningThread]
           r == NewRegs(cpu.rip, cpu.rbx)
       IN  /\ regs' = [regs EXCEPT ![child] = r]
           /\ frame' = [frame EXCEPT ![child] = _prepareInitialKernelStack(r)]
           /\ at' = [at EXCEPT ![child] = at[runningThread]]
    /\ UNCHANGED <<tss, cpu, armed, userStack>>

\* createNewExecTask() and deleteRunningThreadAndJump().
exec ==
    /\ cpu.rip \in Point
    /\ Queue!exec
    /\ LET task == runningThread'
           r == NewRegs(Entry, Entry)
       IN  /\ SwitchTo(task, [regs EXCEPT ![task] = r],
                       [frame EXCEPT ![task] = _prepareInitialKernelStack(r)])
           /\ at' = [at EXCEPT ![task] = AtPoint(Entry, Entry)]
    /\ UNCHANGED <<armed, userStack>>

\* The failed exec starts the next task again, from the rip it was created
\* with, in a frame below its saved one.
execNotFound ==
    /\ cpu.rip \in Point
    /\ Queue!execNotFound
    /\ LET t == runningThread'
           r == [regs[t] EXCEPT !.count = 0]
       IN  /\ SwitchTo(t, [regs EXCEPT ![t] = r],
                       [frame EXCEPT ![t] = _prepareInitialKernelStack(r)])
           /\ at' = [at EXCEPT ![t] = AtPoint(r.rip, r.rbx)]
           /\ userStack' = [userStack EXCEPT ![t] = Nowhere]
    /\ UNCHANGED armed

exit ==
    /\ cpu.rip \in Point
    /\ Queue!exit
    /\ SwitchTo(runningThread', regs, frame)
    /\ UNCHANGED programVars

kill(p) ==
    /\ cpu.rip \in Point
    /\ Queue!kill(p)
    /\ UNCHANGED <<stackVars, cpu, programVars>>

\* The keyboard interrupt: exitpid() switches without storing the registers
\* of the task that was interrupted.
CtrlC ==
    /\ Queue!CtrlC
    /\ KeysHitForeground =>
        Queue!WithPid(foregroundPid) \subseteq {runningThread}
    /\ IF foregroundPid = 1 \/ Queue!WithPid(foregroundPid) = {}
         THEN UNCHANGED <<stackVars, cpu>>
         ELSE SwitchTo(runningThread', regs, Interrupted(runningThread))
    /\ UNCHANGED programVars

\* Mutant: the handler is written to where the first frame of a task is.
AlarmPositionFirst(r) == 1

\* _changeToAlarmFunction() takes the frame at kernelRsp.
AlarmPosition(r) == r.kernelRsp

\* The timer interrupt.  An alarm of the next task that is due replaces the
\* rip of its frame, which goes to the program's own stack.
runNextTask ==
    /\ Queue!runNextTask
    /\ LET t == runningThread'
           R == Saved(runningThread)
           F == Interrupted(runningThread)
       IN  \/ /\ SwitchTo(t, R, F)
              /\ UNCHANGED programVars
           \/ /\ t \in armed
              /\ SwitchTo(t, R, [F EXCEPT ![t] = [position |-> AlarmPosition(R[t]),
                                                  rip |-> Handler]])
              /\ userStack' = [userStack EXCEPT ![t] =
                                   Found(F[t], AlarmPosition(R[t]))]
              /\ at' = [at EXCEPT ![t].rip = Handler, ![t].back = at[t].rip]
              /\ armed' = armed \ {t}

Next ==
    \/ Step
    \/ HandlerReturns
    \/ setAlarm
    \/ fork
    \/ exec
    \/ execNotFound
    \/ exit
    \/ \E p \in Queue!Pids : kill(p)
    \/ CtrlC
    \/ runNextTask

Spec == Init /\ [][Next]_vars

-------------------------------------------------------------------------------
TypeOK ==
    /\ regs \in [Task -> [kernelRsp : Nat, count : {0, 1}, rip : Point, rbx : Point]]
    /\ frame \in [Task -> [position : Nat, rip : Point \cup {Handler, Nowhere}]]
    /\ tss \in Nat
    /\ cpu \in [rip : Point \cup {Handler}, rbx : Point]
    /\ armed \subseteq Task
    /\ userStack \in [Task -> Point \cup {Nowhere}]
    /\ at \in [Task -> [rip : Point \cup {Handler}, rbx : Point,
                        back : Point \cup {Nowhere}]]

\* A process goes on where it was interrupted, with the registers it had
\* there ("done : saved the state of the first process", task.s:149): after
\* switches at any point, forks, ends of others, restarts and alarms.
ResumesWhereItWas == cpu = [rip |-> at[runningThread].rip, rbx |-> at[runningThread].rbx]

\* The tasks a failed exec has dropped: dead and on no queue.
Failed == {t \in Task \ (Queue!Ring \cup Queue!Dead) : state[t] = 0 /\ pid_t[t] # 0}

\* A kernel stack sinks by one frame when a command is not found, and never
\* otherwise, whatever switches and alarms come between.
StackIsBounded ==
    \A t \in Queue!Ring : regs[t].kernelRsp <= 1 + Cardinality(Failed)
===============================================================================
