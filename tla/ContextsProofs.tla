---------------------------- MODULE ContextsProofs ----------------------------
(***************************************************************************)
(* Register contexts for any number of processes and points: a process     *)
(* goes on where it was interrupted, as long as Ctrl-C comes while the     *)
(* foreground process runs (the code drops the registers of another one:   *)
(* Contexts); and a kernel stack sinks only when a command is not found,   *)
(* whenever Ctrl-C comes.                                                  *)
(*                                                                         *)
(* The proofs stand on those of the run queue, instantiated over the same  *)
(* variables; the names by which Contexts refers to the queue are those.   *)
(***************************************************************************)
EXTENDS Contexts, TLAPS, FiniteSetTheorems

Q == INSTANCE RunQueueProofs

-------------------------------------------------------------------------------
\* The constants are as the theorems about the queue need them.
LEMMA QueueConstants == Q!TaskAssumption
<1>1. Q!IsFiniteSet(Task)
  BY QueueAssumption DEF IsFiniteSet, Q!IsFiniteSet
<1> QED BY <1>1, QueueAssumption DEF Q!TaskAssumption

\* The walks of the queue that Contexts refers to.
LEMMA SameQueues ==
    /\ Queue!Ring = Q!Ring
    /\ Queue!Dead = Q!Dead
    /\ Queue!Unused = Q!Unused
    /\ Queue!Pids = Q!Pids
<1>1. Queue!Ring = Q!Ring
  BY DEF Queue!Ring, Q!Ring, Queue!ReachFrom, Q!ReachFrom, Queue!Closed, Q!Closed
<1>2. Queue!Dead = Q!Dead
  BY DEF Queue!Dead, Q!Dead, Queue!ReachFrom, Q!ReachFrom, Queue!Closed, Q!Closed
<1> QED BY <1>1, <1>2 DEF Queue!Unused, Q!Unused, Queue!Pids, Q!Pids

\* The tasks that have a number.
LEMMA SameWithPid ==
    ASSUME NEW p
    PROVE  Queue!WithPid(p) = Q!WithPid(p)
  BY SameQueues DEF Queue!WithPid, Q!WithPid

\* The links without a task.
LEMMA SameUnlinked ==
    ASSUME NEW t
    PROVE  /\ Queue!Unlinked(t) = Q!Unlinked(t)
           /\ Queue!Pred(t) = Q!Pred(t)
<1>1. Queue!Pred(t) = Q!Pred(t)
  BY SameQueues DEF Queue!Pred, Q!Pred
<1> QED BY <1>1 DEF Queue!Unlinked, Q!Unlinked

\* The links with that task behind the exited ones.
LEMMA SameAppended ==
    ASSUME NEW t
    PROVE  Queue!addToDeleteQueue(t, Queue!Unlinked(t)) <=> Q!addToDeleteQueue(t, Q!Unlinked(t))
<1>1. Queue!LastDead = Q!LastDead
  BY SameQueues DEF Queue!LastDead, Q!LastDead
<1> QED BY <1>1, SameUnlinked DEF Queue!addToDeleteQueue, Q!addToDeleteQueue

\* Its actions on the queue are those of RunQueue.
LEMMA SameActions ==
    /\ Queue!Init <=> Q!Init
    /\ Queue!fork <=> Q!fork
    /\ Queue!exec <=> Q!exec
    /\ Queue!execNotFound <=> Q!execNotFound
    /\ Queue!exit <=> Q!exit
    /\ Queue!CtrlC <=> Q!CtrlC
    /\ Queue!runNextTask <=> Q!runNextTask
    /\ \A p : Queue!kill(p) <=> Q!kill(p)
<1>1. Queue!Init <=> Q!Init
  BY DEF Queue!Init, Q!Init, Queue!NotWaiting, Q!NotWaiting
<1>2. Queue!InProgram <=> Q!InProgram
  BY DEF Queue!InProgram, Q!InProgram, Queue!NotWaiting, Q!NotWaiting
<1>3. Queue!fork <=> Q!fork
  BY <1>2, SameQueues DEF Queue!fork, Q!fork
<1>4. Queue!exec <=> Q!exec
  BY <1>2, SameQueues, SameUnlinked DEF Queue!exec, Q!exec
<1>5. Queue!execNotFound <=> Q!execNotFound
  BY <1>2, SameUnlinked DEF Queue!execNotFound, Q!execNotFound, Queue!NotWaiting, Q!NotWaiting
<1>6. Queue!exit <=> Q!exit
  BY <1>2, SameAppended DEF Queue!exit, Q!exit
<1>7. Queue!CtrlC <=> Q!CtrlC
  BY SameWithPid, SameAppended DEF Queue!CtrlC, Q!CtrlC, Queue!queues, Q!queues
<1>8. Queue!runNextTask <=> Q!runNextTask
  BY DEF Queue!runNextTask, Q!runNextTask
<1>9. ASSUME NEW p PROVE Queue!kill(p) <=> Q!kill(p)
  BY <1>2, SameWithPid, SameAppended DEF Queue!kill, Q!kill
<1> QED BY <1>1, <1>3, <1>4, <1>5, <1>6, <1>7, <1>8, <1>9

\* Every step of Contexts is one of the queue, or leaves it alone.
LEMMA QueueGoesOn ==
    ASSUME Q!QueueInv, [Next]_vars
    PROVE  Q!QueueInv' /\ Q!TypeOK'
<1>1. Next => Q!Next \/ UNCHANGED Q!vars
  <2> SUFFICES ASSUME Next PROVE Q!Next \/ UNCHANGED Q!vars
    OBVIOUS
  <2>1. \/ Q!fork \/ Q!exec \/ Q!execNotFound \/ Q!exit \/ Q!CtrlC \/ Q!runNextTask
        \/ \E p \in Q!Pids : Q!kill(p)
        \/ UNCHANGED queueVars
    BY SameActions, SameQueues DEF Next, Step, HandlerReturns, setAlarm, fork, exec,
       execNotFound, exit, kill, CtrlC, runNextTask
  <2> QED BY <2>1 DEF Q!Next, queueVars, Q!vars
<1>2. UNCHANGED vars => UNCHANGED Q!vars
  BY DEF vars, queueVars, Q!vars
<1>3. [Q!Next]_(Q!vars)
  BY <1>1, <1>2
<1>4. Q!QueueInv'
  BY <1>3, Q!QueueStep, QueueConstants
<1> QED BY <1>4 DEF Q!QueueInv

-------------------------------------------------------------------------------
\* The shapes of the records.
IsRegs(r) ==
    /\ r = [kernelRsp |-> r.kernelRsp, count |-> r.count, rip |-> r.rip, rbx |-> r.rbx]
    /\ r.kernelRsp \in Int
IsFrame(f) == f = [position |-> f.position, rip |-> f.rip]
IsAt(a) == a = [rip |-> a.rip, rbx |-> a.rbx, back |-> a.back]

RegsShape(R) == R = [t \in Task |-> R[t]] /\ \A t \in Task : IsRegs(R[t])
FrameShape(F) == F = [t \in Task |-> F[t]] /\ \A t \in Task : IsFrame(F[t])
AtShape(A) == A = [t \in Task |-> A[t]] /\ \A t \in Task : IsAt(A[t])
StackShape(S) == S = [t \in Task |-> S[t]]

\* The frame is where the switch to a task looks for it, and frame and registers are
\* those of where its program is.
Good(r, f, a) ==
    /\ r.count \in {0, 1}
    /\ f.position = ResumePosition(r)
    /\ f.rip = a.rip
    /\ r.rbx = a.rbx

\* A program returns from its handler to where the handler took over; the handler
\* starts only in a frame that a switch has pushed.
Own(t) ==
    /\ userStack[t] = at[t].back
    /\ at[t].rip \in Point => at[t].back = Nowhere
    /\ t \in armed => regs[t].count = 1

\* The commands that were not found are counted by what they dropped.
Dropped == {t \in Task \ (Q!Ring \cup Q!Dead) : state[t] = 0 /\ pid_t[t] # 0}
Depth == Cardinality(Dropped)

\* A task that restarts or is new pushes its first frame one below kernelRsp.
HighEnough(r, depth) ==
    /\ r.kernelRsp <= 1 + depth
    /\ r.count = 0 => r.kernelRsp <= depth

ContextInv ==
    /\ Q!QueueInv
    /\ RegsShape(regs) /\ FrameShape(frame) /\ AtShape(at) /\ StackShape(userStack)
    /\ cpu = [rip |-> at[runningThread].rip, rbx |-> at[runningThread].rbx]
    /\ regs[runningThread].count = 1
    /\ \A t \in Q!Ring \ {runningThread} : Good(regs[t], frame[t], at[t])
    /\ \A t \in Q!Ring : Own(t)
    /\ \A t \in Q!Unused : userStack[t] = Nowhere /\ t \notin armed
    /\ tss \in Int

\* The stacks by themselves, whatever the programs resume with.
StackInv ==
    /\ Q!QueueInv
    /\ RegsShape(regs)
    /\ regs[runningThread].count = 1
    /\ tss \in Int /\ tss <= Depth
    /\ \A t \in Q!Ring : HighEnough(regs[t], Depth)

\* The tasks a failed exec has dropped, as Contexts names them.
LEMMA SameFailed == Failed = Dropped
  BY SameQueues DEF Failed, Dropped

\* What a failed command dropped stays dropped.
LEMMA DepthGrows ==
    ASSUME Q!QueueInv,
           Q!Ring' \cup Q!Dead' \subseteq Q!Ring \cup Q!Dead \cup Q!Unused,
           \A t \in Task \ (Q!Ring \cup Q!Dead \cup Q!Unused) : state'[t] = state[t] /\ pid_t'[t] = pid_t[t]
    PROVE  Dropped \subseteq Dropped' /\ Depth \in Nat /\ Depth' \in Nat /\ Depth <= Depth'
<1>1. Dropped \subseteq Dropped'
  BY DEF Dropped, Q!Unused
<1>2. Dropped \subseteq Task /\ Dropped' \subseteq Task
  BY DEF Dropped
<1>3. IsFiniteSet(Dropped')
  BY <1>2, QueueAssumption, FS_Subset
<1>4. Cardinality(Dropped) <= Cardinality(Dropped') /\ IsFiniteSet(Dropped)
  BY <1>1, <1>3, FS_Subset
<1> QED BY <1>1, <1>3, <1>4, FS_CardinalityType DEF Depth

\* A bound on a stack is kept when more commands have failed.
LEMMA HighStays ==
    ASSUME NEW r, IsRegs(r), NEW d \in Nat, NEW e \in Nat, d <= e, HighEnough(r, d)
    PROVE  HighEnough(r, e)
  BY SMT DEF HighEnough, IsRegs

\* What a switch does to the registers and to the TSS.
LEMMA SwitchedRegs ==
    ASSUME NEW R, NEW F, NEW t \in Task, RegsShape(R), SwitchTo(t, R, F)
    PROVE  /\ RegsShape(regs')
           /\ regs'[t].count = 1
           /\ regs'[t].kernelRsp = R[t].kernelRsp
           /\ tss' = IF R[t].count = 0 THEN R[t].kernelRsp ELSE R[t].kernelRsp - 1
           /\ \A u \in Task : u # t => regs'[u] = R[u]
<1>1. IsRegs(R[t])
  BY DEF RegsShape
<1> DEFINE r == [R[t] EXCEPT !.count = 1]
<1>2. r = [kernelRsp |-> R[t].kernelRsp, count |-> 1, rip |-> R[t].rip, rbx |-> R[t].rbx]
  BY <1>1 DEF IsRegs
<1>3. IsRegs(r) /\ r.count = 1 /\ r.kernelRsp = R[t].kernelRsp
  BY <1>1, <1>2 DEF IsRegs
<1>4. regs' = [R EXCEPT ![t] = r]
  BY DEF SwitchTo
<1> HIDE DEF r
<1>5. regs'[t] = r /\ \A u \in Task : u # t => regs'[u] = R[u]
  BY <1>4 DEF RegsShape
<1>6. RegsShape(regs')
  BY <1>3, <1>4, <1>5 DEF RegsShape
<1> QED BY <1>3, <1>5, <1>6 DEF SwitchTo, TssPosition

\* A task gets the processor where it is, if its registers R and its frame F are.
LEMMA Switched ==
    ASSUME NEW R, NEW F, NEW t \in Task, SwitchTo(t, R, F), Good(R[t], F[t], at'[t])
    PROVE  frame' = F /\ cpu' = [rip |-> at'[t].rip, rbx |-> at'[t].rbx]
<1>1. Found(F[t], ResumePosition(R[t])) = F[t].rip
  BY DEF Found, Good
<1> QED BY <1>1 DEF SwitchTo, Good

\* What runNextTask() stores in a record of registers.
LEMMA StoredRegs ==
    ASSUME NEW q, IsRegs(q), NEW a, NEW b
    PROVE  [[q EXCEPT !.kernelRsp = a] EXCEPT !.rbx = b]
             = [kernelRsp |-> a, count |-> q.count, rip |-> q.rip, rbx |-> b]
<1> DEFINE p == [q EXCEPT !.kernelRsp = a]
<1>1. p = [kernelRsp |-> a, count |-> q.count, rip |-> q.rip, rbx |-> q.rbx]
  BY DEF IsRegs
<1> HIDE DEF p
<1>2. [p EXCEPT !.rbx = b] = [kernelRsp |-> a, count |-> q.count, rip |-> q.rip, rbx |-> b]
  BY <1>1
<1> QED BY <1>2 DEF p

\* The registers of the interrupted task as they are stored; the others stay.
LEMMA SavedRegs ==
    ASSUME NEW t \in Task, RegsShape(regs), regs[t].count = 1, tss \in Int,
           NEW R, R = Saved(t)
    PROVE  /\ RegsShape(R)
           /\ R[t].count = 1 /\ R[t].kernelRsp = tss + 1 /\ R[t].rbx = cpu.rbx
           /\ \A u \in Task : u # t => R[u] = regs[u]
<1> DEFINE r == [kernelRsp |-> tss + 1, count |-> 1, rip |-> regs[t].rip, rbx |-> cpu.rbx]
<1>1. IsRegs(regs[t])
  BY DEF RegsShape
<1>2. [[regs[t] EXCEPT !.kernelRsp = tss + 1] EXCEPT !.rbx = cpu.rbx] = r
  <2>1. [[regs[t] EXCEPT !.kernelRsp = tss + 1] EXCEPT !.rbx = cpu.rbx]
          = [kernelRsp |-> tss + 1, count |-> regs[t].count, rip |-> regs[t].rip, rbx |-> cpu.rbx]
    BY <1>1, StoredRegs
  <2> QED BY <2>1
<1>3. R = [regs EXCEPT ![t] = r]
  BY <1>2 DEF Saved, RegsShape
<1>4. IsRegs(r) /\ r.count = 1 /\ r.kernelRsp = tss + 1 /\ r.rbx = cpu.rbx
  BY SMT DEF IsRegs
<1> HIDE DEF r
<1>5. R[t] = r /\ \A u \in Task : u # t => R[u] = regs[u]
  BY <1>3 DEF RegsShape
<1>6. RegsShape(R)
  BY <1>3, <1>4, <1>5 DEF RegsShape
<1> QED BY <1>4, <1>5, <1>6

\* The interrupted task can be resumed from what is stored.
LEMMA Interrupt ==
    ASSUME ContextInv,
           NEW R, R = Saved(runningThread), NEW F, F = Interrupted(runningThread)
    PROVE  /\ RegsShape(R) /\ FrameShape(F)
           /\ R[runningThread].count = 1
           /\ Good(R[runningThread], F[runningThread], at[runningThread])
           /\ \A u \in Task : u # runningThread => R[u] = regs[u] /\ F[u] = frame[u]
<1>1. PICK t : t = runningThread
  OBVIOUS
<1>2. /\ t \in Task /\ RegsShape(regs) /\ FrameShape(frame) /\ regs[t].count = 1 /\ tss \in Int
      /\ cpu.rip = at[t].rip /\ cpu.rbx = at[t].rbx
  BY <1>1 DEF ContextInv, Q!QueueInv, Q!TypeOK
<1>3. /\ RegsShape(R)
      /\ R[t].count = 1 /\ R[t].kernelRsp = tss + 1 /\ R[t].rbx = cpu.rbx
      /\ \A u \in Task : u # t => R[u] = regs[u]
  BY <1>1, <1>2, SavedRegs
<1>4. PICK f : f = [position |-> tss + 1, rip |-> cpu.rip]
  OBVIOUS
<1>5. IsFrame(f) /\ f.position = tss + 1 /\ f.rip = cpu.rip
  BY <1>4 DEF IsFrame
<1>6. F = [frame EXCEPT ![t] = f]
  BY <1>1, <1>4 DEF Interrupted
<1>7. F[t] = f /\ \A u \in Task : u # t => F[u] = frame[u]
  BY <1>2, <1>6 DEF FrameShape
<1>8. FrameShape(F)
  BY <1>2, <1>5, <1>6, <1>7 DEF FrameShape
<1>9. Good(R[t], F[t], at[t])
  BY <1>2, <1>3, <1>5, <1>7 DEF Good, ResumePosition
<1> QED BY <1>1, <1>3, <1>7, <1>8, <1>9

\* A step that switches keeps the invariant if every task of the new ring can be
\* resumed from R and F.
LEMMA SwitchKeeps ==
    ASSUME Q!QueueInv', NEW R, NEW F, RegsShape(R), FrameShape(F), AtShape(at'),
           StackShape(userStack'),
           SwitchTo(runningThread', R, F),
           \A u \in Q!Ring' : Good(R[u], F[u], at'[u]),
           \A u \in Q!Ring' : /\ userStack'[u] = at'[u].back
                              /\ at'[u].rip \in Point => at'[u].back = Nowhere
                              /\ u \in armed' => u = runningThread' \/ R[u].count = 1,
           \A u \in Q!Unused' : userStack'[u] = Nowhere /\ u \notin armed'
    PROVE  ContextInv'
<1>1. PICK t : t = runningThread'
  OBVIOUS
<1>2. t \in Q!Ring' /\ t \in Task /\ Q!Ring' \subseteq Task
  BY <1>1 DEF Q!QueueInv, Q!TypeOK, Q!Ring, Q!ReachFrom
<1>3. /\ RegsShape(regs') /\ frame' = F
      /\ regs'[t].count = 1
      /\ cpu' = [rip |-> at'[t].rip, rbx |-> at'[t].rbx]
      /\ tss' = IF R[t].count = 0 THEN R[t].kernelRsp ELSE R[t].kernelRsp - 1
      /\ \A u \in Task : u # t => regs'[u] = R[u]
  BY <1>1, <1>2, Switched, SwitchedRegs
<1>4. \A u \in Q!Ring' \ {t} : Good(regs'[u], frame'[u], at'[u])
  BY <1>2, <1>3
<1>5. \A u \in Q!Ring' : Own(u)'
  <2> TAKE u \in Q!Ring'
  <2>1. u \in armed' => regs'[u].count = 1
    BY <1>1, <1>2, <1>3
  <2> QED BY <2>1 DEF Own
<1>6. tss' \in Int
  <2>1. R[t].kernelRsp \in Int
    BY <1>2 DEF RegsShape, IsRegs
  <2> QED BY <1>3, <2>1, SMT
<1>7. FrameShape(frame')
  BY <1>3
<1> QED BY <1>1, <1>3, <1>4, <1>5, <1>6, <1>7 DEF ContextInv

-------------------------------------------------------------------------------
\* There are finitely many tasks.
LEMMA DepthIsNat == Depth \in Nat
<1>1. Dropped \subseteq Task
  BY DEF Dropped
<1>2. IsFiniteSet(Dropped)
  BY <1>1, QueueAssumption, FS_Subset
<1> QED BY <1>2, FS_CardinalityType DEF Depth

\* After the boot the shell runs from its entry.
LEMMA ContextInit == Init => ContextInv
<1> SUFFICES ASSUME Init PROVE ContextInv
  OBVIOUS
<1>1. Q!Init /\ Q!QueueInv
  BY SameActions, Q!QueueInit, QueueConstants DEF Init
<1>2. runningThread = sbush /\ next[sbush] = sbush
  BY <1>1, QueueAssumption DEF Q!Init
<1>3. Q!Ring = {sbush}
  BY <1>1, <1>2, Q!CyclePred, QueueConstants DEF Q!QueueInv
<1> DEFINE r == [NewRegs(Entry, Entry) EXCEPT !.count = 1]
           q == NewRegs(Entry, Entry)
<1>4. q = [kernelRsp |-> 0, count |-> 0, rip |-> Entry, rbx |-> Entry]
  BY DEF NewRegs
<1>5. r = [kernelRsp |-> 0, count |-> 1, rip |-> Entry, rbx |-> Entry]
      /\ [q EXCEPT !.count = 0] = q
  BY <1>4
<1>6. IsRegs(r) /\ r.count = 1 /\ r.kernelRsp = 0 /\ IsRegs(q)
  BY <1>4, <1>5 DEF IsRegs
<1>7. regs = [t \in Task |-> IF t = sbush THEN r ELSE q]
  BY <1>5 DEF Init
<1> HIDE DEF r, q
<1>8. RegsShape(regs) /\ regs[sbush] = r
  BY <1>6, <1>7, QueueAssumption DEF RegsShape
<1>9. FrameShape(frame)
  BY DEF Init, FrameShape, IsFrame, _prepareInitialKernelStack
<1>10. AtShape(at) /\ at[sbush] = AtPoint(Entry, Entry)
  BY QueueAssumption DEF Init, AtShape, IsAt, AtPoint
<1>11. at[sbush].rip = Entry /\ at[sbush].rbx = Entry /\ at[sbush].back = Nowhere
  BY <1>10 DEF AtPoint
<1>12. /\ StackShape(userStack) /\ armed = {} /\ tss = 0
       /\ cpu = [rip |-> Entry, rbx |-> Entry]
       /\ \A t \in Task : userStack[t] = Nowhere
  BY DEF Init, StackShape
<1>13. \A t \in Q!Ring : Own(t)
  BY <1>3, <1>11, <1>12, QueueAssumption DEF Own
<1>14. \A t \in Q!Unused : userStack[t] = Nowhere /\ t \notin armed
  BY <1>12 DEF Q!Unused
<1> QED BY <1>1, <1>2, <1>3, <1>6, <1>8, <1>9, <1>10, <1>11, <1>12, <1>13, <1>14
        DEF ContextInv

-------------------------------------------------------------------------------
\* Steps of the program alone.
LEMMA QueueFrozen ==
    ASSUME UNCHANGED queueVars
    PROVE  /\ Q!Ring' = Q!Ring /\ Q!Dead' = Q!Dead /\ Q!Unused' = Q!Unused /\ Depth' = Depth
           /\ runningThread' = runningThread
<1>1. Q!Ring' = Q!Ring /\ Q!Dead' = Q!Dead /\ Q!Unused' = Q!Unused /\ state' = state /\ pid_t' = pid_t
      /\ runningThread' = runningThread
  BY DEF queueVars, Q!Ring, Q!Dead, Q!Unused, Q!ReachFrom, Q!Closed
<1> QED BY <1>1 DEF Depth, Dropped

\* The running program is at another place, which the CPU has, too.
LEMMA ProgramGoesOn ==
    ASSUME ContextInv, Q!QueueInv', UNCHANGED queueVars, UNCHANGED stackVars,
           NEW a, IsAt(a), at' = [at EXCEPT ![runningThread] = a],
           cpu' = [rip |-> a.rip, rbx |-> a.rbx],
           StackShape(userStack'), userStack'[runningThread] = a.back,
           \A u \in Task : u # runningThread => userStack'[u] = userStack[u],
           a.rip \in Point => a.back = Nowhere,
           armed' \subseteq armed \cup {runningThread}
    PROVE  ContextInv'
<1>1. /\ Q!Ring' = Q!Ring /\ Q!Unused' = Q!Unused /\ Depth' = Depth /\ runningThread' = runningThread
      /\ regs' = regs /\ frame' = frame /\ tss' = tss
  BY QueueFrozen DEF stackVars
<1>2. runningThread \in Task /\ runningThread \in Q!Ring /\ runningThread \notin Q!Unused
      /\ Q!Ring \subseteq Task /\ Q!Unused \subseteq Task /\ AtShape(at)
  BY Q!RunningInRing, Q!UnusedIsNowhere, Q!QueuesAreTasks, QueueConstants DEF ContextInv, Q!QueueInv, Q!TypeOK, Q!Unused
<1>3. at'[runningThread] = a /\ \A u \in Task : u # runningThread => at'[u] = at[u]
  BY <1>2 DEF AtShape
<1>4. AtShape(at')
  BY <1>2, <1>3 DEF AtShape
<1>5. \A u \in Q!Ring' \ {runningThread'} : Good(regs'[u], frame'[u], at'[u])
  BY <1>1, <1>2, <1>3 DEF ContextInv
<1>6. \A u \in Q!Ring' : Own(u)'
  <2> TAKE u \in Q!Ring'
  <2>1. CASE u = runningThread
    BY <1>1, <1>3, <2>1 DEF Own, ContextInv
  <2>2. CASE u # runningThread
    <3>1. u \in Task /\ Own(u)
      BY <1>1, <1>2 DEF ContextInv
    <3> QED BY <1>1, <1>3, <2>2, <3>1 DEF Own
  <2> QED BY <2>1, <2>2
<1>7. \A u \in Q!Unused' : userStack'[u] = Nowhere /\ u \notin armed'
  BY <1>1, <1>2 DEF ContextInv
<1>8. cpu' = [rip |-> at'[runningThread'].rip, rbx |-> at'[runningThread'].rbx]
  BY <1>1, <1>3
<1>9. /\ RegsShape(regs') /\ FrameShape(frame') /\ regs'[runningThread'].count = 1
      /\ tss' \in Int
  BY <1>1 DEF ContextInv
<1> QED BY <1>4, <1>5, <1>6, <1>7, <1>8, <1>9 DEF ContextInv

\* The program is at another point, outside of its handler.
LEMMA StepStep ==
    ASSUME ContextInv, Q!QueueInv', Step
    PROVE  ContextInv'
<1>1. PICK p \in Point : /\ cpu' = [rip |-> p, rbx |-> p]
                         /\ at' = [at EXCEPT ![runningThread] = AtPoint(p, p)]
  BY DEF Step
<1> DEFINE a == AtPoint(p, p)
<1>2. IsAt(a) /\ a.rip = p /\ a.rbx = p /\ a.back = Nowhere
  BY DEF IsAt, AtPoint
<1>3. /\ UNCHANGED queueVars /\ UNCHANGED stackVars /\ armed' = armed /\ userStack' = userStack
      /\ cpu.rip \in Point
  BY DEF Step
<1>4. runningThread \in Q!Ring
  BY Q!RunningInRing, QueueConstants DEF ContextInv, Q!QueueInv
<1>5. cpu.rip = at[runningThread].rip
  BY DEF ContextInv
<1>6. userStack[runningThread] = Nowhere
  BY <1>3, <1>4, <1>5 DEF ContextInv, Own
<1>7. StackShape(userStack')
  BY <1>3 DEF ContextInv
<1> HIDE DEF a
<1> QED BY <1>1, <1>2, <1>3, <1>6, <1>7, ProgramGoesOn DEF a

\* The program is where its handler took over.
LEMMA StepHandlerReturns ==
    ASSUME ContextInv, Q!QueueInv', HandlerReturns
    PROVE  ContextInv'
<1> DEFINE t == runningThread
           old == at[t]
           a == [rip |-> old.back, rbx |-> old.rbx, back |-> Nowhere]
<1>1. t \in Task /\ t \in Q!Ring /\ AtShape(at) /\ StackShape(userStack)
  BY Q!RunningInRing, QueueConstants DEF ContextInv, Q!QueueInv, Q!TypeOK
<1>2. IsAt(old) /\ cpu = [rip |-> old.rip, rbx |-> old.rbx] /\ userStack[t] = old.back
  BY <1>1 DEF AtShape, ContextInv, Own
<1>3. IsAt(a) /\ a.rip = old.back /\ a.rbx = old.rbx /\ a.back = Nowhere
  BY DEF IsAt
<1>4. [[old EXCEPT !.rip = old.back] EXCEPT !.back = Nowhere] = a
  <2> DEFINE p == [old EXCEPT !.rip = old.back]
  <2>1. p = [rip |-> old.back, rbx |-> old.rbx, back |-> old.back]
    BY <1>2 DEF IsAt
  <2> HIDE DEF p
  <2>2. [p EXCEPT !.back = Nowhere] = a
    BY <2>1
  <2> QED BY <2>2 DEF p
<1>5. at' = [at EXCEPT ![t] = a]
  BY <1>1, <1>4 DEF HandlerReturns, AtShape
<1>6. cpu' = [rip |-> a.rip, rbx |-> a.rbx]
  BY <1>2, <1>3 DEF HandlerReturns
<1>7. /\ UNCHANGED queueVars /\ UNCHANGED stackVars /\ armed' = armed
      /\ userStack' = [userStack EXCEPT ![t] = Nowhere]
  BY DEF HandlerReturns
<1>8. StackShape(userStack') /\ userStack'[t] = a.back
      /\ \A u \in Task : u # t => userStack'[u] = userStack[u]
  BY <1>1, <1>3, <1>7 DEF StackShape
<1> HIDE DEF a
<1> QED BY <1>3, <1>5, <1>6, <1>7, <1>8, ProgramGoesOn

\* An alarm is set by the program that runs, which has a saved frame.
LEMMA StepSetAlarm ==
    ASSUME ContextInv, Q!QueueInv', setAlarm
    PROVE  ContextInv'
<1> DEFINE a == at[runningThread]
<1>1. runningThread \in Task /\ runningThread \in Q!Ring /\ AtShape(at)
  BY Q!RunningInRing, QueueConstants DEF ContextInv, Q!QueueInv, Q!TypeOK
<1>2. IsAt(a) /\ cpu = [rip |-> a.rip, rbx |-> a.rbx] /\ userStack[runningThread] = a.back
      /\ (a.rip \in Point => a.back = Nowhere)
  BY <1>1 DEF AtShape, ContextInv, Own
<1>3. /\ UNCHANGED queueVars /\ UNCHANGED stackVars /\ userStack' = userStack /\ cpu' = cpu
      /\ at' = at /\ armed' = armed \cup {runningThread}
  BY DEF setAlarm
<1>4. at' = [at EXCEPT ![runningThread] = a]
  BY <1>1, <1>3 DEF AtShape
<1>5. StackShape(userStack')
  BY <1>3 DEF ContextInv
<1> HIDE DEF a
<1> QED BY <1>2, <1>3, <1>4, <1>5, ProgramGoesOn

-------------------------------------------------------------------------------
\* The program that makes a call is not in its handler.
LEMMA Caller ==
    ASSUME ContextInv
    PROVE  /\ runningThread \in Q!Ring /\ runningThread \in Task /\ runningThread \notin Q!Unused
           /\ Q!Ring \subseteq Task /\ Q!Unused \subseteq Task /\ Q!Ring \cap Q!Unused = {}
           /\ RegsShape(regs) /\ FrameShape(frame) /\ AtShape(at) /\ StackShape(userStack)
           /\ cpu.rip = at[runningThread].rip /\ cpu.rbx = at[runningThread].rbx
           /\ cpu.rip \in Point => at[runningThread].back = Nowhere
<1>1. Q!QueueInv
  BY DEF ContextInv
<1>2. runningThread \in Q!Ring /\ Q!Ring \subseteq Task /\ Q!Unused \subseteq Task /\ Q!Ring \cap Q!Unused = {}
  BY <1>1, Q!RunningInRing, Q!QueuesAreTasks, Q!UnusedIsNowhere, QueueConstants DEF Q!QueueInv, Q!Unused
<1>3. cpu.rip = at[runningThread].rip /\ cpu.rbx = at[runningThread].rbx
  BY DEF ContextInv
<1>4. Own(runningThread)
  BY <1>2 DEF ContextInv
<1> QED BY <1>2, <1>3, <1>4 DEF ContextInv, Own

\* A new structure with its first registers and frame.
Fresh(R, F, t, rip, rbx) ==
    /\ R = [regs EXCEPT ![t] = NewRegs(rip, rbx)]
    /\ F = [frame EXCEPT ![t] = _prepareInitialKernelStack(NewRegs(rip, rbx))]

StartsAt(R, F, t, rip, rbx) ==
    /\ RegsShape(R) /\ FrameShape(F)
    /\ R[t].count = 0
    /\ \A a : a.rip = rip /\ a.rbx = rbx => Good(R[t], F[t], a)
    /\ \A u \in Task : u # t => R[u] = regs[u] /\ F[u] = frame[u]

\* The first switch to it finds that frame and starts at its rip.
LEMMA FirstFrame ==
    ASSUME NEW rip, NEW rbx, NEW R, NEW F, NEW t \in Task,
           RegsShape(regs), FrameShape(frame), Fresh(R, F, t, rip, rbx)
    PROVE  StartsAt(R, F, t, rip, rbx)
<1> DEFINE r == NewRegs(rip, rbx)
           f == _prepareInitialKernelStack(r)
<1>1. IsRegs(r) /\ r.kernelRsp = 0 /\ r.count = 0 /\ r.rip = rip /\ r.rbx = rbx
  BY DEF NewRegs, IsRegs
<1>2. f = [position |-> 1, rip |-> rip]
  BY <1>1 DEF _prepareInitialKernelStack
<1>3. IsFrame(f) /\ f.position = 1 /\ f.rip = rip
  BY <1>2 DEF IsFrame
<1> HIDE DEF r, f
<1>4. R[t] = r /\ F[t] = f /\ \A u \in Task : u # t => R[u] = regs[u] /\ F[u] = frame[u]
  BY DEF RegsShape, FrameShape, Fresh, r, f
<1>5. RegsShape(R)
  BY <1>1, <1>4 DEF RegsShape, Fresh, r
<1>6. FrameShape(F)
  BY <1>3, <1>4 DEF FrameShape, Fresh, f
<1>7. \A a : a.rip = rip /\ a.rbx = rbx => Good(R[t], F[t], a)
  BY <1>1, <1>3, <1>4 DEF Good, ResumePosition
<1> QED BY <1>1, <1>4, <1>5, <1>6, <1>7 DEF StartsAt

\* fork(): the child starts where the parent made the call.
LEMMA StepFork ==
    ASSUME ContextInv, Q!QueueInv', Q!TypeOK', fork
    PROVE  ContextInv'
<1>1. cpu.rip \in Point /\ Q!fork
  BY SameActions DEF fork
<1>2. PICK child \in Q!Unused :
        /\ pid_t' = [pid_t EXCEPT ![child] = pidCount + 1]
        /\ state' = [state EXCEPT ![child] = 1]
        /\ next' = [next EXCEPT ![child] = next[runningThread], ![runningThread] = child]
  BY <1>1 DEF Q!fork
<1>3. UNCHANGED <<runningThread, deleteQueue>>
  BY <1>1 DEF Q!fork
<1> DEFINE t == runningThread
<1>4. /\ t \in Q!Ring /\ t \in Task /\ t \notin Q!Unused /\ Q!Ring \subseteq Task /\ Q!Unused \subseteq Task
      /\ Q!Ring \cap Q!Unused = {}
      /\ RegsShape(regs) /\ FrameShape(frame) /\ AtShape(at) /\ StackShape(userStack)
      /\ cpu.rip = at[t].rip /\ cpu.rbx = at[t].rbx /\ at[t].back = Nowhere
  BY <1>1, Caller
<1>5. Q!QueueInv /\ Q!TypeOK
  BY DEF ContextInv, Q!QueueInv
<1>6. Q!Ring' = Q!Ring \cup {child} /\ Q!Dead' = Q!Dead
  BY <1>2, <1>3, <1>5, Q!ForkLinks, QueueConstants DEF Q!Joins
<1>7. next'[t] = child /\ child # t /\ child \in Task /\ child \notin Q!Ring
  BY <1>2, <1>4, <1>5 DEF Q!TypeOK
<1>8. /\ regs' = [regs EXCEPT ![child] = NewRegs(cpu.rip, cpu.rbx)]
      /\ frame' = [frame EXCEPT ![child] = _prepareInitialKernelStack(NewRegs(cpu.rip, cpu.rbx))]
      /\ at' = [at EXCEPT ![child] = at[t]]
      /\ UNCHANGED <<tss, cpu, armed, userStack>>
  BY <1>7 DEF fork
<1>9. /\ RegsShape(regs') /\ FrameShape(frame')
      /\ regs'[child].count = 0
      /\ \A a : a.rip = cpu.rip /\ a.rbx = cpu.rbx => Good(regs'[child], frame'[child], a)
      /\ \A u \in Task : u # child => regs'[u] = regs[u] /\ frame'[u] = frame[u]
  <2>1. Fresh(regs', frame', child, cpu.rip, cpu.rbx)
    BY <1>8 DEF Fresh
  <2>2. StartsAt(regs', frame', child, cpu.rip, cpu.rbx)
    BY <1>4, <1>7, <2>1, FirstFrame
  <2> QED BY <2>2 DEF StartsAt
<1>10. AtShape(at') /\ at'[child] = at[t] /\ \A u \in Task : u # child => at'[u] = at[u]
  BY <1>4, <1>7, <1>8 DEF AtShape
<1>11. Q!Unused' \subseteq Q!Unused \ {child}
  BY <1>2, <1>5, <1>7 DEF Q!Unused, Q!TypeOK
<1>12. Good(regs'[child], frame'[child], at'[child])
  BY <1>4, <1>9, <1>10
<1>13. \A u \in Q!Ring' \ {runningThread'} : Good(regs'[u], frame'[u], at'[u])
  <2> TAKE u \in Q!Ring' \ {runningThread'}
  <2>1. CASE u = child
    BY <1>12, <2>1
  <2>2. CASE u # child
    <3>1. u \in Q!Ring \ {runningThread} /\ u \in Task
      BY <1>3, <1>4, <1>6, <2>2
    <3>2. Good(regs[u], frame[u], at[u])
      BY <3>1 DEF ContextInv
    <3> QED BY <1>9, <1>10, <2>2, <3>1, <3>2
  <2> QED BY <2>1, <2>2
<1>14. \A u \in Q!Ring' : Own(u)'
  <2> TAKE u \in Q!Ring'
  <2>1. CASE u = child
    <3>1. userStack[child] = Nowhere /\ child \notin armed
      BY <1>2 DEF ContextInv
    <3> QED BY <1>4, <1>8, <1>10, <2>1, <3>1 DEF Own
  <2>2. CASE u # child
    <3>1. u \in Q!Ring /\ u \in Task /\ Own(u)
      BY <1>4, <1>6, <2>2 DEF ContextInv
    <3> QED BY <1>8, <1>9, <1>10, <2>2, <3>1 DEF Own
  <2> QED BY <2>1, <2>2
<1>15. \A u \in Q!Unused' : userStack'[u] = Nowhere /\ u \notin armed'
  BY <1>8, <1>11 DEF ContextInv
<1>16. cpu' = [rip |-> at'[runningThread'].rip, rbx |-> at'[runningThread'].rbx]
       /\ regs'[runningThread'].count = 1 /\ StackShape(userStack') /\ tss' \in Int
  BY <1>3, <1>4, <1>7, <1>8, <1>9, <1>10 DEF ContextInv
<1> QED BY <1>9, <1>10, <1>13, <1>14, <1>15, <1>16 DEF ContextInv

\* exec(): the new structure starts at the entry.
LEMMA StepExec ==
    ASSUME ContextInv, Q!QueueInv', Q!TypeOK', exec
    PROVE  ContextInv'
<1>1. Q!exec
  BY SameActions DEF exec
<1>2. PICK task \in Q!Unused :
        /\ pid_t' = [pid_t EXCEPT ![task] = pid_t[runningThread]]
        /\ state' = [state EXCEPT ![task] = 1]
        /\ next' = [next EXCEPT ![task] = next[runningThread], ![Q!Pred(runningThread)] = task]
        /\ runningThread' = task
  BY <1>1 DEF Q!exec
<1>3. deleteQueue' = deleteQueue /\ runningThread # sbush
  BY <1>1 DEF Q!exec
<1> DEFINE t == runningThread
           q == NewRegs(Entry, Entry)
           R == [regs EXCEPT ![task] = q]
           F == [frame EXCEPT ![task] = _prepareInitialKernelStack(q)]
           a == AtPoint(Entry, Entry)
<1>4. /\ t \in Q!Ring /\ t \in Task /\ t \notin Q!Unused /\ Q!Ring \subseteq Task /\ Q!Unused \subseteq Task
      /\ Q!Ring \cap Q!Unused = {}
      /\ RegsShape(regs) /\ FrameShape(frame) /\ AtShape(at) /\ StackShape(userStack)
  BY Caller
<1>5. Q!QueueInv /\ Q!TypeOK
  BY DEF ContextInv, Q!QueueInv
<1>6. Q!Ring' = (Q!Ring \ {t}) \cup {task} /\ Q!Dead' = Q!Dead
  BY <1>2, <1>3, <1>5, Q!ExecLinks, QueueConstants DEF Q!Replaces
<1>7. task # t /\ task \in Task /\ task \notin Q!Ring
  BY <1>2, <1>4
<1>8. /\ SwitchTo(runningThread', R, F)
      /\ at' = [at EXCEPT ![task] = a]
      /\ armed' = armed /\ userStack' = userStack
  BY <1>2 DEF exec
<1>9. R = R /\ F = F
  OBVIOUS
<1>10. a.rip = Entry /\ a.rbx = Entry /\ a.back = Nowhere /\ IsAt(a)
  BY DEF AtPoint, IsAt
<1> HIDE DEF a
<1>11. /\ RegsShape(R) /\ FrameShape(F)
       /\ \A b : b.rip = Entry /\ b.rbx = Entry => Good(R[task], F[task], b)
       /\ \A u \in Task : u # task => R[u] = regs[u] /\ F[u] = frame[u]
  <2>1. Fresh(R, F, task, Entry, Entry)
    BY DEF Fresh
  <2> HIDE DEF R, F
  <2>2. StartsAt(R, F, task, Entry, Entry)
    BY <1>4, <1>7, <2>1, FirstFrame
  <2> QED BY <2>2 DEF StartsAt
<1> HIDE DEF R, F, t
<1>12. AtShape(at') /\ at'[task] = a /\ \A u \in Task : u # task => at'[u] = at[u]
  BY <1>4, <1>7, <1>8, <1>10 DEF AtShape
<1>13. Q!Unused' \subseteq Q!Unused \ {task}
  <2>1. pid_t[t] # 0
    BY <1>4 DEF Q!Unused
  <2> QED BY <1>2, <1>5, <1>7, <2>1 DEF Q!Unused, Q!TypeOK, t
<1>14. ASSUME NEW u \in Q!Ring', u # task
       PROVE  u \in Q!Ring \ {runningThread} /\ u \in Task /\ R[u] = regs[u] /\ F[u] = frame[u]
              /\ at'[u] = at[u]
  BY <1>4, <1>6, <1>11, <1>12, <1>14 DEF t
<1>15. \A u \in Q!Ring' : Good(R[u], F[u], at'[u])
  <2> TAKE u \in Q!Ring'
  <2>1. CASE u = task
    BY <1>10, <1>11, <1>12, <2>1
  <2>2. CASE u # task
    BY <1>14, <2>2 DEF ContextInv
  <2> QED BY <2>1, <2>2
<1>16. \A u \in Q!Ring' : /\ userStack'[u] = at'[u].back
                          /\ at'[u].rip \in Point => at'[u].back = Nowhere
                          /\ u \in armed' => u = runningThread' \/ R[u].count = 1
  <2> TAKE u \in Q!Ring'
  <2>1. CASE u = task
    BY <1>2, <1>8, <1>10, <1>12, <2>1 DEF ContextInv
  <2>2. CASE u # task
    <3>1. Own(u)
      BY <1>14, <2>2 DEF ContextInv
    <3> QED BY <1>8, <1>14, <2>2, <3>1 DEF Own
  <2> QED BY <2>1, <2>2
<1>17. \A u \in Q!Unused' : userStack'[u] = Nowhere /\ u \notin armed'
  BY <1>8, <1>13 DEF ContextInv
<1>18. StackShape(userStack')
  BY <1>4, <1>8
<1> QED BY <1>8, <1>11, <1>12, <1>15, <1>16, <1>17, <1>18, SwitchKeeps

-------------------------------------------------------------------------------
\* Steps that end a process.
LEMMA LeavingDepth ==
    ASSUME Q!QueueInv, NEW t \in Q!Ring, Q!Ends(t), \A u \in Task \ Q!Ring : state'[u] = state[u]
    PROVE  /\ Depth \in Nat /\ Depth' \in Nat /\ Depth <= Depth'
           /\ Q!Unused' = Q!Unused /\ Q!Ring' = Q!Ring \ {t}
<1>1. Q!Ring' = Q!Ring \ {t} /\ Q!Dead' \in {Q!Dead, Q!Dead \cup {t}} /\ pid_t' = pid_t
  BY DEF Q!Ends, Q!Leaves
<1>2. Q!Ring' \cup Q!Dead' \subseteq Q!Ring \cup Q!Dead \cup Q!Unused
  BY <1>1
<1>3. \A u \in Task \ (Q!Ring \cup Q!Dead \cup Q!Unused) : state'[u] = state[u] /\ pid_t'[u] = pid_t[u]
  BY <1>1
<1>4. Q!Unused' = Q!Unused
  BY <1>1 DEF Q!Unused
<1> QED BY <1>1, <1>2, <1>3, <1>4, DepthGrows

\* The running process is gone; another one is resumed from where it was left.
LEMMA SwitchAway ==
    ASSUME ContextInv, Q!QueueInv', Q!Ends(runningThread),
           \A u \in Task \ Q!Ring : state'[u] = state[u],
           NEW F, FrameShape(F), \A u \in Task : u # runningThread => F[u] = frame[u],
           SwitchTo(runningThread', regs, F), UNCHANGED programVars
    PROVE  ContextInv'
<1>1. /\ runningThread \in Q!Ring /\ Q!Ring \subseteq Task
      /\ RegsShape(regs) /\ AtShape(at) /\ StackShape(userStack)
  BY Caller
<1>2. Q!Unused' = Q!Unused /\ Q!Ring' = Q!Ring \ {runningThread}
  BY <1>1, LeavingDepth DEF ContextInv
<1>3. armed' = armed /\ userStack' = userStack /\ at' = at
  BY DEF programVars
<1>4. \A u \in Q!Ring' : Good(regs[u], F[u], at'[u])
  <2> TAKE u \in Q!Ring'
  <2>1. u \in Q!Ring \ {runningThread} /\ u \in Task /\ F[u] = frame[u]
    BY <1>1, <1>2
  <2> QED BY <1>3, <2>1 DEF ContextInv
<1>5. \A u \in Q!Ring' : /\ userStack'[u] = at'[u].back
                         /\ at'[u].rip \in Point => at'[u].back = Nowhere
                         /\ u \in armed' => u = runningThread' \/ regs[u].count = 1
  <2> TAKE u \in Q!Ring'
  <2>1. Own(u)
    BY <1>2 DEF ContextInv
  <2> QED BY <1>3, <2>1 DEF Own
<1>6. \A u \in Q!Unused' : userStack'[u] = Nowhere /\ u \notin armed'
  BY <1>2, <1>3 DEF ContextInv
<1> QED BY <1>1, <1>3, <1>4, <1>5, <1>6, SwitchKeeps

\* exit(): the next process goes on where it was left.
LEMMA StepExit ==
    ASSUME ContextInv, Q!QueueInv', Q!TypeOK', exit
    PROVE  ContextInv'
<1>1. Q!exit
  BY SameActions DEF exit
<1>2. Q!Ends(runningThread)
  BY <1>1, Q!ExitEnds, QueueConstants DEF ContextInv
<1>3. SwitchTo(runningThread', regs, frame) /\ UNCHANGED programVars
  BY DEF exit
<1>4. \A u \in Task \ Q!Ring : state'[u] = state[u]
  BY <1>1, Caller DEF Q!exit, ContextInv, Q!QueueInv, Q!TypeOK
<1> QED BY <1>2, <1>3, <1>4, Caller, SwitchAway

\* kill(): the caller goes on.
LEMMA StepKill ==
    ASSUME ContextInv, Q!QueueInv', Q!TypeOK', NEW p, kill(p)
    PROVE  ContextInv'
<1>1. Q!kill(p) /\ UNCHANGED stackVars /\ cpu' = cpu /\ UNCHANGED programVars
  BY SameActions DEF kill
<1>2. PICK t \in Q!Ring : Q!Ends(t)
  BY <1>1, Q!KillEnds, QueueConstants DEF ContextInv
<1>3. state' = state /\ runningThread' = runningThread
  BY <1>1 DEF Q!kill
<1>4. Q!Unused' = Q!Unused /\ Q!Ring' = Q!Ring \ {t}
  BY <1>2, <1>3, LeavingDepth DEF ContextInv
<1>5. /\ armed' = armed /\ userStack' = userStack /\ at' = at
      /\ regs' = regs /\ frame' = frame /\ tss' = tss
  BY <1>1 DEF programVars, stackVars
<1>6. \A u \in Q!Ring' \ {runningThread'} : Good(regs'[u], frame'[u], at'[u])
  BY <1>3, <1>4, <1>5 DEF ContextInv
<1>7. \A u \in Q!Ring' : Own(u)'
  BY <1>4, <1>5 DEF ContextInv, Own
<1>8. \A u \in Q!Unused' : userStack'[u] = Nowhere /\ u \notin armed'
  BY <1>4, <1>5 DEF ContextInv
<1>9. /\ RegsShape(regs') /\ FrameShape(frame') /\ AtShape(at') /\ StackShape(userStack')
      /\ cpu' = [rip |-> at'[runningThread'].rip, rbx |-> at'[runningThread'].rbx]
      /\ regs'[runningThread'].count = 1 /\ tss' \in Int
  BY <1>1, <1>3, <1>5 DEF ContextInv
<1> QED BY <1>6, <1>7, <1>8, <1>9 DEF ContextInv

\* Ctrl-C while the foreground process runs is an exit of that process.
LEMMA StepCtrlC ==
    ASSUME ContextInv, Q!QueueInv', Q!TypeOK', KeysHitForeground, CtrlC
    PROVE  ContextInv'
<1>1. Q!CtrlC /\ Q!WithPid(foregroundPid) \subseteq {runningThread} /\ UNCHANGED programVars
  BY SameActions, SameWithPid DEF CtrlC
<1>2. CASE foregroundPid = 1 \/ Q!WithPid(foregroundPid) = {}
  <2>1. UNCHANGED stackVars /\ cpu' = cpu
    BY <1>2, SameWithPid DEF CtrlC
  <2>2. UNCHANGED <<next, runningThread, deleteQueue, pid_t, state>>
    BY <1>1, <1>2 DEF Q!CtrlC, Q!queues
  <2>3. Q!Ring' = Q!Ring /\ Q!Unused' = Q!Unused /\ Depth' = Depth /\ runningThread' = runningThread
    BY <2>2 DEF Q!Ring, Q!Dead, Q!Unused, Q!ReachFrom, Q!Closed, Depth, Dropped
  <2>4. /\ armed' = armed /\ userStack' = userStack /\ at' = at
        /\ regs' = regs /\ frame' = frame /\ tss' = tss
    BY <1>1, <2>1 DEF programVars, stackVars
  <2> QED BY <2>1, <2>3, <2>4 DEF ContextInv, Own
<1>3. CASE ~(foregroundPid = 1 \/ Q!WithPid(foregroundPid) = {})
  <2>1. PICK t \in Q!WithPid(foregroundPid) :
          /\ state' = [state EXCEPT ![t] = 0]
          /\ Q!addToDeleteQueue(t, Q!Unlinked(t))
          /\ runningThread' = next[t]
    BY <1>1, <1>3 DEF Q!CtrlC
  <2>2. t = runningThread /\ t \in Q!Ring /\ pid_t[t] # 1
    BY <1>1, <1>3 DEF Q!WithPid
  <2>3. UNCHANGED <<pid_t, pidCount>> /\ Q!QueueInv
    BY <1>1 DEF Q!CtrlC, ContextInv
  <2>4. t # sbush
    BY <2>2, <2>3, Q!FirstIsSbush, QueueConstants
  <2>5. Q!Leaves(t)
    BY <2>1, <2>2, <2>3, <2>4, Q!DisposeLinks, QueueConstants
  <2>6. \A u \in Task \ {t} : state'[u] = state[u]
    BY <2>1, <2>3 DEF Q!QueueInv, Q!TypeOK
  <2>7. Q!Ends(runningThread) /\ \A u \in Task \ Q!Ring : state'[u] = state[u]
    BY <2>2, <2>3, <2>4, <2>5, <2>6, Caller DEF Q!Ends
  <2>8. PICK R, F : R = Saved(runningThread) /\ F = Interrupted(runningThread)
    OBVIOUS
  <2>9. SwitchTo(runningThread', regs, F)
    BY <1>3, <2>8, SameWithPid DEF CtrlC
  <2>10. FrameShape(F) /\ \A u \in Task : u # runningThread => F[u] = frame[u]
    BY <2>8, Interrupt
  <2> QED BY <1>1, <2>7, <2>9, <2>10, SwitchAway
<1> QED BY <1>2, <1>3

\* A task starts again in a frame below its saved one.
Restarted(R, F, t, r) ==
    /\ R = [regs EXCEPT ![t] = [r EXCEPT !.count = 0]]
    /\ F = [frame EXCEPT ![t] = _prepareInitialKernelStack([r EXCEPT !.count = 0])]

RestartsAt(R, F, t, r) ==
    /\ RegsShape(R) /\ FrameShape(F)
    /\ R[t].count = 0
    /\ \A a : a.rip = r.rip /\ a.rbx = r.rbx => Good(R[t], F[t], a)
    /\ \A u \in Task : u # t => R[u] = regs[u] /\ F[u] = frame[u]

\* The switch to it finds that frame and starts at the rip it was created with.
LEMMA RestartFrame ==
    ASSUME NEW r, IsRegs(r), NEW R, NEW F, NEW t \in Task,
           RegsShape(regs), FrameShape(frame), Restarted(R, F, t, r)
    PROVE  RestartsAt(R, F, t, r)
<1> DEFINE q == [r EXCEPT !.count = 0]
           f == _prepareInitialKernelStack(q)
<1>1. q = [kernelRsp |-> r.kernelRsp, count |-> 0, rip |-> r.rip, rbx |-> r.rbx]
  BY DEF IsRegs
<1>2. IsRegs(q) /\ q.count = 0 /\ q.kernelRsp = r.kernelRsp /\ q.rip = r.rip /\ q.rbx = r.rbx
  BY <1>1 DEF IsRegs
<1>3. f.position = q.kernelRsp + 1 /\ f.rip = q.rip /\ IsFrame(f)
  BY DEF _prepareInitialKernelStack, IsFrame
<1> HIDE DEF q, f
<1>4. R[t] = q /\ F[t] = f /\ \A u \in Task : u # t => R[u] = regs[u] /\ F[u] = frame[u]
  BY DEF RegsShape, FrameShape, Restarted, q, f
<1>5. RegsShape(R)
  BY <1>2, <1>4 DEF RegsShape, Restarted, q
<1>6. FrameShape(F)
  BY <1>3, <1>4 DEF FrameShape, Restarted, f, q
<1>7. \A a : a.rip = r.rip /\ a.rbx = r.rbx => Good(R[t], F[t], a)
  BY <1>2, <1>3, <1>4 DEF Good, ResumePosition
<1> QED BY <1>2, <1>4, <1>5, <1>6, <1>7 DEF RestartsAt

\* A command that is not found is one more of those that failed.
LEMMA DepthSinks ==
    ASSUME Q!QueueInv, Q!TypeOK', Q!execNotFound
    PROVE  /\ Depth \in Nat /\ Depth' \in Nat /\ Depth + 1 <= Depth'
           /\ Q!Unused' = Q!Unused /\ Q!Ring' = Q!Ring \ {runningThread}
           /\ runningThread' \in Q!Ring'
<1> DEFINE t == runningThread
<1>1. Q!Ends(t) /\ next[t] # t
  BY Q!ExecNotFoundEnds, QueueConstants
<1>2. /\ t \in Q!Ring /\ Q!Ring \subseteq Task /\ Q!Ring \cap Q!Dead = {} /\ pid_t[t] # 0
      /\ next \in [Task -> Task \cup {NULL}] /\ state \in [Task -> {0, 1}] /\ next[t] \in Q!Ring
  BY Q!RunningInRing, Q!QueuesAreTasks, Q!NextInRing, QueueConstants DEF Q!QueueInv, Q!TypeOK
<1>3. /\ state' = [state EXCEPT ![t] = 0] /\ next' = Q!Unlinked(t)
      /\ runningThread' = next[t] /\ deleteQueue' = deleteQueue /\ pid_t' = pid_t
  BY DEF Q!execNotFound
<1>4. Q!Pred(t) \in Q!Ring
  BY <1>2, Q!PredInRing, QueueConstants
<1>5. \A u \in Q!Dead : next'[u] = next[u]
  BY <1>2, <1>3, <1>4 DEF Q!Unlinked
<1>6. Q!Dead' = Q!Dead
  BY <1>3, <1>5, Q!DeadStays, QueueConstants
<1>7. \A u \in Task \ Q!Ring : state'[u] = state[u]
  BY <1>2, <1>3
<1>8. Depth \in Nat /\ Depth' \in Nat /\ Q!Unused' = Q!Unused /\ Q!Ring' = Q!Ring \ {t}
  BY <1>1, <1>2, <1>7, LeavingDepth
<1>9. t \notin Dropped /\ Dropped \cup {t} \subseteq Dropped'
  BY <1>2, <1>3, <1>6, <1>8 DEF Dropped
<1>10. Dropped' \subseteq Task /\ Dropped \subseteq Task
  BY DEF Dropped
<1>11. IsFiniteSet(Dropped') /\ IsFiniteSet(Dropped) /\ IsFiniteSet(Dropped \cup {t})
  BY <1>2, <1>10, QueueAssumption, FS_Subset, FS_AddElement
<1>12. Cardinality(Dropped \cup {t}) = Depth + 1
  BY <1>9, <1>11, FS_AddElement DEF Depth
<1>13. Depth + 1 <= Depth'
  <2>1. Cardinality(Dropped \cup {t}) <= Cardinality(Dropped')
    BY <1>9, <1>11, FS_Subset
  <2> QED BY <1>12, <2>1 DEF Depth
<1> QED BY <1>1, <1>2, <1>3, <1>8, <1>13

\* exec() of a file that is missing: the next process starts again.
LEMMA StepExecNotFound ==
    ASSUME ContextInv, Q!QueueInv', Q!TypeOK', execNotFound
    PROVE  ContextInv'
<1>1. Q!execNotFound /\ Q!QueueInv
  BY SameActions DEF execNotFound, ContextInv
<1>2. /\ Depth \in Nat /\ Depth' \in Nat /\ Depth + 1 <= Depth'
      /\ Q!Unused' = Q!Unused /\ Q!Ring' = Q!Ring \ {runningThread}
      /\ runningThread' \in Q!Ring'
  BY <1>1, DepthSinks
<1>3. PICK t : t = runningThread'
  OBVIOUS
<1>4. /\ Q!Ring \subseteq Task /\ Q!Ring \cap Q!Unused = {} /\ Q!Unused \subseteq Task
      /\ RegsShape(regs) /\ FrameShape(frame) /\ AtShape(at) /\ StackShape(userStack)
  BY Caller
<1>5. t \in Q!Ring \ {runningThread} /\ t \in Task /\ t \in Q!Ring'
  BY <1>2, <1>3, <1>4
<1>6. PICK r : r = regs[t]
  OBVIOUS
<1> DEFINE q == [r EXCEPT !.count = 0]
<1>7. IsRegs(r) /\ q.rip = r.rip /\ q.rbx = r.rbx
  <2>1. IsRegs(r)
    BY <1>4, <1>5, <1>6 DEF RegsShape
  <2>2. q = [kernelRsp |-> r.kernelRsp, count |-> 0, rip |-> r.rip, rbx |-> r.rbx]
    BY <2>1 DEF IsRegs
  <2> QED BY <2>1, <2>2
<1>8. PICK R, F : /\ R = [regs EXCEPT ![t] = [r EXCEPT !.count = 0]]
                  /\ F = [frame EXCEPT ![t] =
                             _prepareInitialKernelStack([r EXCEPT !.count = 0])]
  OBVIOUS
<1>9. PICK a : a = AtPoint(r.rip, r.rbx)
  OBVIOUS
<1>10. a.rip = r.rip /\ a.rbx = r.rbx /\ a.back = Nowhere /\ IsAt(a)
  BY <1>9 DEF AtPoint, IsAt
<1>11. /\ SwitchTo(runningThread', R, F)
       /\ at' = [at EXCEPT ![t] = a]
       /\ userStack' = [userStack EXCEPT ![t] = Nowhere]
       /\ armed' = armed
  BY <1>3, <1>6, <1>7, <1>8, <1>9 DEF execNotFound
<1>12. /\ RegsShape(R) /\ FrameShape(F)
       /\ R[t].count = 0
       /\ \A b : b.rip = r.rip /\ b.rbx = r.rbx => Good(R[t], F[t], b)
       /\ \A u \in Task : u # t => R[u] = regs[u] /\ F[u] = frame[u]
  <2>1. Restarted(R, F, t, r)
    BY <1>8 DEF Restarted
  <2>2. RestartsAt(R, F, t, r)
    BY <1>4, <1>5, <1>7, <2>1, RestartFrame
  <2> QED BY <2>2 DEF RestartsAt
<1>13. /\ AtShape(at') /\ at'[t] = a /\ \A u \in Task : u # t => at'[u] = at[u]
       /\ StackShape(userStack') /\ userStack'[t] = Nowhere
       /\ \A u \in Task : u # t => userStack'[u] = userStack[u]
  BY <1>4, <1>5, <1>10, <1>11 DEF AtShape, StackShape
<1>14. \A u \in Q!Ring' : u \in Q!Ring \ {runningThread} /\ u \in Task
  BY <1>2, <1>4
<1>15. \A u \in Q!Ring' : Good(R[u], F[u], at'[u])
  <2> TAKE u \in Q!Ring'
  <2>1. CASE u = t
    BY <1>10, <1>12, <1>13, <2>1
  <2>2. CASE u # t
    BY <1>12, <1>13, <1>14, <2>2 DEF ContextInv
  <2> QED BY <2>1, <2>2
<1>16. \A u \in Q!Ring' : /\ userStack'[u] = at'[u].back
                          /\ at'[u].rip \in Point => at'[u].back = Nowhere
                          /\ u \in armed' => u = runningThread' \/ R[u].count = 1
  <2> TAKE u \in Q!Ring'
  <2>1. CASE u = t
    BY <1>3, <1>10, <1>13, <2>1
  <2>2. CASE u # t
    <3>1. Own(u)
      BY <1>14 DEF ContextInv
    <3> QED BY <1>11, <1>12, <1>13, <1>14, <2>2, <3>1 DEF Own
  <2> QED BY <2>1, <2>2
<1>17. \A u \in Q!Unused' : userStack'[u] = Nowhere /\ u \notin armed'
  BY <1>2, <1>4, <1>5, <1>11, <1>13 DEF ContextInv
<1> QED BY <1>11, <1>12, <1>13, <1>15, <1>16, <1>17, SwitchKeeps

-------------------------------------------------------------------------------
\* The timer interrupt: the queues stay, another process of the ring runs.
LEMMA TimerTurns ==
    ASSUME Q!QueueInv, Q!TypeOK', Q!runNextTask
    PROVE  /\ Q!Ring' = Q!Ring /\ Q!Unused' = Q!Unused /\ Depth' = Depth /\ runningThread' \in Q!Ring
<1>1. /\ UNCHANGED <<next, deleteQueue, pid_t, state>> /\ runningThread' = next[runningThread]
  BY DEF Q!runNextTask
<1>2. runningThread' \in Q!Ring
  BY <1>1, Q!NextInRing, QueueConstants
<1>3. Q!Ring' = Q!Ring /\ Q!Dead' = Q!Dead
  BY <1>1, <1>2, Q!NoLinks, QueueConstants
<1> QED BY <1>1, <1>2, <1>3 DEF Q!Unused, Depth, Dropped

\* After the interrupt every task of the ring can be resumed where it is.
LEMMA AllStored ==
    ASSUME ContextInv, NEW R, R = Saved(runningThread),
           NEW F, F = Interrupted(runningThread)
    PROVE  /\ RegsShape(R) /\ FrameShape(F)
           /\ \A u \in Q!Ring : Good(R[u], F[u], at[u])
           /\ \A u \in Q!Ring : u \in armed => R[u].count = 1
<1>1. /\ RegsShape(R) /\ FrameShape(F)
      /\ R[runningThread].count = 1
      /\ Good(R[runningThread], F[runningThread], at[runningThread])
      /\ \A u \in Task : u # runningThread => R[u] = regs[u] /\ F[u] = frame[u]
  BY Interrupt
<1>2. \A u \in Q!Ring : Good(R[u], F[u], at[u])
  <2> TAKE u \in Q!Ring
  <2>1. CASE u = runningThread
    BY <1>1, <2>1
  <2>2. CASE u # runningThread
    BY <1>1, <2>2, Caller DEF ContextInv
  <2> QED BY <2>1, <2>2
<1>3. \A u \in Q!Ring : u \in armed => R[u].count = 1
  <2> TAKE u \in Q!Ring
  <2>1. CASE u = runningThread
    BY <1>1, <2>1
  <2>2. CASE u # runningThread
    BY <1>1, <2>2, Caller DEF ContextInv, Own
  <2> QED BY <2>1, <2>2
<1> QED BY <1>1, <1>2, <1>3

\* The next task goes on, or its alarm is due and it starts its handler.
LEMMA StepRunNextTask ==
    ASSUME ContextInv, Q!QueueInv', Q!TypeOK', runNextTask
    PROVE  ContextInv'
<1>1. Q!runNextTask
  BY SameActions DEF runNextTask
<1>2. /\ Q!Ring' = Q!Ring /\ Q!Unused' = Q!Unused /\ Depth' = Depth /\ runningThread' \in Q!Ring
  BY <1>1, TimerTurns DEF ContextInv
<1>3. PICK t, R, F : t = runningThread' /\ R = Saved(runningThread)
                     /\ F = Interrupted(runningThread)
  OBVIOUS
<1>4. /\ RegsShape(R) /\ FrameShape(F)
      /\ \A u \in Q!Ring : Good(R[u], F[u], at[u])
      /\ \A u \in Q!Ring : u \in armed => R[u].count = 1
  BY <1>3, AllStored
<1>5. /\ Q!Ring \subseteq Task /\ Q!Unused \subseteq Task /\ Q!Ring \cap Q!Unused = {}
      /\ AtShape(at) /\ StackShape(userStack) /\ t \in Q!Ring /\ t \in Task
  BY <1>2, <1>3, Caller
<1>6. CASE SwitchTo(t, R, F) /\ UNCHANGED programVars
  <2>1. armed' = armed /\ userStack' = userStack /\ at' = at
    BY <1>6 DEF programVars
  <2>2. \A u \in Q!Ring' : Good(R[u], F[u], at'[u])
    BY <1>2, <1>4, <2>1
  <2>3. \A u \in Q!Ring' : /\ userStack'[u] = at'[u].back
                           /\ at'[u].rip \in Point => at'[u].back = Nowhere
                           /\ u \in armed' => u = runningThread' \/ R[u].count = 1
    BY <1>2, <1>4, <2>1 DEF ContextInv, Own
  <2>4. \A u \in Q!Unused' : userStack'[u] = Nowhere /\ u \notin armed'
    BY <1>2, <2>1 DEF ContextInv
  <2>5. AtShape(at') /\ StackShape(userStack')
    BY <1>5, <2>1
  <2>6. SwitchTo(runningThread', R, F)
    BY <1>3, <1>6
  <2> QED BY <1>4, <2>2, <2>3, <2>4, <2>5, <2>6, SwitchKeeps
<1>7. ASSUME /\ t \in armed
             /\ SwitchTo(t, R, [F EXCEPT ![t] = [position |-> AlarmPosition(R[t]),
                                                   rip |-> Handler]])
             /\ userStack' = [userStack EXCEPT ![t] = Found(F[t], AlarmPosition(R[t]))]
             /\ at' = [at EXCEPT ![t].rip = Handler, ![t].back = at[t].rip]
             /\ armed' = armed \ {t}
      PROVE  ContextInv'
  <2>1. PICK old : old = at[t]
    OBVIOUS
  <2>2. PICK a : a = [rip |-> Handler, rbx |-> old.rbx, back |-> old.rip]
    OBVIOUS
  <2>3. a.rip = Handler /\ a.rbx = old.rbx /\ a.back = old.rip /\ IsAt(a)
    BY <2>2 DEF IsAt
  <2>4. IsAt(old)
    BY <1>5, <2>1 DEF AtShape
  <2>5. [[old EXCEPT !.rip = Handler] EXCEPT !.back = old.rip] = a
    <3> DEFINE p == [old EXCEPT !.rip = Handler]
    <3>1. p = [rip |-> Handler, rbx |-> old.rbx, back |-> old.back]
      BY <2>4 DEF IsAt
    <3> HIDE DEF p
    <3>2. [p EXCEPT !.back = old.rip] = a
      BY <2>2, <3>1
    <3> QED BY <3>2 DEF p
  <2>6. at' = [at EXCEPT ![t] = a]
    BY <1>5, <1>7, <2>1, <2>5 DEF AtShape
  <2>7. AtShape(at') /\ at'[t] = a /\ \A u \in Task : u # t => at'[u] = at[u]
    BY <1>5, <2>3, <2>6 DEF AtShape
  <2>8. PICK k : k = R[t].kernelRsp
    OBVIOUS
  <2>9. R[t].count = 1 /\ Good(R[t], F[t], old)
    BY <1>4, <1>5, <1>7, <2>1
  <2>10. F[t].position = k /\ F[t].rip = old.rip /\ R[t].rbx = old.rbx /\ ResumePosition(R[t]) = k
    BY <2>8, <2>9 DEF Good, ResumePosition
  <2>11. AlarmPosition(R[t]) = k /\ Found(F[t], k) = old.rip
    BY <2>8, <2>10 DEF AlarmPosition, Found
  <2>12. /\ StackShape(userStack') /\ userStack'[t] = old.rip
         /\ \A u \in Task : u # t => userStack'[u] = userStack[u]
    BY <1>5, <1>7, <2>11 DEF StackShape
  <2>13. PICK f : f = [position |-> k, rip |-> Handler]
    OBVIOUS
  <2>14. f.position = k /\ f.rip = Handler /\ IsFrame(f)
    BY <2>13 DEF IsFrame
  <2>15. PICK G : G = [F EXCEPT ![t] = f]
    OBVIOUS
  <2>16. SwitchTo(runningThread', R, G)
    BY <1>3, <1>7, <2>11, <2>13, <2>15
  <2>17. G[t] = f /\ \A u \in Task : u # t => G[u] = F[u]
    BY <1>4, <1>5, <2>15 DEF FrameShape
  <2>18. FrameShape(G)
    BY <1>4, <1>5, <2>14, <2>15, <2>17 DEF FrameShape
  <2>19. \A u \in Q!Ring' : Good(R[u], G[u], at'[u])
    <3> TAKE u \in Q!Ring'
    <3>1. CASE u = t
      BY <2>3, <2>7, <2>9, <2>10, <2>14, <2>17, <3>1 DEF Good
    <3>2. CASE u # t
      BY <1>2, <1>4, <1>5, <2>7, <2>17, <3>2
    <3> QED BY <3>1, <3>2
  <2>20. Handler \notin Point
    BY ContextAssumption DEF Handler
  <2>21. \A u \in Q!Ring' : /\ userStack'[u] = at'[u].back
                            /\ at'[u].rip \in Point => at'[u].back = Nowhere
                            /\ u \in armed' => u = runningThread' \/ R[u].count = 1
    <3> TAKE u \in Q!Ring'
    <3>1. CASE u = t
      BY <1>3, <2>3, <2>7, <2>12, <2>20, <3>1
    <3>2. CASE u # t
      <4>1. Own(u) /\ u \in Q!Ring /\ u \in Task
        BY <1>2, <1>5 DEF ContextInv
      <4> QED BY <1>4, <1>7, <2>7, <2>12, <3>2, <4>1 DEF Own
    <3> QED BY <3>1, <3>2
  <2>22. \A u \in Q!Unused' : userStack'[u] = Nowhere /\ u \notin armed'
    BY <1>2, <1>5, <1>7, <2>12 DEF ContextInv
  <2> QED BY <1>4, <2>7, <2>12, <2>16, <2>18, <2>19, <2>21, <2>22, SwitchKeeps
<1> QED BY <1>3, <1>6, <1>7 DEF runNextTask

-------------------------------------------------------------------------------
\* Every step keeps the invariant, if Ctrl-C finds the foreground process running.
LEMMA ContextStep ==
    ASSUME ContextInv, KeysHitForeground, [Next]_vars
    PROVE  ContextInv'
<1>1. Q!QueueInv' /\ Q!TypeOK'
  BY QueueGoesOn DEF ContextInv
<1>2. CASE Step
  BY <1>1, <1>2, StepStep
<1>3. CASE HandlerReturns
  BY <1>1, <1>3, StepHandlerReturns
<1>4. CASE setAlarm
  BY <1>1, <1>4, StepSetAlarm
<1>5. CASE fork
  BY <1>1, <1>5, StepFork
<1>6. CASE exec
  BY <1>1, <1>6, StepExec
<1>7. CASE execNotFound
  BY <1>1, <1>7, StepExecNotFound
<1>8. CASE exit
  BY <1>1, <1>8, StepExit
<1>9. ASSUME NEW p, kill(p) PROVE ContextInv'
  BY <1>1, <1>9, StepKill
<1>10. CASE CtrlC
  BY <1>1, <1>10, StepCtrlC
<1>11. CASE runNextTask
  BY <1>1, <1>11, StepRunNextTask
<1>12. CASE UNCHANGED vars
  <2>1. Q!Ring' = Q!Ring /\ Q!Unused' = Q!Unused /\ Depth' = Depth /\ runningThread' = runningThread
    BY <1>12, QueueFrozen DEF vars
  <2>2. /\ armed' = armed /\ userStack' = userStack /\ at' = at /\ cpu' = cpu
        /\ regs' = regs /\ frame' = frame /\ tss' = tss
    BY <1>12 DEF vars, programVars, stackVars
  <2> QED BY <1>1, <2>1, <2>2 DEF ContextInv, Own
<1> QED BY <1>2, <1>3, <1>4, <1>5, <1>6, <1>7, <1>8, <1>9, <1>10, <1>11, <1>12 DEF Next

\* The invariant holds in every state.
LEMMA ContextInvariant ==
    ASSUME KeysHitForeground
    PROVE  Spec => []ContextInv
<1>1. ContextInv /\ [Next]_vars => ContextInv'
  BY ContextStep
<1> QED BY <1>1, ContextInit, PTL DEF Spec

\* A process goes on where it was interrupted, with the registers it had there: after
\* any number of switches, forks, ends of others, restarts and alarms of any number of
\* processes (runNextTask() and every other caller of _moveToNextProcess() in task.c).
THEOREM GoesOnWhereItWas ==
    ASSUME KeysHitForeground
    PROVE  Spec => []ResumesWhereItWas
<1>1. ContextInv => ResumesWhereItWas
  BY DEF ContextInv, ResumesWhereItWas
<1> QED BY <1>1, ContextInvariant, PTL

-------------------------------------------------------------------------------
\* The kernel stacks, whoever runs when Ctrl-C comes.
\* What the tasks that a step leaves alone are resumed with.
LEMMA OthersAreHigh ==
    ASSUME StackInv, NEW u \in Q!Ring, Depth' \in Nat, Depth <= Depth'
    PROVE  HighEnough(regs[u], Depth')
<1>1. u \in Task /\ RegsShape(regs)
  BY Q!QueuesAreTasks, QueueConstants DEF StackInv, Q!QueueInv
<1>2. IsRegs(regs[u]) /\ HighEnough(regs[u], Depth)
  BY <1>1 DEF RegsShape, StackInv
<1> QED BY <1>2, DepthIsNat, HighStays

\* What the invariant says of the running process.
LEMMA StackCaller ==
    ASSUME StackInv
    PROVE  /\ Q!QueueInv /\ Q!TypeOK /\ RegsShape(regs) /\ Depth \in Nat
           /\ runningThread \in Q!Ring /\ runningThread \in Task /\ Q!Ring \subseteq Task
  BY Q!RunningInRing, Q!QueuesAreTasks, DepthIsNat, QueueConstants DEF StackInv, Q!QueueInv

\* A step that switches keeps the stacks as high as those of the new ring are in R.
LEMMA SwitchHigh ==
    ASSUME Q!QueueInv', NEW R, NEW F, RegsShape(R), SwitchTo(runningThread', R, F),
           Depth' \in Nat, \A u \in Q!Ring' : HighEnough(R[u], Depth')
    PROVE  StackInv'
<1>1. PICK t : t = runningThread'
  OBVIOUS
<1>2. t \in Q!Ring' /\ t \in Task /\ Q!Ring' \subseteq Task
  BY <1>1 DEF Q!QueueInv, Q!TypeOK, Q!Ring, Q!ReachFrom
<1>3. /\ RegsShape(regs')
      /\ regs'[t].count = 1
      /\ regs'[t].kernelRsp = R[t].kernelRsp
      /\ tss' = IF R[t].count = 0 THEN R[t].kernelRsp ELSE R[t].kernelRsp - 1
      /\ \A u \in Task : u # t => regs'[u] = R[u]
  BY <1>1, <1>2, SwitchedRegs
<1>4. R[t].kernelRsp \in Int /\ HighEnough(R[t], Depth')
  BY <1>2 DEF RegsShape, IsRegs
<1>5. tss' \in Int /\ tss' <= Depth'
  BY <1>3, <1>4, SMT DEF HighEnough
<1>6. \A u \in Q!Ring' : HighEnough(regs'[u], Depth')
  <2> TAKE u \in Q!Ring'
  <2>1. CASE u = t
    BY <1>3, <1>4, <2>1, SMT DEF HighEnough
  <2>2. CASE u # t
    BY <1>2, <1>3, <2>2
  <2> QED BY <2>1, <2>2
<1> QED BY <1>1, <1>3, <1>5, <1>6 DEF StackInv

\* A step that pushes nothing and does not switch.
LEMMA StandsHigh ==
    ASSUME StackInv, Q!QueueInv', UNCHANGED stackVars, runningThread' = runningThread,
           Q!Ring' \subseteq Q!Ring, Depth' \in Nat, Depth <= Depth'
    PROVE  StackInv'
<1>1. regs' = regs /\ tss' = tss
  BY DEF stackVars
<1>2. tss' \in Int /\ tss' <= Depth'
  <2>1. tss \in Int /\ tss <= Depth
    BY DEF StackInv
  <2> QED BY <1>1, <2>1, DepthIsNat, SMT
<1>3. \A u \in Q!Ring' : HighEnough(regs'[u], Depth')
  BY <1>1, OthersAreHigh
<1> QED BY <1>1, <1>2, <1>3 DEF StackInv

\* A new structure starts with an empty stack.
LEMMA FirstRegs ==
    ASSUME NEW rip, NEW rbx, NEW R, NEW F, NEW t \in Task, RegsShape(regs),
           Fresh(R, F, t, rip, rbx)
    PROVE  /\ RegsShape(R)
           /\ \A d \in Nat : HighEnough(R[t], d)
           /\ \A u \in Task : u # t => R[u] = regs[u]
<1>1. PICK r : r = NewRegs(rip, rbx)
  OBVIOUS
<1>2. IsRegs(r) /\ r.kernelRsp = 0
  BY <1>1 DEF NewRegs, IsRegs
<1>3. R[t] = r /\ \A u \in Task : u # t => R[u] = regs[u]
  BY <1>1 DEF RegsShape, Fresh
<1>4. RegsShape(R)
  BY <1>1, <1>2, <1>3 DEF RegsShape, Fresh
<1>5. \A d \in Nat : HighEnough(R[t], d)
  BY <1>2, <1>3, SMT DEF HighEnough
<1> QED BY <1>3, <1>4, <1>5

\* The structure that fork and exec take joins the ring with those registers.
LEMMA JoinsHigh ==
    ASSUME StackInv, NEW R, NEW t \in Task, Q!Ring' \subseteq Q!Ring \cup {t},
           \A d \in Nat : HighEnough(R[t], d),
           \A u \in Task : u # t => R[u] = regs[u],
           Depth' \in Nat, Depth <= Depth'
    PROVE  \A u \in Q!Ring' : HighEnough(R[u], Depth')
<1> TAKE u \in Q!Ring'
<1>1. CASE u = t
  BY <1>1
<1>2. CASE u # t
  BY <1>2, StackCaller, OthersAreHigh
<1> QED BY <1>1, <1>2

\* fork() pushes only the first frame of the child, on an empty stack.
LEMMA StackFork ==
    ASSUME StackInv, Q!QueueInv', Q!TypeOK', fork
    PROVE  StackInv'
<1>1. Q!fork
  BY SameActions DEF fork
<1>2. PICK child \in Q!Unused :
        /\ pid_t' = [pid_t EXCEPT ![child] = pidCount + 1]
        /\ state' = [state EXCEPT ![child] = 1]
        /\ next' = [next EXCEPT ![child] = next[runningThread], ![runningThread] = child]
  BY <1>1 DEF Q!fork
<1>3. UNCHANGED <<runningThread, deleteQueue>>
  BY <1>1 DEF Q!fork
<1>4. child \in Task /\ child \notin Q!Ring /\ child # runningThread
  BY <1>2, StackCaller, Q!UnusedIsNowhere, QueueConstants
<1>5. Q!Ring' = Q!Ring \cup {child} /\ Q!Dead' = Q!Dead
  BY <1>2, <1>3, StackCaller, Q!ForkLinks, QueueConstants DEF Q!Joins
<1>6. Depth \in Nat /\ Depth' \in Nat /\ Depth <= Depth'
  <2>1. \A u \in Task \ (Q!Ring \cup Q!Dead \cup Q!Unused) : state'[u] = state[u] /\ pid_t'[u] = pid_t[u]
    BY <1>2, StackCaller DEF Q!TypeOK
  <2>2. Q!Ring' \cup Q!Dead' \subseteq Q!Ring \cup Q!Dead \cup Q!Unused
    BY <1>5
  <2> QED BY <2>1, <2>2, StackCaller, DepthGrows
<1>7. next'[runningThread] = child
  BY <1>2, <1>4, StackCaller DEF Q!TypeOK
<1>8. Fresh(regs', frame', child, cpu.rip, cpu.rbx) /\ tss' = tss
  BY <1>7 DEF fork, Fresh
<1>9. /\ RegsShape(regs')
      /\ \A d \in Nat : HighEnough(regs'[child], d)
      /\ \A u \in Task : u # child => regs'[u] = regs[u]
  BY <1>4, <1>8, StackCaller, FirstRegs
<1>10. \A u \in Q!Ring' : HighEnough(regs'[u], Depth')
  BY <1>4, <1>5, <1>6, <1>9, JoinsHigh
<1>11. tss' \in Int /\ tss' <= Depth'
  <2>1. tss \in Int /\ tss <= Depth
    BY DEF StackInv
  <2> QED BY <1>6, <1>8, <2>1, SMT
<1>12. regs'[runningThread'].count = 1
  BY <1>3, <1>4, <1>9, StackCaller DEF StackInv
<1> QED BY <1>9, <1>10, <1>11, <1>12 DEF StackInv

\* exec() pushes only the first frame of the new structure.
LEMMA StackExec ==
    ASSUME StackInv, Q!QueueInv', Q!TypeOK', exec
    PROVE  StackInv'
<1>1. Q!exec
  BY SameActions DEF exec
<1>2. PICK task \in Q!Unused :
        /\ pid_t' = [pid_t EXCEPT ![task] = pid_t[runningThread]]
        /\ state' = [state EXCEPT ![task] = 1]
        /\ next' = [next EXCEPT ![task] = next[runningThread], ![Q!Pred(runningThread)] = task]
        /\ runningThread' = task
  BY <1>1 DEF Q!exec
<1>3. deleteQueue' = deleteQueue /\ runningThread # sbush
  BY <1>1 DEF Q!exec
<1>4. task \in Task /\ task \notin Q!Ring
  BY <1>2, StackCaller, Q!UnusedIsNowhere, QueueConstants
<1>5. Q!Ring' = (Q!Ring \ {runningThread}) \cup {task} /\ Q!Dead' = Q!Dead
  BY <1>2, <1>3, StackCaller, Q!ExecLinks, QueueConstants DEF Q!Replaces
<1>6. Depth \in Nat /\ Depth' \in Nat /\ Depth <= Depth'
  <2>1. \A u \in Task \ (Q!Ring \cup Q!Dead \cup Q!Unused) : state'[u] = state[u] /\ pid_t'[u] = pid_t[u]
    BY <1>2, StackCaller DEF Q!TypeOK
  <2>2. Q!Ring' \cup Q!Dead' \subseteq Q!Ring \cup Q!Dead \cup Q!Unused
    BY <1>2, <1>5
  <2> QED BY <2>1, <2>2, StackCaller, DepthGrows
<1>7. PICK R, F : /\ Fresh(R, F, task, Entry, Entry)
                  /\ SwitchTo(runningThread', R, F)
  BY <1>2 DEF exec, Fresh
<1>8. /\ RegsShape(R)
      /\ \A d \in Nat : HighEnough(R[task], d)
      /\ \A u \in Task : u # task => R[u] = regs[u]
  BY <1>4, <1>7, StackCaller, FirstRegs
<1>9. \A u \in Q!Ring' : HighEnough(R[u], Depth')
  <2>1. Q!Ring' \subseteq Q!Ring \cup {task}
    BY <1>5
  <2> QED BY <1>4, <1>6, <1>8, <2>1, JoinsHigh
<1> QED BY <1>6, <1>7, <1>8, <1>9, SwitchHigh

\* The process that starts again sinks by one frame, and one more command has failed.
LEMMA StackExecNotFound ==
    ASSUME StackInv, Q!QueueInv', Q!TypeOK', execNotFound
    PROVE  StackInv'
<1>1. Q!execNotFound
  BY SameActions DEF execNotFound
<1>2. /\ Depth \in Nat /\ Depth' \in Nat /\ Depth + 1 <= Depth'
      /\ Q!Ring' = Q!Ring \ {runningThread} /\ runningThread' \in Q!Ring'
  BY <1>1, StackCaller, DepthSinks
<1>3. PICK t : t = runningThread'
  OBVIOUS
<1>4. t \in Q!Ring /\ t \in Task
  BY <1>2, <1>3, StackCaller
<1>5. PICK r : r = regs[t]
  OBVIOUS
<1>6. IsRegs(r) /\ HighEnough(r, Depth)
  BY <1>4, <1>5, StackCaller DEF RegsShape, StackInv
<1>7. PICK q : q = [r EXCEPT !.count = 0]
  OBVIOUS
<1>8. IsRegs(q) /\ q.count = 0 /\ q.kernelRsp = r.kernelRsp
  BY <1>6, <1>7 DEF IsRegs
<1>9. PICK R, F : /\ R = [regs EXCEPT ![t] = q]
                  /\ F = [frame EXCEPT ![t] = _prepareInitialKernelStack(q)]
  OBVIOUS
<1>10. SwitchTo(runningThread', R, F)
  BY <1>3, <1>5, <1>7, <1>9 DEF execNotFound
<1>11. R[t] = q /\ \A u \in Task : u # t => R[u] = regs[u]
  BY <1>4, <1>9, StackCaller DEF RegsShape
<1>12. RegsShape(R)
  BY <1>8, <1>9, <1>11, StackCaller DEF RegsShape
<1>13. \A u \in Q!Ring' : HighEnough(R[u], Depth')
  <2> TAKE u \in Q!Ring'
  <2>1. CASE u = t
    <3>1. q.kernelRsp \in Int /\ q.kernelRsp <= 1 + Depth
      BY <1>6, <1>8 DEF HighEnough, IsRegs
    <3>2. q.kernelRsp <= Depth'
      BY <1>2, <3>1, SMT
    <3> QED BY <1>2, <1>11, <2>1, <3>1, <3>2, SMT DEF HighEnough
  <2>2. CASE u # t
    <3>1. Depth <= Depth' /\ u \in Q!Ring
      BY <1>2
    <3> QED BY <1>2, <1>11, <2>2, <3>1, StackCaller, OthersAreHigh
  <2> QED BY <2>1, <2>2
<1> QED BY <1>2, <1>10, <1>12, <1>13, SwitchHigh

\* exit() pushes nothing.
LEMMA StackExit ==
    ASSUME StackInv, Q!QueueInv', Q!TypeOK', exit
    PROVE  StackInv'
<1>1. Q!exit
  BY SameActions DEF exit
<1>2. Q!Ends(runningThread)
  BY <1>1, StackCaller, Q!ExitEnds, QueueConstants
<1>3. \A u \in Task \ Q!Ring : state'[u] = state[u]
  BY <1>1, StackCaller DEF Q!exit, Q!TypeOK
<1>4. Depth' \in Nat /\ Depth <= Depth' /\ Q!Ring' = Q!Ring \ {runningThread}
  BY <1>2, <1>3, StackCaller, LeavingDepth
<1>5. \A u \in Q!Ring' : HighEnough(regs[u], Depth')
  BY <1>4, OthersAreHigh
<1>6. SwitchTo(runningThread', regs, frame)
  BY DEF exit
<1> QED BY <1>4, <1>5, <1>6, StackCaller, SwitchHigh

\* kill() pushes nothing.
LEMMA StackKill ==
    ASSUME StackInv, Q!QueueInv', Q!TypeOK', NEW p, kill(p)
    PROVE  StackInv'
<1>1. Q!kill(p) /\ UNCHANGED stackVars
  BY SameActions DEF kill
<1>2. PICK t \in Q!Ring : Q!Ends(t)
  BY <1>1, StackCaller, Q!KillEnds, QueueConstants
<1>3. state' = state /\ runningThread' = runningThread
  BY <1>1 DEF Q!kill
<1>4. Depth' \in Nat /\ Depth <= Depth' /\ Q!Ring' = Q!Ring \ {t}
  BY <1>2, <1>3, StackCaller, LeavingDepth
<1> QED BY <1>1, <1>3, <1>4, StandsHigh

\* Ctrl-C switches to the task behind the one that ends, without storing anything of
\* the one that ran: it may lose its place, but its stack does not sink.
LEMMA StackCtrlC ==
    ASSUME StackInv, Q!QueueInv', Q!TypeOK', CtrlC
    PROVE  StackInv'
<1>1. Q!CtrlC
  BY SameActions DEF CtrlC
<1>2. CASE foregroundPid = 1 \/ Q!WithPid(foregroundPid) = {}
  <2>1. UNCHANGED stackVars
    BY <1>2, SameWithPid DEF CtrlC
  <2>2. UNCHANGED <<next, runningThread, deleteQueue, pid_t, state>>
    BY <1>1, <1>2 DEF Q!CtrlC, Q!queues
  <2>3. Q!Ring' = Q!Ring /\ Depth' = Depth
    BY <2>2 DEF Q!Ring, Q!Dead, Q!ReachFrom, Q!Closed, Depth, Dropped
  <2> QED BY <2>1, <2>2, <2>3, StackCaller, StandsHigh
<1>3. CASE ~(foregroundPid = 1 \/ Q!WithPid(foregroundPid) = {})
  <2>1. PICK t \in Q!WithPid(foregroundPid) :
          /\ state' = [state EXCEPT ![t] = 0]
          /\ Q!addToDeleteQueue(t, Q!Unlinked(t))
          /\ runningThread' = next[t]
    BY <1>1, <1>3 DEF Q!CtrlC
  <2>2. t \in Q!Ring /\ pid_t[t] # 1 /\ UNCHANGED <<pid_t, pidCount>>
    BY <1>1, <1>3 DEF Q!WithPid, Q!CtrlC
  <2>3. t # sbush
    BY <2>2, StackCaller, Q!FirstIsSbush, QueueConstants
  <2>4. Q!Leaves(t)
    BY <2>1, <2>2, <2>3, StackCaller, Q!DisposeLinks, QueueConstants
  <2>5. \A u \in Task \ {t} : state'[u] = state[u]
    BY <2>1, StackCaller DEF Q!TypeOK
  <2>6. Q!Ends(t) /\ \A u \in Task \ Q!Ring : state'[u] = state[u]
    BY <2>2, <2>3, <2>4, <2>5, StackCaller DEF Q!Ends
  <2>7. Depth' \in Nat /\ Depth <= Depth' /\ Q!Ring' = Q!Ring \ {t}
    BY <2>2, <2>6, StackCaller, LeavingDepth
  <2>8. \A u \in Q!Ring' : HighEnough(regs[u], Depth')
    BY <2>7, OthersAreHigh
  <2>9. PICK F : F = Interrupted(runningThread)
    OBVIOUS
  <2>10. SwitchTo(runningThread', regs, F)
    BY <1>3, <2>9, SameWithPid DEF CtrlC
  <2> QED BY <2>7, <2>8, <2>10, StackCaller, SwitchHigh
<1> QED BY <1>2, <1>3

\* The timer stores the interrupted task one frame below where it was pushed from.
LEMMA StackRunNextTask ==
    ASSUME StackInv, Q!QueueInv', Q!TypeOK', runNextTask
    PROVE  StackInv'
<1>1. Q!runNextTask
  BY SameActions DEF runNextTask
<1>2. Q!Ring' = Q!Ring /\ Depth' = Depth
  BY <1>1, StackCaller, TimerTurns
<1>3. PICK R : R = Saved(runningThread)
  OBVIOUS
<1>4. /\ RegsShape(R)
      /\ R[runningThread].count = 1 /\ R[runningThread].kernelRsp = tss + 1
      /\ \A u \in Task : u # runningThread => R[u] = regs[u]
  BY <1>3, StackCaller, SavedRegs DEF StackInv
<1>5. \A u \in Q!Ring : HighEnough(R[u], Depth)
  <2> TAKE u \in Q!Ring
  <2>1. CASE u = runningThread
    <3>1. tss \in Int /\ tss <= Depth /\ Depth \in Nat
      BY DepthIsNat DEF StackInv
    <3> QED BY <1>4, <2>1, <3>1, SMT DEF HighEnough
  <2>2. CASE u # runningThread
    BY <1>4, <2>2, StackCaller DEF StackInv
  <2> QED BY <2>1, <2>2
<1>6. Depth' \in Nat /\ \A u \in Q!Ring' : HighEnough(R[u], Depth')
  BY <1>2, <1>5, DepthIsNat
<1>7. \E F : SwitchTo(runningThread', R, F)
  BY <1>3 DEF runNextTask
<1> QED BY <1>4, <1>6, <1>7, SwitchHigh

\* Every step keeps the stacks as high.
LEMMA StackStep ==
    ASSUME StackInv, [Next]_vars
    PROVE  StackInv'
<1>1. Q!QueueInv' /\ Q!TypeOK'
  BY QueueGoesOn DEF StackInv
<1>2. CASE UNCHANGED queueVars /\ UNCHANGED stackVars
  BY <1>1, <1>2, QueueFrozen, StackCaller, StandsHigh
<1>3. (Step \/ HandlerReturns \/ setAlarm \/ UNCHANGED vars)
        => UNCHANGED queueVars /\ UNCHANGED stackVars
  BY DEF Step, HandlerReturns, setAlarm, vars
<1>4. ASSUME NEW p, kill(p) PROVE StackInv'
  BY <1>1, <1>4, StackKill
<1> QED BY <1>1, <1>2, <1>3, <1>4, StackFork, StackExec, StackExecNotFound, StackExit,
           StackCtrlC, StackRunNextTask DEF Next

\* After the boot no stack holds a frame but the shell's first.
LEMMA StackInit == Init => StackInv
<1> SUFFICES ASSUME Init PROVE StackInv
  OBVIOUS
<1>1. ContextInv
  BY ContextInit
<1>2. Q!Init /\ tss = 0
  BY SameActions DEF Init
<1>3. runningThread = sbush /\ next[sbush] = sbush
  BY <1>2, QueueAssumption DEF Q!Init
<1>4. Q!Ring = {sbush}
  BY <1>1, <1>3, Q!CyclePred, QueueConstants DEF ContextInv, Q!QueueInv
<1>5. regs[sbush].count = 1 /\ regs[sbush].kernelRsp = 0
  BY QueueAssumption DEF Init, NewRegs
<1> QED BY <1>1, <1>2, <1>3, <1>4, <1>5, DepthIsNat, SMT DEF ContextInv, StackInv, HighEnough

\* The kernel stack of a process sinks by no more frames than commands were not found
\* (the next task starts again in a frame below the one it had, task.c:908), also when
\* Ctrl-C ends a process that does not run.
THEOREM StackSinksNoFurther == Spec => []StackIsBounded
<1>1. StackInv /\ [Next]_vars => StackInv'
  BY StackStep
<1>2. StackInv => StackIsBounded
  <2> SUFFICES ASSUME StackInv, NEW t \in Q!Ring
               PROVE  regs[t].kernelRsp <= 1 + Depth
    BY SameQueues, SameFailed DEF StackIsBounded, Depth
  <2> QED BY DEF StackInv, HighEnough
<1> QED BY <1>1, <1>2, StackInit, PTL DEF Spec
===============================================================================
