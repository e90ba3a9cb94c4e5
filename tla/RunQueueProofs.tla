---------------------------- MODULE RunQueueProofs ----------------------------
(***************************************************************************)
(* The run queue is one cycle, the deleteQueue one chain, process numbers  *)
(* are given once, and the linked structures implement the round robin,    *)
(* for every number of Task structures.                                    *)
(*                                                                         *)
(* First, a cycle is described without counting: a set of structures that  *)
(* next does not leave, that has no smaller set of this kind inside it,    *)
(* and where next is injective.  The lemmas say what each pair of pointer  *)
(* writes of task.c does to such a set, then what each call does.          *)
(*                                                                         *)
(* For the refinement the structures are listed in the order of next, from *)
(* the running one on: each pair of pointer writes is an insertion, a      *)
(* removal or a rotation of the listing, and so of the process numbers.    *)
(***************************************************************************)
EXTENDS RunQueue, TLAPS, WellFoundedInduction, SequenceTheorems,
        FiniteSetTheorems

\* The structures of R are linked by f in one cycle.
IsCycle(f, R) ==
    /\ R \subseteq Task
    /\ R # {}
    /\ \A t \in R : f[t] \in R
    /\ \A S \in SUBSET R : S # {} /\ (\A u \in S : f[u] \in S) => S = R
    /\ \A t, u \in R : f[t] = f[u] => t = u

\* The structures of D are linked by f from h to one that has no successor.
IsChain(f, D, h) ==
    /\ D \subseteq Task
    /\ h \in D
    /\ \A t \in D : f[t] \in D \cup {NULL}
    /\ \A S \in SUBSET D :
          h \in S /\ (\A u \in S : f[u] \in S \cup {NULL}) => S = D
    /\ \E t \in D : f[t] = NULL

\* ReachFrom as an operator of the links.
ReachIn(f, h) ==
    {t \in Task : \A S \in SUBSET Task :
        h \in S /\ (\A u \in S : f[u] \in S \cup {NULL}) => t \in S}

\* Closed and ReachFrom speak of next only; here of any links f.
LEMMA ReachForm ==
    ASSUME NEW f, NEW h \in Task
    PROVE  {t \in Task :
              \A S \in {S \in {R \cup {h} : R \in SUBSET (Task \ {h})} :
                           \A u \in S : f[u] \in S \cup {NULL}} : t \in S}
             = ReachIn(f, h)
<1> DEFINE Around == {S \in {R \cup {h} : R \in SUBSET (Task \ {h})} :
                         \A u \in S : f[u] \in S \cup {NULL}}
<1>1. ASSUME NEW S \in Around
      PROVE  S \in SUBSET Task /\ h \in S /\ \A u \in S : f[u] \in S \cup {NULL}
  OBVIOUS
<1>2. ASSUME NEW S \in SUBSET Task, h \in S,
             \A u \in S : f[u] \in S \cup {NULL}
      PROVE  S \in Around
  <2>1. S \ {h} \in SUBSET (Task \ {h}) /\ S = (S \ {h}) \cup {h}
    BY <1>2
  <2> QED BY <1>2, <2>1
<1>3. {t \in Task : \A S \in Around : t \in S} = ReachIn(f, h)
  BY <1>1, <1>2 DEF ReachIn
<1> QED BY <1>3

-------------------------------------------------------------------------------
\* From every structure of a cycle, the structures reached are the cycle.
LEMMA ReachOfCycle ==
    ASSUME NEW f, NEW R, IsCycle(f, R), NEW h \in R
    PROVE  ReachIn(f, h) = R
<1>1. NULL \notin R
  BY TaskAssumption DEF IsCycle
<1>2. ASSUME NEW t \in ReachIn(f, h)
      PROVE  t \in R
  BY <1>2 DEF ReachIn, IsCycle
<1>3. ASSUME NEW t \in R, NEW S \in SUBSET Task, h \in S,
             \A u \in S : f[u] \in S \cup {NULL}
      PROVE  t \in S
  <2>1. \A u \in S \cap R : f[u] \in S \cap R
    BY <1>1, <1>3 DEF IsCycle
  <2>2. S \cap R = R
    BY <1>3, <2>1 DEF IsCycle
  <2> QED BY <2>2
<1> QED BY <1>2, <1>3 DEF ReachIn, IsCycle

\* From the head of a chain every structure of it is met.
LEMMA ReachOfChain ==
    ASSUME NEW f, NEW D, NEW h, IsChain(f, D, h)
    PROVE  ReachIn(f, h) = D
<1>1. ASSUME NEW t \in ReachIn(f, h)
      PROVE  t \in D
  BY <1>1 DEF ReachIn, IsChain
<1>2. ASSUME NEW t \in D, NEW S \in SUBSET Task, h \in S,
             \A u \in S : f[u] \in S \cup {NULL}
      PROVE  t \in S
  <2>1. \A u \in S \cap D : f[u] \in (S \cap D) \cup {NULL}
    BY <1>2 DEF IsChain
  <2>2. S \cap D = D
    BY <1>2, <2>1 DEF IsChain
  <2> QED BY <2>2
<1> QED BY <1>1, <1>2 DEF ReachIn, IsChain

\* Every structure of a cycle has one in front of it; a cycle of more than
\* one has no structure that is its own successor.
LEMMA CyclePred ==
    ASSUME NEW f, NEW R, IsCycle(f, R), NEW t \in R
    PROVE  /\ \E u \in R : f[u] = t
           /\ f[t] = t => R = {t}
<1>1. DEFINE S == {f[u] : u \in R}
<1>2. S \in SUBSET R /\ S # {} /\ \A u \in S : f[u] \in S
  BY DEF IsCycle
<1>3. S = R
  BY <1>2 DEF IsCycle
<1>4. ASSUME f[t] = t PROVE R = {t}
  <2>1. {t} \in SUBSET R /\ {t} # {} /\ \A u \in {t} : f[u] \in {t}
    BY <1>4
  <2> QED BY <2>1 DEF IsCycle
<1> QED BY <1>3, <1>4

\* A structure linked in behind a member.
LEMMA CycleInsert ==
    ASSUME NEW f \in [Task -> Task \cup {NULL}], NEW R, IsCycle(f, R),
           NEW a \in R, NEW x \in Task \ R
    PROVE  IsCycle([f EXCEPT ![x] = f[a], ![a] = x], R \cup {x})
<1> DEFINE g == [f EXCEPT ![x] = f[a], ![a] = x]
<1> DEFINE Q == R \cup {x}
<1>1. g[x] = f[a] /\ g[a] = x /\ \A u \in R \ {a} : g[u] = f[u]
  BY DEF IsCycle
<1>2. Q \subseteq Task /\ Q # {} /\ \A t \in Q : g[t] \in Q
  BY <1>1 DEF IsCycle
<1>3. ASSUME NEW S \in SUBSET Q, S # {}, \A u \in S : g[u] \in S
      PROVE  S = Q
  <2>1. S \cap R # {}
    BY <1>1, <1>3 DEF IsCycle
  <2>2. ASSUME NEW u \in S \cap R PROVE f[u] \in S \cap R
    <3>1. CASE u = a
      BY <1>1, <1>3, <3>1 DEF IsCycle
    <3>2. CASE u # a
      BY <1>1, <1>3, <3>2 DEF IsCycle
    <3> QED BY <3>1, <3>2
  <2>3. S \cap R = R
    BY <2>1, <2>2 DEF IsCycle
  <2>4. x \in S
    <3>1. a \in S
      BY <2>3
    <3>2. g[a] \in S /\ g[a] = x
      BY <1>1, <1>3, <3>1
    <3> QED BY <3>2
  <2> QED BY <2>3, <2>4
<1>4. \A t, u \in Q : g[t] = g[u] => t = u
  BY <1>1 DEF IsCycle
<1> HIDE DEF g, Q
<1>5. IsCycle(g, Q)
  BY <1>2, <1>3, <1>4 DEF IsCycle
<1> QED BY <1>5 DEF g, Q

\* A member taken out: the one in front of it gets its successor.
LEMMA CycleRemove ==
    ASSUME NEW f \in [Task -> Task \cup {NULL}], NEW R, IsCycle(f, R),
           NEW t \in R, NEW p \in R, f[p] = t, R # {t}
    PROVE  /\ p # t
           /\ f[t] \in R \ {t}
           /\ IsCycle([f EXCEPT ![p] = f[t]], R \ {t})
<1> DEFINE g == [f EXCEPT ![p] = f[t]]
<1> DEFINE Q == R \ {t}
<1>1. f[t] # t /\ p # t /\ f[t] \in Q
  <2>1. f[t] # t
    BY CyclePred
  <2>2. f[t] \in R
    BY DEF IsCycle
  <2> QED BY <2>1, <2>2
<1>2. g[p] = f[t] /\ \A u \in R \ {p} : g[u] = f[u]
  BY DEF IsCycle
<1>3. \A u \in R \ {p} : f[u] # t
  BY DEF IsCycle
<1>4. Q \subseteq Task /\ Q # {} /\ \A u \in Q : g[u] \in Q
  BY <1>1, <1>2, <1>3 DEF IsCycle
<1>5. ASSUME NEW S \in SUBSET Q, S # {}, \A u \in S : g[u] \in S
      PROVE  S = Q
  <2>1. CASE p \in S
    <3>1. ASSUME NEW u \in S \cup {t} PROVE f[u] \in S \cup {t}
      <4>1. CASE u = t
        <5>1. g[p] \in S /\ g[p] = f[t]
          BY <1>2, <1>5, <2>1
        <5> QED BY <4>1, <5>1
      <4>2. CASE u = p
        BY <4>2
      <4>3. CASE u # p /\ u # t
        <5>1. g[u] \in S /\ g[u] = f[u]
          BY <1>2, <1>5, <4>3
        <5> QED BY <5>1
      <4> QED BY <4>1, <4>2, <4>3
    <3>2. S \cup {t} = R
      <4>1. S \cup {t} \in SUBSET R /\ S \cup {t} # {}
        BY <1>5
      <4> QED BY <3>1, <4>1 DEF IsCycle
    <3> QED BY <3>2
  <2>2. CASE p \notin S
    <3>1. \A u \in S : f[u] \in S
      BY <1>2, <1>5, <2>2
    <3>2. S = R
      BY <1>5, <3>1 DEF IsCycle
    <3> QED BY <3>2
  <2> QED BY <2>1, <2>2
<1>6. \A u, w \in Q : g[u] = g[w] => u = w
  BY <1>1, <1>2, <1>3 DEF IsCycle
<1> HIDE DEF g, Q
<1>7. IsCycle(g, Q)
  BY <1>4, <1>5, <1>6 DEF IsCycle
<1> QED BY <1>1, <1>7 DEF g, Q

\* Links of other structures do not matter.
LEMMA CycleFrame ==
    ASSUME NEW f, NEW g, NEW R, IsCycle(f, R), \A u \in R : g[u] = f[u]
    PROVE  IsCycle(g, R)
<1>1. ASSUME NEW S \in SUBSET R, S # {}, \A u \in S : g[u] \in S
      PROVE  S = R
  <2>1. \A u \in S : f[u] \in S
    BY <1>1
  <2> QED BY <1>1, <2>1 DEF IsCycle
<1> QED BY <1>1 DEF IsCycle

\* A chain is not disturbed by links written elsewhere.
LEMMA ChainFrame ==
    ASSUME NEW f, NEW g, NEW D, NEW h, IsChain(f, D, h),
           \A u \in D : g[u] = f[u]
    PROVE  IsChain(g, D, h)
<1>1. ASSUME NEW S \in SUBSET D, h \in S, \A u \in S : g[u] \in S \cup {NULL}
      PROVE  S = D
  <2>1. \A u \in S : f[u] \in S \cup {NULL}
    BY <1>1
  <2> QED BY <1>1, <2>1 DEF IsChain
<1> QED BY <1>1 DEF IsChain

\* A structure appended behind the last one.
LEMMA ChainAppend ==
    ASSUME NEW f \in [Task -> Task \cup {NULL}], NEW D, NEW h, IsChain(f, D, h),
           NEW l \in D, f[l] = NULL, NEW x \in Task \ D
    PROVE  IsChain([f EXCEPT ![l] = x, ![x] = NULL], D \cup {x}, h)
<1> DEFINE g == [f EXCEPT ![l] = x, ![x] = NULL]
<1> DEFINE E == D \cup {x}
<1>1. g[l] = x /\ g[x] = NULL /\ \A u \in D \ {l} : g[u] = f[u]
  BY DEF IsChain
<1>2. E \subseteq Task /\ h \in E /\ \A u \in E : g[u] \in E \cup {NULL}
  BY <1>1 DEF IsChain
<1>3. ASSUME NEW S \in SUBSET E, h \in S, \A u \in S : g[u] \in S \cup {NULL}
      PROVE  S = E
  <2>1. ASSUME NEW u \in S \cap D PROVE f[u] \in (S \cap D) \cup {NULL}
    <3>1. CASE u = l
      BY <3>1
    <3>2. CASE u # l
      BY <1>1, <1>3, <3>2 DEF IsChain
    <3> QED BY <3>1, <3>2
  <2>2. S \cap D = D
    BY <1>3, <2>1 DEF IsChain
  <2>3. x \in S
    BY <1>1, <1>3, <2>2, TaskAssumption
  <2> QED BY <2>2, <2>3
<1> HIDE DEF g, E
<1>4. IsChain(g, E, h)
  <2>1. x \in E /\ g[x] = NULL
    BY <1>1 DEF E
  <2> QED BY <1>2, <1>3, <2>1 DEF IsChain
<1> QED BY <1>4 DEF g, E

\* The first structure of an empty deleteQueue.
LEMMA ChainSingle ==
    ASSUME NEW f \in [Task -> Task \cup {NULL}], NEW x \in Task
    PROVE  IsChain([f EXCEPT ![x] = NULL], {x}, x)
<1>1. [f EXCEPT ![x] = NULL][x] = NULL
  OBVIOUS
<1> QED BY <1>1 DEF IsChain

-------------------------------------------------------------------------------
\* What every call relies on and keeps.  The first process never leaves the
\* run queue, so that it never becomes empty; every number given out is at
\* most pidCount; a structure that was never allocated does not wait, and
\* no process waits for itself.
QueueInv ==
    /\ TypeOK
    /\ IsCycle(next, Ring)
    /\ deleteQueue # NULL => IsChain(next, Dead, deleteQueue)
    /\ Ring \cap Dead = {}
    /\ sbush \in Ring
    /\ pid_t[sbush] = 1
    /\ \A t \in Ring \cup Dead : 1 <= pid_t[t] /\ pid_t[t] <= pidCount
    /\ PidsAreUnique
    /\ \A t \in Ring : state[t] = 1
    /\ \A t \in Unused : waitFor[t] = NotWaiting
    /\ \A t \in Ring : waitFor[t] > 0 => waitFor[t] # pid_t[t]

\* Ring and Dead are what the links reach, before and after a step.
LEMMA RingForm ==
    ASSUME TypeOK, NEW R, IsCycle(next, R), runningThread \in R
    PROVE  Ring = R
<1>1. Ring = ReachIn(next, runningThread)
  BY ReachForm DEF Ring, ReachFrom, Closed, TypeOK
<1> QED BY <1>1, ReachOfCycle

\* The same after a step.
LEMMA RingFormNext ==
    ASSUME TypeOK', NEW R, IsCycle(next', R), runningThread' \in R
    PROVE  Ring' = R
<1>1. Ring' = ReachIn(next', runningThread')
  BY ReachForm DEF Ring, ReachFrom, Closed, TypeOK
<1> QED BY <1>1, ReachOfCycle

\* What is met from a deleteQueue that is a chain.
LEMMA DeadForm ==
    ASSUME TypeOK, NEW D, IF deleteQueue = NULL THEN D = {}
                          ELSE IsChain(next, D, deleteQueue)
    PROVE  Dead = D
<1>1. CASE deleteQueue # NULL
  <2>1. Dead = ReachIn(next, deleteQueue)
    BY <1>1, ReachForm DEF Dead, ReachFrom, Closed, TypeOK
  <2> QED BY <1>1, <2>1, ReachOfChain
<1> QED BY <1>1 DEF Dead

\* The same after a step.
LEMMA DeadFormNext ==
    ASSUME TypeOK', NEW D, IF deleteQueue' = NULL THEN D = {}
                           ELSE IsChain(next', D, deleteQueue')
    PROVE  Dead' = D
<1>1. CASE deleteQueue' # NULL
  <2>1. Dead' = ReachIn(next', deleteQueue')
    BY <1>1, ReachForm DEF Dead, ReachFrom, Closed, TypeOK
  <2> QED BY <1>1, <2>1, ReachOfChain
<1> QED BY <1>1 DEF Dead

\* Both queues consist of Task structures.
LEMMA QueuesAreTasks == Ring \subseteq Task /\ Dead \subseteq Task
  BY DEF Ring, Dead, ReachFrom

\* The running process is in its own ring.
LEMMA RunningInRing ==
    ASSUME TypeOK
    PROVE  runningThread \in Ring
  BY DEF TypeOK, Ring, ReachFrom

\* What the walk over the ring finds.
LEMMA PredInRing ==
    ASSUME QueueInv, NEW t \in Ring
    PROVE  Pred(t) \in Ring /\ next[Pred(t)] = t
<1>1. \E u \in Ring : next[u] = t
  BY CyclePred DEF QueueInv
<1> QED BY <1>1 DEF Pred

\* The walk to the end of the deleteQueue finds one.
LEMMA LastInDead ==
    ASSUME QueueInv, deleteQueue # NULL
    PROVE  LastDead \in Dead /\ next[LastDead] = NULL
<1>1. IsChain(next, Dead, deleteQueue)
  BY DEF QueueInv
<1>2. \E u \in Dead : next[u] = NULL
  BY <1>1 DEF IsChain
<1> QED BY <1>2 DEF LastDead

\* Every call writes values of the declared types.
LEMMA TypeStep ==
    ASSUME QueueInv, [Next]_vars
    PROVE  TypeOK'
<1> USE DEF TypeOK, queues
<1>0. \A t \in Ring : next[t] \in Task
  BY DEF QueueInv, IsCycle
<1>1. next[runningThread] \in Task
  BY <1>0, RunningInRing DEF QueueInv
<1>2. CASE fork
  BY <1>2 DEF fork, Unused, QueueInv
<1>3. CASE exec
  <2>1. PICK task \in Unused :
          /\ pid_t' = [pid_t EXCEPT ![task] = pid_t[runningThread]]
          /\ state' = [state EXCEPT ![task] = 1]
          /\ next' = [next EXCEPT ![task] = next[runningThread],
                                  ![Pred(runningThread)] = task]
          /\ runningThread' = task
    BY <1>3 DEF exec
  <2>2. task \in Task
    BY DEF Unused
  <2>3. next' \in [Task -> Task \cup {NULL}]
    <3> DEFINE P == Pred(runningThread)
    <3>1. next' = [next EXCEPT ![task] = next[runningThread], ![P] = task]
      BY <2>1
    <3> HIDE DEF P
    <3> QED BY <1>1, <2>2, <3>1 DEF QueueInv
  <2> QED BY <1>3, <2>1, <2>2, <2>3 DEF exec, QueueInv
<1>4. CASE execNotFound
  BY <1>1, <1>4 DEF execNotFound, Unlinked, QueueInv, NotWaiting
<1>5. CASE exit
  BY <1>1, <1>5 DEF exit, addToDeleteQueue, Unlinked, QueueInv
<1>6. ASSUME NEW p \in Pids, kill(p) PROVE TypeOK'
  <2>1. PICK t \in Ring : addToDeleteQueue(t, Unlinked(t))
    BY <1>6 DEF kill, WithPid
  <2>2. t \in Task
    BY DEF QueueInv, IsCycle
  <2> QED BY <1>6, <2>1, <2>2 DEF kill, addToDeleteQueue, Unlinked, QueueInv
<1>7. CASE CtrlC
  <2>1. CASE foregroundPid = 1 \/ WithPid(foregroundPid) = {}
    BY <1>7, <2>1 DEF CtrlC, QueueInv
  <2>2. CASE ~(foregroundPid = 1 \/ WithPid(foregroundPid) = {})
    <3>1. PICK t \in Ring :
            /\ state' = [state EXCEPT ![t] = 0]
            /\ addToDeleteQueue(t, Unlinked(t))
            /\ runningThread' = next[t]
      BY <1>7, <2>2 DEF CtrlC, WithPid
    <3>2. t \in Task /\ next[t] \in Task
      BY <1>0 DEF QueueInv, IsCycle
    <3> QED BY <1>7, <3>1, <3>2 DEF CtrlC, addToDeleteQueue, Unlinked, QueueInv
  <2> QED BY <2>1, <2>2
<1>8. ASSUME NEW p \in WaitPids, waitpid(p) PROVE TypeOK'
  <2>1. p \in Nat \cup {AnyChild} /\ NotWaiting \in Nat
    BY TaskAssumption DEF AnyChild, NotWaiting
  <2> QED BY <1>8, <2>1 DEF waitpid, QueueInv
<1>9. CASE runNextTask
  BY <1>1, <1>9 DEF runNextTask, QueueInv
<1>10. CASE UNCHANGED vars
  BY <1>10 DEF vars, QueueInv
<1> QED BY <1>2, <1>3, <1>4, <1>5, <1>6, <1>7, <1>8, <1>9, <1>10 DEF Next

-------------------------------------------------------------------------------
\* Leaving the run queue for the deleteQueue: exit, kill and Ctrl-C.
LEMMA Disposed ==
    ASSUME QueueInv, TypeOK', NEW t \in Ring, t # sbush,
           addToDeleteQueue(t, Unlinked(t)), runningThread' \in Ring \ {t}
    PROVE  /\ Ring' = Ring \ {t} /\ IsCycle(next', Ring')
           /\ Dead' = Dead \cup {t} /\ IsChain(next', Dead', deleteQueue')
<1> DEFINE link == Unlinked(t)
<1>1. t \in Task /\ t \notin Dead /\ Ring # {t} /\ next \in [Task -> Task \cup {NULL}]
  BY DEF QueueInv, TypeOK, IsCycle
<1>2. Pred(t) \in Ring /\ next[Pred(t)] = t
  BY PredInRing
<1>3. IsCycle(link, Ring \ {t})
  BY <1>1, <1>2, CycleRemove DEF QueueInv, Unlinked
<1>4. link \in [Task -> Task \cup {NULL}]
  BY <1>1 DEF Unlinked
<1>5. \A u \in Dead : link[u] = next[u]
  BY <1>1, <1>2 DEF Unlinked, QueueInv, IsCycle
<1> HIDE DEF link
<1>6. CASE deleteQueue = NULL
  <2>1. next' = [link EXCEPT ![t] = NULL] /\ deleteQueue' = t /\ Dead = {}
    BY <1>6 DEF addToDeleteQueue, link, Dead
  <2>2. \A u \in Ring \ {t} : next'[u] = link[u]
    BY <1>4, <2>1 DEF QueueInv, IsCycle
  <2>3. IsCycle(next', Ring \ {t})
    BY <1>3, <2>2, CycleFrame
  <2>4. Ring' = Ring \ {t}
    BY <2>3, RingFormNext
  <2>5. IsChain(next', {t}, deleteQueue')
    BY <1>1, <1>4, <2>1, ChainSingle
  <2>6. deleteQueue' # NULL
    BY <1>1, <2>1, TaskAssumption
  <2>7. Dead' = {t}
    BY <2>5, <2>6, DeadFormNext
  <2> QED BY <2>1, <2>3, <2>4, <2>5, <2>7
<1>7. CASE deleteQueue # NULL
  <2>1. /\ next' = [link EXCEPT ![LastDead] = t, ![t] = NULL]
        /\ deleteQueue' = deleteQueue
    BY <1>7 DEF addToDeleteQueue, link
  <2>2. LastDead \in Dead /\ link[LastDead] = NULL
    BY <1>5, <1>7, LastInDead
  <2>3. \A u \in Ring \ {t} : next'[u] = link[u]
    BY <1>4, <2>1, <2>2 DEF QueueInv, IsCycle
  <2>4. IsCycle(next', Ring \ {t})
    BY <1>3, <2>3, CycleFrame
  <2>5. Ring' = Ring \ {t}
    BY <2>4, RingFormNext
  <2>6. IsChain(link, Dead, deleteQueue)
    BY <1>5, <1>7, ChainFrame DEF QueueInv
  <2>7. IsChain(next', Dead \cup {t}, deleteQueue')
    BY <1>1, <1>4, <2>1, <2>2, <2>6, ChainAppend
  <2>8. Dead' = Dead \cup {t}
    BY <1>7, <2>1, <2>7, DeadFormNext
  <2> QED BY <2>4, <2>5, <2>7, <2>8
<1> QED BY <1>6, <1>7

\* A step that leaves the deleteQueue and the links of its structures alone.
LEMMA DeadStays ==
    ASSUME QueueInv, TypeOK', deleteQueue' = deleteQueue,
           \A u \in Dead : next'[u] = next[u]
    PROVE  Dead' = Dead /\ (deleteQueue' # NULL => IsChain(next', Dead', deleteQueue'))
<1>1. CASE deleteQueue = NULL
  BY <1>1 DEF Dead
<1>2. CASE deleteQueue # NULL
  <2>1. IsChain(next', Dead, deleteQueue')
    BY <1>2, ChainFrame DEF QueueInv
  <2>2. Dead' = Dead
    BY <1>2, <2>1, DeadFormNext
  <2> QED BY <2>1, <2>2
<1> QED BY <1>1, <1>2

\* The links are sound after the step.
LinkedNext ==
    /\ IsCycle(next', Ring')
    /\ deleteQueue' # NULL => IsChain(next', Dead', deleteQueue')

\* What a step does to the two queues.
Joins(c) == Ring' = Ring \cup {c} /\ Dead' = Dead /\ LinkedNext
Replaces(t, c) ==
    Ring' = (Ring \ {t}) \cup {c} /\ Dead' = Dead /\ LinkedNext
Leaves(t) ==
    /\ Ring' = Ring \ {t}
    /\ Dead' \in {Dead, Dead \cup {t}}
    /\ LinkedNext

\* A structure without a number is on no queue.
LEMMA UnusedIsNowhere ==
    ASSUME QueueInv, NEW c \in Unused
    PROVE  c \in Task /\ c \notin Ring /\ c \notin Dead
  BY DEF QueueInv, Unused

\* fork() links the child in behind the parent.
LEMMA ForkLinks ==
    ASSUME QueueInv, TypeOK', NEW child \in Unused,
           next' = [next EXCEPT ![child] = next[runningThread],
                                ![runningThread] = child],
           UNCHANGED <<runningThread, deleteQueue>>
    PROVE  Joins(child)
<1>1. child \in Task /\ child \notin Ring /\ child \notin Dead
  BY UnusedIsNowhere
<1>2. runningThread \in Ring /\ next \in [Task -> Task \cup {NULL}]
  BY RunningInRing DEF QueueInv, TypeOK
<1>3. IsCycle(next', Ring \cup {child})
  BY <1>1, <1>2, CycleInsert DEF QueueInv
<1>4. Ring' = Ring \cup {child}
  BY <1>2, <1>3, RingFormNext
<1>5. \A u \in Dead : next'[u] = next[u]
  BY <1>1, <1>2, QueuesAreTasks DEF QueueInv
<1> QED BY <1>3, <1>4, <1>5, DeadStays DEF Joins, LinkedNext

\* exec() puts the new structure where the running one was: it is taken out
\* and the new one is linked in behind the one in front of it.
LEMMA ExecLinks ==
    ASSUME QueueInv, TypeOK', runningThread # sbush, NEW task \in Unused,
           next' = [next EXCEPT ![task] = next[runningThread],
                                ![Pred(runningThread)] = task],
           runningThread' = task,
           deleteQueue' = deleteQueue
    PROVE  Replaces(runningThread, task)
<1> DEFINE t == runningThread
<1> DEFINE p == Pred(runningThread)
<1> DEFINE f == [next EXCEPT ![p] = next[t]]
<1>1. task \in Task /\ task \notin Ring /\ task \notin Dead
  BY UnusedIsNowhere
<1>2. t \in Ring /\ next \in [Task -> Task \cup {NULL}] /\ Ring # {t} /\ Ring \subseteq Task
  BY RunningInRing DEF QueueInv, TypeOK, IsCycle
<1>3. p \in Ring /\ next[p] = t
  BY <1>2, PredInRing
<1> HIDE DEF p, t
<1>4. p # t /\ next[t] \in Ring \ {t} /\ IsCycle(f, Ring \ {t})
  BY <1>2, <1>3, CycleRemove DEF QueueInv
<1>5. f \in [Task -> Task \cup {NULL}] /\ f[p] = next[t]
  BY <1>2, <1>3, <1>4
<1>6. [f EXCEPT ![task] = f[p], ![p] = task] = next'
  <2>1. next' = [next EXCEPT ![task] = next[t], ![p] = task]
    BY DEF t, p
  <2> QED BY <1>1, <1>2, <1>3, <1>5, <2>1
<1> HIDE DEF f
<1>7. p \in Ring \ {t} /\ task \in Task \ (Ring \ {t})
  BY <1>1, <1>3, <1>4
<1>8. IsCycle(next', (Ring \ {t}) \cup {task})
  <2>1. IsCycle([f EXCEPT ![task] = f[p], ![p] = task], (Ring \ {t}) \cup {task})
    BY <1>4, <1>5, <1>7, CycleInsert
  <2> QED BY <1>6, <2>1
<1>9. Ring' = (Ring \ {t}) \cup {task}
  BY <1>8, RingFormNext
<1>10. \A u \in Dead : next'[u] = next[u]
  <2>1. next' = [next EXCEPT ![task] = next[t], ![p] = task]
    BY DEF t, p
  <2> QED BY <1>1, <1>2, <1>3, <2>1, QueuesAreTasks DEF QueueInv
<1> QED BY <1>8, <1>9, <1>10, DeadStays DEF Replaces, LinkedNext, t

\* A task that is only taken out of the ring.
LEMMA UnlinkLinks ==
    ASSUME QueueInv, TypeOK', NEW t \in Ring, t # sbush, next' = Unlinked(t),
           runningThread' = next[t], deleteQueue' = deleteQueue
    PROVE  Leaves(t) /\ next[t] \in Ring \ {t}
<1>1. Ring # {t} /\ next \in [Task -> Task \cup {NULL}]
  BY DEF QueueInv, TypeOK
<1>2. Pred(t) \in Ring /\ next[Pred(t)] = t
  BY PredInRing
<1>3. next[t] \in Ring \ {t} /\ IsCycle(next', Ring \ {t})
  BY <1>1, <1>2, CycleRemove DEF QueueInv, Unlinked
<1>4. Ring' = Ring \ {t}
  BY <1>3, RingFormNext
<1>5. \A u \in Dead : next'[u] = next[u]
  BY <1>1, <1>2 DEF Unlinked, QueueInv
<1> QED BY <1>3, <1>4, <1>5, DeadStays DEF Leaves, LinkedNext

\* A task that ends and is still listed.
LEMMA DisposeLinks ==
    ASSUME QueueInv, TypeOK', NEW t \in Ring, t # sbush,
           addToDeleteQueue(t, Unlinked(t)),
           \/ runningThread' = next[t]
           \/ runningThread' = runningThread /\ t # runningThread
    PROVE  Leaves(t)
<1>1. Ring # {t} /\ next \in [Task -> Task \cup {NULL}]
  BY DEF QueueInv, TypeOK
<1>2. Pred(t) \in Ring /\ next[Pred(t)] = t
  BY PredInRing
<1>3. next[t] \in Ring \ {t}
  BY <1>1, <1>2, CycleRemove DEF QueueInv
<1>4. runningThread' \in Ring \ {t}
  BY <1>3, RunningInRing DEF QueueInv
<1> QED BY <1>4, Disposed DEF Leaves, LinkedNext

\* Nothing is relinked; another task of the ring may run.
LEMMA NoLinks ==
    ASSUME QueueInv, TypeOK', UNCHANGED <<next, deleteQueue>>,
           runningThread' \in Ring
    PROVE  Ring' = Ring /\ Dead' = Dead /\ LinkedNext
<1>1. IsCycle(next', Ring)
  BY DEF QueueInv
<1>2. Ring' = Ring
  BY <1>1, RingFormNext
<1> QED BY <1>1, <1>2, DeadStays DEF LinkedNext

\* The timer switches to a structure of the ring.
LEMMA NextInRing ==
    ASSUME QueueInv
    PROVE  next[runningThread] \in Ring
  BY RunningInRing DEF QueueInv, IsCycle

-------------------------------------------------------------------------------
\* The boot: sbush alone, linked to itself.
LEMMA QueueInit == Init => QueueInv
<1> SUFFICES ASSUME Init PROVE QueueInv
  OBVIOUS
<1> USE TaskAssumption
<1>1. TypeOK
  BY DEF Init, TypeOK, NotWaiting
<1>2. IsCycle(next, {sbush})
  BY DEF Init, IsCycle
<1>3. Ring = {sbush}
  BY <1>1, <1>2, RingForm DEF Init
<1>4. Dead = {}
  BY DEF Init, Dead
<1> QED BY <1>1, <1>2, <1>3, <1>4 DEF Init, QueueInv, PidsAreUnique, Unused, NotWaiting

\* A task left and nothing else about the numbers changed.
LEMMA LeavingKeeps ==
    ASSUME QueueInv, TypeOK', NEW t \in Ring, t # sbush, Leaves(t),
           UNCHANGED <<pid_t, pidCount>>,
           \A u \in Ring \ {t} : state'[u] = state[u],
           \A u \in Task : waitFor'[u] \in {waitFor[u], NotWaiting}
    PROVE  QueueInv'
<1>1. Ring' \cup Dead' \subseteq Ring \cup Dead /\ Ring' \cap Dead' = {} /\ Ring' \subseteq Ring
  BY DEF Leaves, QueueInv
<1>2. sbush \in Ring' /\ pid_t'[sbush] = 1
  BY DEF Leaves, QueueInv
<1>3. \A u \in Ring' \cup Dead' : 1 <= pid_t'[u] /\ pid_t'[u] <= pidCount'
  BY <1>1 DEF QueueInv
<1>4. PidsAreUnique'
  BY <1>1 DEF QueueInv, PidsAreUnique
<1>5. \A u \in Ring' : state'[u] = 1
  BY DEF Leaves, QueueInv
<1>6. \A u \in Unused' : waitFor'[u] = NotWaiting
  BY DEF Unused, QueueInv
<1>7. \A u \in Ring' : waitFor'[u] > 0 => waitFor'[u] # pid_t'[u]
  BY <1>1 DEF QueueInv, NotWaiting, IsCycle
<1> QED BY <1>1, <1>2, <1>3, <1>4, <1>5, <1>6, <1>7 DEF QueueInv, Leaves, LinkedNext

\* fork keeps the invariant and gives a new number.
LEMMA ForkStep ==
    ASSUME QueueInv, TypeOK', fork
    PROVE  QueueInv' /\ LivePids' \cap 1 .. pidCount \subseteq LivePids
<1>1. PICK child \in Unused :
        /\ pid_t' = [pid_t EXCEPT ![child] = pidCount + 1]
        /\ state' = [state EXCEPT ![child] = 1]
        /\ next' = [next EXCEPT ![child] = next[runningThread],
                                ![runningThread] = child]
  BY DEF fork
<1>2. UNCHANGED <<runningThread, deleteQueue, waitFor>> /\ pidCount' = pidCount + 1
  BY DEF fork
<1>3. Joins(child)
  BY <1>1, <1>2, ForkLinks
<1>4. child \in Task /\ child \notin Ring /\ child \notin Dead
  BY UnusedIsNowhere
<1>5. pidCount \in Nat /\ Ring \subseteq Task /\ Dead \subseteq Task
        /\ pid_t \in [Task -> Nat] /\ state \in [Task -> {0, 1}]
  BY QueuesAreTasks DEF QueueInv, TypeOK
<1>6. pid_t'[child] = pidCount + 1 /\ \A u \in Task \ {child} : pid_t'[u] = pid_t[u]
  BY <1>1, <1>4, <1>5
<1>7. \A u \in Ring \cup Dead : 1 <= pid_t[u] /\ pid_t[u] <= pidCount /\ pid_t[u] \in Nat
  BY <1>5 DEF QueueInv
<1>8. Ring' = Ring \cup {child} /\ Dead' = Dead
  BY <1>3 DEF Joins
<1>9. sbush \in Ring' /\ pid_t'[sbush] = 1 /\ Ring' \cap Dead' = {}
  BY <1>4, <1>5, <1>6, <1>8 DEF QueueInv
<1>10. \A u \in Ring' \cup Dead' : 1 <= pid_t'[u] /\ pid_t'[u] <= pidCount'
  BY <1>2, <1>4, <1>5, <1>6, <1>7, <1>8
<1>11. PidsAreUnique'
  <2>1. \A u, w \in Ring \cup Dead : pid_t[u] = pid_t[w] => u = w
    BY DEF QueueInv, PidsAreUnique
  <2>2. \A u \in Ring \cup Dead : pid_t'[u] = pid_t[u] /\ pid_t'[u] # pid_t'[child]
    BY <1>4, <1>5, <1>6, <1>7
  <2>3. \A u, w \in (Ring \cup Dead) \cup {child} : pid_t'[u] = pid_t'[w] => u = w
    BY <2>1, <2>2
  <2>4. Ring' \cup Dead' = (Ring \cup Dead) \cup {child}
    BY <1>8
  <2> QED BY <2>3, <2>4 DEF PidsAreUnique
<1>12. \A u \in Ring' : state'[u] = 1
  BY <1>1, <1>4, <1>5, <1>8 DEF QueueInv
<1>13. waitFor[child] = NotWaiting /\ \A u \in Unused' : waitFor'[u] = NotWaiting
  <2>1. Unused' \subseteq Unused
    BY <1>4, <1>5, <1>6 DEF Unused
  <2> QED BY <1>2, <2>1 DEF QueueInv
<1>14. \A u \in Ring' : waitFor'[u] > 0 => waitFor'[u] # pid_t'[u]
  <2>1. \A u \in Ring : waitFor'[u] > 0 => waitFor'[u] # pid_t'[u]
    BY <1>2, <1>4, <1>5, <1>6 DEF QueueInv
  <2> QED BY <1>2, <1>8, <1>13, <2>1 DEF NotWaiting
<1>15. LivePids' \cap 1 .. pidCount \subseteq LivePids
  BY <1>4, <1>5, <1>6, <1>8 DEF LivePids
<1> QED BY <1>3, <1>9, <1>10, <1>11, <1>12, <1>13, <1>14, <1>15
        DEF QueueInv, Joins, LinkedNext

\* exec keeps the invariant and passes a number on.
LEMMA ExecStep ==
    ASSUME QueueInv, TypeOK', exec
    PROVE  QueueInv' /\ LivePids' \cap 1 .. pidCount \subseteq LivePids
<1> DEFINE t == runningThread
<1>1. PICK task \in Unused :
        /\ pid_t' = [pid_t EXCEPT ![task] = pid_t[runningThread]]
        /\ state' = [state EXCEPT ![task] = 1]
        /\ next' = [next EXCEPT ![task] = next[runningThread],
                                ![Pred(runningThread)] = task]
        /\ runningThread' = task
  BY DEF exec
<1>2. UNCHANGED <<deleteQueue, waitFor>> /\ pidCount' = pidCount + 1 /\ t # sbush
  BY DEF exec
<1>3. Replaces(t, task)
  BY <1>1, <1>2, ExecLinks
<1>4. task \in Task /\ task \notin Ring /\ task \notin Dead /\ t \in Ring
  BY UnusedIsNowhere, RunningInRing DEF QueueInv
<1>5. pidCount \in Nat /\ Ring \subseteq Task /\ Dead \subseteq Task
        /\ pid_t \in [Task -> Nat] /\ state \in [Task -> {0, 1}]
  BY QueuesAreTasks DEF QueueInv, TypeOK
<1>6. pid_t'[task] = pid_t[t] /\ \A u \in Task \ {task} : pid_t'[u] = pid_t[u]
  BY <1>1, <1>4, <1>5
<1>7. \A u \in Ring \cup Dead : 1 <= pid_t[u] /\ pid_t[u] <= pidCount /\ pid_t[u] \in Nat
  BY <1>5 DEF QueueInv
<1> HIDE DEF t
<1>8. Ring' = (Ring \ {t}) \cup {task} /\ Dead' = Dead
  BY <1>3 DEF Replaces
<1>9. sbush \in Ring' /\ pid_t'[sbush] = 1 /\ Ring' \cap Dead' = {}
  BY <1>2, <1>4, <1>5, <1>6, <1>8 DEF QueueInv
<1>10. \A u \in Ring' \cup Dead' : 1 <= pid_t'[u] /\ pid_t'[u] <= pidCount'
  BY <1>2, <1>4, <1>5, <1>6, <1>7, <1>8
<1>11. PidsAreUnique'
  <2>1. \A u, w \in Ring \cup Dead : pid_t[u] = pid_t[w] => u = w
    BY DEF QueueInv, PidsAreUnique
  <2> DEFINE rest == (Ring \ {t}) \cup Dead
  <2>2. \A u \in rest : pid_t'[u] = pid_t[u] /\ u # t /\ u \in Ring \cup Dead
    BY <1>4, <1>5, <1>6 DEF QueueInv
  <2>3. \A u \in rest : pid_t'[u] # pid_t'[task]
    BY <1>4, <1>6, <2>1, <2>2
  <2>4. \A u, w \in rest \cup {task} : pid_t'[u] = pid_t'[w] => u = w
    BY <2>1, <2>2, <2>3
  <2>5. Ring' \cup Dead' = rest \cup {task}
    BY <1>8
  <2> QED BY <2>4, <2>5 DEF PidsAreUnique
<1>12. \A u \in Ring' : state'[u] = 1
  BY <1>1, <1>4, <1>5, <1>8 DEF QueueInv
<1>13. waitFor[task] = NotWaiting /\ \A u \in Unused' : waitFor'[u] = NotWaiting
  <2>1. pid_t[t] # 0
    BY <1>4, <1>7
  <2>2. Unused' \subseteq Unused
    BY <1>4, <1>5, <1>6, <2>1 DEF Unused
  <2> QED BY <1>2, <2>2 DEF QueueInv
<1>14. \A u \in Ring' : waitFor'[u] > 0 => waitFor'[u] # pid_t'[u]
  <2>1. \A u \in Ring : waitFor'[u] > 0 => waitFor'[u] # pid_t'[u]
    BY <1>2, <1>4, <1>5, <1>6 DEF QueueInv
  <2> QED BY <1>2, <1>8, <1>13, <2>1 DEF NotWaiting
<1>15. LivePids' \cap 1 .. pidCount \subseteq LivePids
  BY <1>4, <1>5, <1>6, <1>8 DEF LivePids
<1> QED BY <1>3, <1>9, <1>10, <1>11, <1>12, <1>13, <1>14, <1>15
        DEF QueueInv, Replaces, LinkedNext

\* The number 1 is the first process's, so the ones that end are others.
LEMMA FirstIsSbush ==
    ASSUME QueueInv, NEW t \in Ring, pid_t[t] # 1
    PROVE  t # sbush
  BY DEF QueueInv

\* A ring that shrank, with the same numbers, has no number more.
LEMMA FewerPids ==
    ASSUME Ring' \subseteq Ring, pid_t' = pid_t
    PROVE  LivePids' \cap 1 .. pidCount \subseteq LivePids
  BY DEF LivePids

\* The task that an ending call takes out of the run queue.
Ends(t) ==
    /\ Leaves(t)
    /\ t # sbush
    /\ UNCHANGED <<pid_t, pidCount>>
    /\ \A u \in Ring \ {t} : state'[u] = state[u]

\* exec of a missing file ends the running process.
LEMMA ExecNotFoundEnds ==
    ASSUME QueueInv, TypeOK', execNotFound
    PROVE  Ends(runningThread) /\ next[runningThread] # runningThread
<1> DEFINE t == runningThread
<1>1. /\ t # sbush /\ next' = Unlinked(t) /\ runningThread' = next[t]
      /\ deleteQueue' = deleteQueue /\ state' = [state EXCEPT ![t] = 0]
      /\ UNCHANGED <<pid_t, pidCount>>
  BY DEF execNotFound
<1>2. t \in Ring /\ Ring \subseteq Task /\ state \in [Task -> {0, 1}]
  BY RunningInRing, QueuesAreTasks DEF QueueInv, TypeOK
<1>3. Leaves(t) /\ next[t] \in Ring \ {t}
  BY <1>1, <1>2, UnlinkLinks
<1>4. \A u \in Ring \ {t} : state'[u] = state[u]
  BY <1>1, <1>2
<1> QED BY <1>1, <1>3, <1>4 DEF Ends

\* exit ends the running process.
LEMMA ExitEnds ==
    ASSUME QueueInv, TypeOK', exit
    PROVE  Ends(runningThread)
<1> DEFINE t == runningThread
<1>1. /\ pid_t[t] # 1 /\ addToDeleteQueue(t, Unlinked(t)) /\ runningThread' = next[t]
      /\ state' = [state EXCEPT ![t] = 0] /\ UNCHANGED <<pid_t, pidCount>>
  BY DEF exit
<1>2. t \in Ring /\ Ring \subseteq Task /\ state \in [Task -> {0, 1}]
  BY RunningInRing, QueuesAreTasks DEF QueueInv, TypeOK
<1>3. t # sbush
  BY <1>1, <1>2, FirstIsSbush
<1>4. Leaves(t)
  BY <1>1, <1>2, <1>3, DisposeLinks
<1>5. \A u \in Ring \ {t} : state'[u] = state[u]
  BY <1>1, <1>2
<1> QED BY <1>1, <1>3, <1>4, <1>5 DEF Ends

\* kill ends another process.
LEMMA KillEnds ==
    ASSUME QueueInv, TypeOK', NEW p, kill(p)
    PROVE  \E t \in Ring : Ends(t)
<1>1. PICK t \in Ring : t # runningThread /\ pid_t[t] = p /\ addToDeleteQueue(t, Unlinked(t))
  BY DEF kill, WithPid
<1>2. p # 1 /\ UNCHANGED <<runningThread, pid_t, pidCount, state>>
  BY DEF kill
<1>3. t # sbush
  BY <1>1, <1>2, FirstIsSbush
<1>4. Leaves(t)
  BY <1>1, <1>2, <1>3, DisposeLinks
<1> QED BY <1>2, <1>3, <1>4 DEF Ends

\* Ctrl-C ends a process or does nothing to the queues.
LEMMA CtrlCEnds ==
    ASSUME QueueInv, TypeOK', CtrlC
    PROVE  UNCHANGED <<queues, pid_t, pidCount, state>> \/ \E t \in Ring : Ends(t)
<1>1. CASE foregroundPid = 1 \/ WithPid(foregroundPid) = {}
  BY <1>1 DEF CtrlC
<1>2. CASE ~(foregroundPid = 1 \/ WithPid(foregroundPid) = {})
  <2>1. PICK t \in Ring :
          /\ pid_t[t] = foregroundPid
          /\ state' = [state EXCEPT ![t] = 0]
          /\ addToDeleteQueue(t, Unlinked(t))
          /\ runningThread' = next[t]
    BY <1>2 DEF CtrlC, WithPid
  <2>2. UNCHANGED <<pid_t, pidCount>>
    BY DEF CtrlC
  <2>3. t # sbush
    BY <1>2, <2>1, FirstIsSbush
  <2>4. Leaves(t)
    BY <2>1, <2>3, DisposeLinks
  <2>5. \A u \in Ring \ {t} : state'[u] = state[u]
    BY <2>1, QueuesAreTasks DEF QueueInv, TypeOK
  <2> QED BY <2>2, <2>3, <2>4, <2>5 DEF Ends
<1> QED BY <1>1, <1>2

\* A step that ends a task keeps the invariant and gives out no number.
LEMMA EndingStep ==
    ASSUME QueueInv, TypeOK', NEW t \in Ring, Ends(t),
           \A u \in Task : waitFor'[u] \in {waitFor[u], NotWaiting}
    PROVE  QueueInv' /\ LivePids' \cap 1 .. pidCount \subseteq LivePids
<1>1. QueueInv'
  BY LeavingKeeps DEF Ends
<1>2. Ring' \subseteq Ring /\ pid_t' = pid_t
  BY DEF Ends, Leaves
<1> QED BY <1>1, <1>2, FewerPids

\* A step that relinks nothing: the timer, waitpid and an idle Ctrl-C.
LEMMA StandingStep ==
    ASSUME QueueInv, TypeOK', UNCHANGED <<next, deleteQueue, pid_t, pidCount, state>>,
           runningThread' \in Ring,
           \A u \in Unused : waitFor'[u] = NotWaiting,
           \A u \in Ring : waitFor'[u] > 0 => waitFor'[u] # pid_t[u]
    PROVE  QueueInv' /\ LivePids' \cap 1 .. pidCount \subseteq LivePids
<1>1. Ring' = Ring /\ Dead' = Dead /\ LinkedNext
  BY NoLinks
<1>2. Unused' = Unused
  BY DEF Unused
<1>3. PidsAreUnique'
  BY <1>1 DEF QueueInv, PidsAreUnique
<1> QED BY <1>1, <1>2, <1>3, FewerPids DEF QueueInv, LinkedNext

\* One call of waitpid keeps the invariant: nobody waits for itself.
LEMMA WaitStep ==
    ASSUME QueueInv, TypeOK', NEW p \in WaitPids, waitpid(p)
    PROVE  QueueInv' /\ LivePids' \cap 1 .. pidCount \subseteq LivePids
<1> DEFINE t == runningThread
<1>1. /\ UNCHANGED <<next, deleteQueue, runningThread, pid_t, pidCount, state>>
      /\ waitFor' = [waitFor EXCEPT ![t] = IF StillAlive(p) THEN p ELSE NotWaiting]
  BY DEF waitpid, queues
<1>2. t \in Ring /\ Ring \subseteq Task /\ waitFor \in [Task -> Nat \cup {AnyChild}]
  BY RunningInRing, QueuesAreTasks DEF QueueInv, TypeOK
<1>3. \A u \in Unused : waitFor'[u] = NotWaiting
  BY <1>1, <1>2, UnusedIsNowhere DEF QueueInv
<1>4. StillAlive(p) /\ p > 0 => p # pid_t[t]
  BY <1>2 DEF StillAlive, AnyChild, QueueInv, PidsAreUnique
<1>5. \A u \in Ring : waitFor'[u] > 0 => waitFor'[u] # pid_t[u]
  BY <1>1, <1>2, <1>4 DEF QueueInv, NotWaiting
<1> QED BY <1>1, <1>2, <1>3, <1>5, StandingStep

\* Every step keeps the invariant and brings no old number back.
LEMMA QueueStep ==
    QueueInv /\ [Next]_vars
        => QueueInv' /\ LivePids' \cap 1 .. pidCount \subseteq LivePids
<1> SUFFICES ASSUME QueueInv, [Next]_vars
             PROVE  QueueInv' /\ LivePids' \cap 1 .. pidCount \subseteq LivePids
  OBVIOUS
<1>1. TypeOK'
  BY TypeStep
<1>2. \A t \in Unused : waitFor[t] = NotWaiting
  BY DEF QueueInv
<1>3. runningThread \in Ring /\ \A t \in Ring : waitFor[t] > 0 => waitFor[t] # pid_t[t]
  BY RunningInRing DEF QueueInv
<1>4. CASE fork
  BY <1>1, <1>4, ForkStep
<1>5. CASE exec
  BY <1>1, <1>5, ExecStep
<1>6. CASE execNotFound
  <2>1. \A u \in Task : waitFor'[u] \in {waitFor[u], NotWaiting}
    BY <1>6 DEF execNotFound, QueueInv, TypeOK
  <2> QED BY <1>1, <1>3, <1>6, <2>1, ExecNotFoundEnds, EndingStep
<1>7. CASE exit
  <2>1. waitFor' = waitFor
    BY <1>7 DEF exit
  <2> QED BY <1>1, <1>3, <1>7, <2>1, ExitEnds, EndingStep
<1>8. ASSUME NEW p \in Pids, kill(p)
      PROVE  QueueInv' /\ LivePids' \cap 1 .. pidCount \subseteq LivePids
  <2>1. waitFor' = waitFor
    BY <1>8 DEF kill
  <2> QED BY <1>1, <1>8, <2>1, KillEnds, EndingStep
<1>9. CASE CtrlC
  <2>1. waitFor' = waitFor
    BY <1>9 DEF CtrlC
  <2>2. CASE UNCHANGED <<queues, pid_t, pidCount, state>>
    BY <1>1, <1>2, <1>3, <2>1, <2>2, StandingStep DEF queues
  <2>3. CASE \E t \in Ring : Ends(t)
    BY <1>1, <2>1, <2>3, EndingStep
  <2> QED BY <1>1, <1>9, <2>2, <2>3, CtrlCEnds
<1>10. ASSUME NEW p \in WaitPids, waitpid(p)
       PROVE  QueueInv' /\ LivePids' \cap 1 .. pidCount \subseteq LivePids
  BY <1>1, <1>10, WaitStep
<1>11. CASE runNextTask
  BY <1>1, <1>2, <1>3, <1>11, NextInRing, StandingStep DEF runNextTask
<1>12. CASE UNCHANGED vars
  BY <1>1, <1>2, <1>3, <1>12, StandingStep DEF vars
<1> QED BY <1>4, <1>5, <1>6, <1>7, <1>8, <1>9, <1>10, <1>11, <1>12 DEF Next

\* The invariant holds in every state.
LEMMA QueueInvariant == Spec => []QueueInv
<1>1. QueueInv /\ [Next]_vars => QueueInv'
  BY QueueStep
<1> QED BY QueueInit, <1>1, PTL DEF Spec

-------------------------------------------------------------------------------
\* The run queue is one cycle of live structures, apart from the deleteQueue,
\* which ends: the walks of task.c over both queues terminate and see every
\* structure, however fork, exec, exit, kill and Ctrl-C follow each other.
THEOREM QueuesStaySound == Spec => []QueuesAreSound
<1>1. QueueInv => QueuesAreSound
  <2> SUFFICES ASSUME QueueInv PROVE QueuesAreSound
    OBVIOUS
  <2>1. Ring \cap Dead = {}
    BY DEF QueueInv
  <2>2. Dead # {} => \E t \in Dead : next[t] = NULL
    <3>1. Dead # {} => deleteQueue # NULL
      BY DEF Dead
    <3> QED BY <3>1, LastInDead
  <2>3. ASSUME NEW t \in Ring
        PROVE  next[t] \in Ring /\ ReachFrom(t) = Ring /\ pid_t[t] # 0 /\ state[t] = 1
    <3>1. t \in Task /\ next[t] \in Ring /\ pid_t[t] # 0 /\ state[t] = 1
      BY DEF QueueInv, IsCycle
    <3>2. ReachFrom(t) = ReachIn(next, t)
      BY <3>1, ReachForm DEF ReachFrom, Closed
    <3>3. ReachFrom(t) = Ring
      BY <3>2, ReachOfCycle DEF QueueInv
    <3> QED BY <3>1, <3>3
  <2> QED BY <2>1, <2>2, <2>3 DEF QueuesAreSound, RingIsACycle
<1> QED BY QueueInvariant, <1>1, PTL

\* No two processes, alive or listed as exited, have one number.
THEOREM PidsStayUnique == Spec => []PidsAreUnique
<1>1. QueueInv => PidsAreUnique
  BY DEF QueueInv
<1> QED BY QueueInvariant, <1>1, PTL

\* fork gives numbers that were never given, and exec only passes one on: a
\* number kept by kill, Ctrl-C or waitpid never comes to mean another process.
THEOREM PidsAreFresh == Spec => PidsAreNotReused
<1>1. QueueInv /\ [Next]_vars => [LivePids' \cap 1 .. pidCount \subseteq LivePids]_vars
  BY QueueStep
<1> QED BY QueueInvariant, <1>1, PTL DEF Spec, PidsAreNotReused

\* Only the running program changes what it waits for, and it stops when the
\* walk of waitpid met no live process with the number.
LEMMA WaitIsSoundStep ==
    ASSUME QueueInv, [Next]_vars, NEW t \in Ring,
           waitFor[t] > 0, waitFor'[t] # waitFor[t], t = runningThread
    PROVE  waitFor[t] \notin LivePids'
<1>1. \A u \in Task : waitFor[u] \in Nat \cup {AnyChild}
  BY DEF QueueInv, TypeOK
<1>2. t \in Task /\ waitFor \in [Task -> Nat \cup {AnyChild}]
  BY QueuesAreTasks DEF QueueInv, TypeOK
<1>3. PICK p \in WaitPids : waitpid(p)
  <2>1. ~execNotFound
    <3>1. ~InProgram
      BY DEF InProgram, NotWaiting
    <3> QED BY <3>1 DEF execNotFound
  <2> QED BY <2>1 DEF Next, fork, exec, exit, kill, CtrlC, runNextTask, vars
<1>4. waitFor[t] = p /\ ~StillAlive(p) /\ UNCHANGED <<queues, pid_t>>
  BY <1>2, <1>3 DEF waitpid, NotWaiting
<1>5. p \in Nat /\ p > 0
  BY <1>2, <1>4 DEF AnyChild
<1>6. \A u \in Ring \ {t} : pid_t[u] # p
  BY <1>4, <1>5 DEF StillAlive, QueueInv, AnyChild
<1>7. pid_t[t] # p
  BY <1>4 DEF QueueInv
<1>8. LivePids' = LivePids
  BY <1>4 DEF LivePids, Ring, ReachFrom, Closed, queues
<1> QED BY <1>4, <1>6, <1>7, <1>8 DEF LivePids

\* A program leaves its waitpid loop by itself only when the process it waits
\* for is gone.
THEOREM WaitStaysSound == Spec => WaitIsSound
<1> DEFINE Sound == \A t \in Ring :
                      waitFor[t] > 0 /\ waitFor'[t] # waitFor[t]
                          => waitFor[t] \notin LivePids' \/ t # runningThread
<1>1. QueueInv /\ [Next]_vars => [Sound]_vars
  BY WaitIsSoundStep
<1> QED BY QueueInvariant, <1>1, PTL DEF Spec, WaitIsSound

-------------------------------------------------------------------------------
\* The structures of a queue in the order of the links: n structures, each once.
Listing(f, s, n, S) ==
    /\ n \in Nat
    /\ s \in [1 .. n -> Task]
    /\ \A i, j \in 1 .. n : s[i] = s[j] => i = j
    /\ S = {s[i] : i \in 1 .. n}
    /\ \A i \in 1 .. n : i # 1 => s[i] = f[s[i - 1]]

RingOrder(f, s, n, R, h) ==
    /\ Listing(f, s, n, R)
    /\ n > 0
    /\ s[1] = h
    /\ f[s[n]] = h

DeadOrder(f, d, m, D, h) ==
    /\ Listing(f, d, m, D)
    /\ IF m = 0 THEN h = NULL ELSE d[1] = h /\ f[d[m]] = NULL

\* Chain as an operator of the links and the numbers.
ChainIn(f, v, h, S) ==
    [i \in 1 .. Cardinality(S) |->
        v[(CHOOSE walk : walk = [i_1 \in 1 .. Cardinality(S) |->
                                    IF i_1 = 1 THEN h ELSE f[walk[i_1 - 1]]])[i]]]

\* The numbers of listed structures.
Numbers(v, s, n) == [i \in 1 .. n |-> v[s[i]]]

\* Every set of naturals that is not empty has a least member.
LEMMA LeastNatural ==
    ASSUME NEW T \in SUBSET Nat, T # {}
    PROVE  \E x \in T : \A y \in T : x <= y
<1>1. \E x \in T : \A y \in T : ~(<<y, x>> \in OpToRel(<, Nat))
  BY NatLessThanWellFounded, WFMin
<1>2. PICK x \in T : \A y \in T : ~(<<y, x>> \in OpToRel(<, Nat))
  BY <1>1
<1>3. \A y \in T : <<y, x>> \in Nat \X Nat
  OBVIOUS
<1>4. \A y \in T : ~(y < x)
  BY <1>2, <1>3 DEF OpToRel
<1> QED BY <1>4, SMT

\* A listing is as long as the queue has structures.
LEMMA ListingSize ==
    ASSUME NEW f, NEW s, NEW n, NEW S, Listing(f, s, n, S)
    PROVE  Cardinality(S) = n
<1>1. s \in Bijection(1 .. n, S)
  BY DEF Listing, Bijection, Injection, Surjection, IsInjective
<1>2. IsFiniteSet(1 .. n) /\ Cardinality(1 .. n) = n
  BY FS_Interval DEF Listing
<1> QED BY <1>1, <1>2, FS_Bijection DEF ExistsBijection

\* The recursive walk of Chain meets the listed structures one after another.
IsWalk(f, w, n, h) ==
    \A i \in 1 .. n : w[i] = IF i = 1 THEN h ELSE f[w[i - 1]]

\* What a walk over the links meets is what is listed.
LEMMA WalkIsListing ==
    ASSUME NEW f, NEW s, NEW n, NEW S, Listing(f, s, n, S), NEW h,
           n > 0 => s[1] = h, NEW w,
           IsWalk(f, w, n, h)
    PROVE  \A i \in 1 .. n : w[i] = s[i]
<1> DEFINE T == {i \in 1 .. n : w[i] # s[i]}
<1>1. CASE T # {}
  <2>1. PICK x \in T : \A y \in T : x <= y
    <3>1. T \in SUBSET Nat
      BY DEF Listing
    <3> QED BY <1>1, <3>1, LeastNatural
  <2>2. x # 1
    BY DEF Listing, IsWalk
  <2>3. x - 1 \in 1 .. n /\ x - 1 \notin T
    BY <2>1, <2>2 DEF Listing
  <2>4. w[x - 1] = s[x - 1]
    BY <2>3
  <2>5. w[x] = f[w[x - 1]] /\ s[x] = f[s[x - 1]]
    BY <2>2 DEF Listing, IsWalk
  <2> QED BY <2>4, <2>5
<1> QED BY <1>1

\* Chain shows the numbers of the structures listed.
LEMMA ChainOfListing ==
    ASSUME NEW f, NEW v, NEW s, NEW n, NEW S, Listing(f, s, n, S), NEW h,
           n > 0 => s[1] = h
    PROVE  ChainIn(f, v, h, S) = Numbers(v, s, n)
<1> DEFINE P(walk) == walk = [i_1 \in 1 .. n |-> IF i_1 = 1 THEN h ELSE f[walk[i_1 - 1]]]
<1> DEFINE W == CHOOSE walk : P(walk)
<1>1. s = [i_1 \in 1 .. n |-> IF i_1 = 1 THEN h ELSE f[s[i_1 - 1]]]
  <2>1. /\ n \in Nat /\ s \in [1 .. n -> Task]
        /\ \A i \in 1 .. n : i # 1 => s[i] = f[s[i - 1]]
    BY DEF Listing
  <2>2. \A i \in 1 .. n : s[i] = IF i = 1 THEN h ELSE f[s[i - 1]]
    BY <2>1
  <2> QED BY <2>1, <2>2
<1>2. W = [i_1 \in 1 .. n |-> IF i_1 = 1 THEN h ELSE f[W[i_1 - 1]]]
  <2>1. P(s)
    BY <1>1
  <2>2. P(W)
    <3> HIDE DEF P
    <3> QED BY <2>1
  <2> QED BY <2>2
<1>3. Cardinality(S) = n
  BY ListingSize
<1>4. ChainIn(f, v, h, S) = [i \in 1 .. n |-> v[W[i]]]
  BY <1>3 DEF ChainIn
<1> HIDE DEF W, P
<1>5. ASSUME NEW i \in 1 .. n PROVE W[i] = IF i = 1 THEN h ELSE f[W[i - 1]]
  <2>1. [i_1 \in 1 .. n |-> IF i_1 = 1 THEN h ELSE f[W[i_1 - 1]]][i]
           = IF i = 1 THEN h ELSE f[W[i - 1]]
    OBVIOUS
  <2> QED BY <1>2, <2>1, Zenon
<1>6. \A i \in 1 .. n : W[i] = s[i]
  <2>1. IsWalk(f, W, n, h)
    BY <1>5 DEF IsWalk
  <2> QED BY <2>1, WalkIsListing
<1> QED BY <1>4, <1>6 DEF Numbers

-------------------------------------------------------------------------------
\* The neighbours of a listed cycle.
LEMMA RingNeighbours ==
    ASSUME NEW f, NEW s, NEW n, NEW R, NEW h, RingOrder(f, s, n, R, h)
    PROVE  /\ n \in Nat \ {0} /\ s \in [1 .. n -> Task] /\ s[1] = h /\ f[s[n]] = h
           /\ \A i \in 1 .. n : i < n => f[s[i]] = s[i + 1]
           /\ \A i \in 1 .. n : s[i] \in R
           /\ \A u \in R : \E i \in 1 .. n : u = s[i]
           /\ \A i, j \in 1 .. n : s[i] = s[j] => i = j
<1>1. \A i \in 1 .. n : i < n => f[s[i]] = s[i + 1]
  <2> TAKE i \in 1 .. n
  <2> HAVE i < n
  <2>1. i + 1 \in 1 .. n /\ i + 1 # 1 /\ (i + 1) - 1 = i
    BY DEF RingOrder, Listing
  <2> QED BY <2>1 DEF RingOrder, Listing
<1> QED BY <1>1 DEF RingOrder, Listing

\* A structure of a listed cycle has one place, and one structure before it.
LEMMA RingPlace ==
    ASSUME NEW f, NEW s, NEW n, NEW R, NEW h, RingOrder(f, s, n, R, h),
           IsCycle(f, R), NEW k \in 1 .. n, NEW p \in R, f[p] = s[k]
    PROVE  p = IF k = 1 THEN s[n] ELSE s[k - 1]
<1>1. CASE k = 1
  BY <1>1, RingNeighbours DEF IsCycle
<1>2. CASE k # 1
  <2>1. k - 1 \in 1 .. n /\ k - 1 < n /\ (k - 1) + 1 = k
    BY <1>2, RingNeighbours
  <2>2. f[s[k - 1]] = s[k] /\ s[k - 1] \in R
    BY <2>1, RingNeighbours
  <2> QED BY <1>2, <2>2 DEF IsCycle
<1> QED BY <1>1, <1>2

\* A sequence that follows the links and meets each of R once lists R.
LEMMA ListingFrom ==
    ASSUME NEW f, NEW s, NEW n \in Nat \ {0}, NEW S, NEW h,
           s \in [1 .. n -> Task],
           \A i, j \in 1 .. n : s[i] = s[j] => i = j,
           \A i \in 1 .. n : s[i] \in S,
           \A u \in S : \E i \in 1 .. n : u = s[i],
           \A i \in 1 .. n : i < n => f[s[i]] = s[i + 1],
           s[1] = h, f[s[n]] = h
    PROVE  RingOrder(f, s, n, S, h)
<1>1. \A i \in 1 .. n : i # 1 => s[i] = f[s[i - 1]]
  <2> TAKE i \in 1 .. n
  <2> HAVE i # 1
  <2>1. i - 1 \in 1 .. n /\ i - 1 < n /\ (i - 1) + 1 = i
    OBVIOUS
  <2> QED BY <2>1
<1> QED BY <1>1 DEF RingOrder, Listing

\* The timer: the head goes to the back.
Rotated(s, n) == [i \in 1 .. n |-> IF i < n THEN s[i + 1] ELSE s[1]]

\* The timer: the same cycle listed from the next structure on.
LEMMA OrderRotated ==
    ASSUME NEW f, NEW s, NEW n, NEW R, NEW h, RingOrder(f, s, n, R, h)
    PROVE  RingOrder(f, Rotated(s, n), n, R, f[h])
<1> DEFINE r == Rotated(s, n)
<1>1. /\ n \in Nat \ {0} /\ s \in [1 .. n -> Task] /\ s[1] = h /\ f[s[n]] = h
      /\ \A i \in 1 .. n : i < n => f[s[i]] = s[i + 1]
      /\ \A i \in 1 .. n : s[i] \in R
      /\ \A u \in R : \E i \in 1 .. n : u = s[i]
      /\ \A i, j \in 1 .. n : s[i] = s[j] => i = j
  BY RingNeighbours
<1>2. r \in [1 .. n -> Task] /\ \A i \in 1 .. n : r[i] = IF i < n THEN s[i + 1] ELSE s[1]
  BY <1>1 DEF Rotated
<1> HIDE DEF r
<1>3. \A i, j \in 1 .. n : r[i] = r[j] => i = j
  <2> TAKE i, j \in 1 .. n
  <2> HAVE r[i] = r[j]
  <2>1. i < n => i + 1 \in 1 .. n /\ i + 1 # 1
    BY <1>1
  <2>2. j < n => j + 1 \in 1 .. n /\ j + 1 # 1
    BY <1>1
  <2> QED BY <1>1, <1>2, <2>1, <2>2
<1>4. \A i \in 1 .. n : r[i] \in R
  BY <1>1, <1>2
<1>5. \A u \in R : \E i \in 1 .. n : u = r[i]
  <2> TAKE u \in R
  <2>1. PICK i \in 1 .. n : u = s[i]
    BY <1>1
  <2>2. CASE i = 1
    <3>1. n \in 1 .. n /\ r[n] = s[1]
      BY <1>1, <1>2
    <3> QED BY <2>1, <2>2, <3>1
  <2>3. CASE i # 1
    <3>1. i - 1 \in 1 .. n /\ r[i - 1] = s[i]
      BY <1>1, <1>2, <2>3
    <3> QED BY <2>1, <3>1
  <2> QED BY <2>2, <2>3
<1>6. \A i \in 1 .. n : i < n => f[r[i]] = r[i + 1]
  BY <1>1, <1>2
<1>7. r[1] = f[h] /\ f[r[n]] = f[h]
  BY <1>1, <1>2
<1>8. RingOrder(f, r, n, R, f[h])
  BY <1>1, <1>2, <1>3, <1>4, <1>5, <1>6, <1>7, ListingFrom
<1> QED BY <1>8 DEF r

\* fork: a structure behind the head.
WithSecond(s, m, x) ==
    [i \in 1 .. m |-> IF i = 1 THEN s[1] ELSE IF i = 2 THEN x ELSE s[i - 1]]

\* fork: the child comes second.
LEMMA OrderWithSecond ==
    ASSUME NEW f \in [Task -> Task \cup {NULL}], NEW s, NEW n, NEW R, NEW h,
           RingOrder(f, s, n, R, h), NEW x \in Task \ R,
           NEW m, m = n + 1
    PROVE  RingOrder([f EXCEPT ![x] = f[h], ![h] = x], WithSecond(s, m, x), m,
                     R \cup {x}, h)
<1> DEFINE r == WithSecond(s, m, x)
<1> DEFINE g == [f EXCEPT ![x] = f[h], ![h] = x]
<1>0. m \in Nat \ {0} /\ m = n + 1 /\ n \in Nat \ {0}
  BY RingNeighbours
<1>1. /\ n \in Nat \ {0} /\ s \in [1 .. n -> Task] /\ s[1] = h /\ f[s[n]] = h
      /\ \A i \in 1 .. n : i < n => f[s[i]] = s[i + 1]
      /\ \A i \in 1 .. n : s[i] \in R
      /\ \A u \in R : \E i \in 1 .. n : u = s[i]
      /\ \A i, j \in 1 .. n : s[i] = s[j] => i = j
  BY RingNeighbours
<1>2. /\ r \in [1 .. m -> Task]
      /\ \A i \in 1 .. m : r[i] = IF i = 1 THEN s[1] ELSE IF i = 2 THEN x ELSE s[i - 1]
  BY <1>0, <1>1 DEF WithSecond
<1>3. h \in R /\ h \in Task /\ x # h
  BY <1>0, <1>1
<1>4. g[x] = f[h] /\ g[h] = x /\ \A i \in 1 .. n : i # 1 => g[s[i]] = f[s[i]]
  BY <1>0, <1>1, <1>3
<1> HIDE DEF r, g
<1>5. \A i, j \in 1 .. m : r[i] = r[j] => i = j
  <2> TAKE i, j \in 1 .. m
  <2> HAVE r[i] = r[j]
  <2>1. i # 1 => i - 1 \in 1 .. n
    BY <1>0, <1>1
  <2>2. j # 1 => j - 1 \in 1 .. n
    BY <1>0, <1>1
  <2>3. 1 \in 1 .. n
    BY <1>0, <1>1
  <2> QED BY <1>0, <1>1, <1>2, <1>3, <2>1, <2>2, <2>3
<1>6. \A i \in 1 .. m : r[i] \in R \cup {x}
  BY <1>0, <1>1, <1>2
<1>7. \A u \in R \cup {x} : \E i \in 1 .. m : u = r[i]
  <2> TAKE u \in R \cup {x}
  <2>1. CASE u = x
    <3>1. 2 \in 1 .. m /\ r[2] = x
      BY <1>0, <1>1, <1>2
    <3> QED BY <2>1, <3>1
  <2>2. CASE u \in R
    <3>1. PICK i \in 1 .. n : u = s[i]
      BY <1>0, <1>1, <2>2
    <3>2. CASE i = 1
      <4>1. 1 \in 1 .. m /\ r[1] = s[1]
        BY <1>0, <1>1, <1>2
      <4> QED BY <3>1, <3>2, <4>1
    <3>3. CASE i # 1
      <4>1. i + 1 \in 1 .. m /\ r[i + 1] = s[i]
        BY <1>0, <1>1, <1>2, <3>3
      <4> QED BY <3>1, <4>1
    <3> QED BY <3>2, <3>3
  <2> QED BY <2>1, <2>2
<1>8. ASSUME NEW i \in 1 .. m, i < m PROVE g[r[i]] = r[i + 1]
  <2>1. i \in 1 .. n /\ i + 1 \in 1 .. m /\ r[i + 1] = IF i = 1 THEN x ELSE s[i]
    BY <1>0, <1>1, <1>2, <1>8
  <2>2. CASE i = 1
    BY <1>0, <1>1, <1>2, <1>4, <2>1, <2>2
  <2>3. CASE i = 2
    BY <1>0, <1>1, <1>2, <1>4, <2>1, <2>3
  <2>4. CASE i > 2
    <3>1. i - 1 \in 1 .. n /\ i - 1 < n /\ i - 1 # 1 /\ (i - 1) + 1 = i
      BY <1>0, <1>1, <2>1, <2>4
    <3>2. r[i] = s[i - 1] /\ g[s[i - 1]] = f[s[i - 1]] /\ f[s[i - 1]] = s[i]
      BY <1>0, <1>1, <1>2, <1>4, <2>1, <2>4, <3>1
    <3> QED BY <2>1, <2>4, <3>2
  <2> QED BY <2>1, <2>2, <2>3, <2>4
<1>9. r[1] = h /\ g[r[m]] = h
  <2>1. CASE n = 1
    BY <1>0, <1>1, <1>2, <1>4, <2>1
  <2>2. CASE n # 1
    BY <1>0, <1>1, <1>2, <1>4, <2>2
  <2> QED BY <2>1, <2>2
<1>10. RingOrder(g, r, m, R \cup {x}, h)
  BY <1>0, <1>1, <1>2, <1>5, <1>6, <1>7, <1>8, <1>9, ListingFrom
<1> QED BY <1>0, <1>10 DEF r, g

\* exec: another structure in the place of the head.
WithHead(s, x) == [s EXCEPT ![1] = x]

\* exec: the new structure comes first.
LEMMA OrderWithHead ==
    ASSUME NEW f \in [Task -> Task \cup {NULL}], NEW s, NEW n, NEW R, NEW h,
           RingOrder(f, s, n, R, h), n # 1, NEW x \in Task \ R
    PROVE  RingOrder([f EXCEPT ![x] = f[h], ![s[n]] = x], WithHead(s, x), n,
                     (R \ {h}) \cup {x}, x)
<1> DEFINE r == WithHead(s, x)
<1> DEFINE g == [f EXCEPT ![x] = f[h], ![s[n]] = x]
<1> DEFINE Q == (R \ {h}) \cup {x}
<1>1. /\ n \in Nat \ {0} /\ s \in [1 .. n -> Task] /\ s[1] = h /\ f[s[n]] = h
      /\ \A i \in 1 .. n : i < n => f[s[i]] = s[i + 1]
      /\ \A i \in 1 .. n : s[i] \in R
      /\ \A u \in R : \E i \in 1 .. n : u = s[i]
      /\ \A i, j \in 1 .. n : s[i] = s[j] => i = j
  BY RingNeighbours
<1>2. r \in [1 .. n -> Task] /\ \A i \in 1 .. n : r[i] = IF i = 1 THEN x ELSE s[i]
  BY <1>1 DEF WithHead
<1>3. s[n] \in R /\ s[n] \in Task /\ x # s[n] /\ n > 1
  BY <1>1
<1>4. g[x] = f[h] /\ g[s[n]] = x /\ \A i \in 1 .. n : i # n => g[s[i]] = f[s[i]]
  BY <1>1, <1>3
<1> HIDE DEF r, g, Q
<1>5. \A i, j \in 1 .. n : r[i] = r[j] => i = j
  BY <1>1, <1>2
<1>6. \A i \in 1 .. n : r[i] \in Q
  BY <1>1, <1>2 DEF Q
<1>7. \A u \in Q : \E i \in 1 .. n : u = r[i]
  BY <1>1, <1>2 DEF Q
<1>8. ASSUME NEW i \in 1 .. n, i < n PROVE g[r[i]] = r[i + 1]
  <2>1. i + 1 \in 1 .. n /\ r[i + 1] = s[i + 1]
    BY <1>1, <1>2, <1>8
  <2>2. CASE i = 1
    BY <1>1, <1>2, <1>4, <1>8, <2>1, <2>2
  <2>3. CASE i # 1
    BY <1>1, <1>2, <1>4, <1>8, <2>1, <2>3
  <2> QED BY <2>2, <2>3
<1>9. r[1] = x /\ g[r[n]] = x
  BY <1>1, <1>2, <1>3, <1>4
<1>10. RingOrder(g, r, n, Q, x)
  BY <1>1, <1>2, <1>5, <1>6, <1>7, <1>8, <1>9, ListingFrom
<1> QED BY <1>10 DEF r, g, Q

\* A queue of n from which one can leave, so that m are left.
OneMore(n, m) == m \in Nat \ {0} /\ n = m + 1

\* A structure that leaves the middle of the queue.
WithoutPlace(s, m, k) == [i \in 1 .. m |-> IF i < k THEN s[i] ELSE s[i + 1]]

\* kill: a structure that is not the first is left out.
LEMMA OrderWithout ==
    ASSUME NEW f, NEW g, NEW s, NEW n, NEW R, NEW h,
           RingOrder(f, s, n, R, h), NEW m, OneMore(n, m),
           NEW k \in 2 .. n,
           \A u \in R \ {s[k]} : g[u] = IF u = s[k - 1] THEN f[s[k]] ELSE f[u]
    PROVE  RingOrder(g, WithoutPlace(s, m, k), m, R \ {s[k]}, h)
<1> DEFINE r == WithoutPlace(s, m, k)
<1> DEFINE t == s[k]
<1>0. m \in Nat \ {0} /\ n = m + 1 /\ k \in Nat /\ 2 <= k /\ k <= n
  BY RingNeighbours DEF OneMore
<1>1. /\ n \in Nat \ {0} /\ s \in [1 .. n -> Task] /\ s[1] = h /\ f[s[n]] = h
      /\ \A i \in 1 .. n : i < n => f[s[i]] = s[i + 1]
      /\ \A i \in 1 .. n : s[i] \in R
      /\ \A u \in R : \E i \in 1 .. n : u = s[i]
      /\ \A i, j \in 1 .. n : s[i] = s[j] => i = j
  BY RingNeighbours
<1>2. r \in [1 .. m -> Task] /\ \A i \in 1 .. m : r[i] = IF i < k THEN s[i] ELSE s[i + 1]
  BY <1>0, <1>1 DEF WithoutPlace
<1>3. \A i \in 1 .. n : i # k => s[i] \in R \ {t}
  BY <1>0, <1>1
<1>4. \A i \in 1 .. n : i # k => g[s[i]] = IF i = k - 1 THEN f[t] ELSE f[s[i]]
  <2> TAKE i \in 1 .. n
  <2> HAVE i # k
  <2>1. s[i] \in R \ {t} /\ k - 1 \in 1 .. n
    BY <1>0, <1>3
  <2>2. s[i] = s[k - 1] <=> i = k - 1
    BY <1>1, <2>1
  <2> QED BY <2>1, <2>2
<1> HIDE DEF r, t
<1>5. \A i, j \in 1 .. m : r[i] = r[j] => i = j
  <2> TAKE i, j \in 1 .. m
  <2> HAVE r[i] = r[j]
  <2>1. i \in 1 .. n /\ j \in 1 .. n /\ i + 1 \in 1 .. n /\ j + 1 \in 1 .. n
    BY <1>0
  <2> DEFINE at(a) == IF a < k THEN a ELSE a + 1
  <2>2. at(i) \in 1 .. n /\ at(j) \in 1 .. n /\ s[at(i)] = s[at(j)]
    BY <1>2, <2>1
  <2>3. at(i) = at(j)
    <3> HIDE DEF at
    <3> QED BY <1>1, <2>2
  <2> QED BY <1>0, <2>3
<1>6. \A i \in 1 .. m : r[i] \in R \ {t}
  <2> TAKE i \in 1 .. m
  <2>1. i \in 1 .. n /\ i + 1 \in 1 .. n
    BY <1>0
  <2> QED BY <1>0, <1>2, <1>3, <2>1
<1>7. \A u \in R \ {t} : \E i \in 1 .. m : u = r[i]
  <2> TAKE u \in R \ {t}
  <2>1. PICK i \in 1 .. n : u = s[i]
    BY <1>1
  <2>2. CASE i < k
    <3>1. i \in 1 .. m /\ r[i] = s[i]
      BY <1>0, <1>2, <2>2
    <3> QED BY <2>1, <3>1
  <2>3. CASE i > k
    <3>1. i - 1 \in 1 .. m /\ r[i - 1] = s[i]
      BY <1>0, <1>2, <2>3
    <3> QED BY <2>1, <3>1
  <2>4. i # k
    BY <2>1 DEF t
  <2> QED BY <1>0, <2>2, <2>3, <2>4
<1>8. ASSUME NEW i \in 1 .. m, i < m PROVE g[r[i]] = r[i + 1]
  <2>1. i + 1 \in 1 .. m /\ i \in 1 .. n /\ i + 1 \in 1 .. n /\ (i + 1) + 1 \in 1 .. n
    BY <1>0, <1>8
  <2>2. CASE i + 1 < k
    BY <1>0, <1>1, <1>2, <1>4, <2>1, <2>2
  <2>3. CASE i + 1 = k
    <3>1. r[i] = s[i] /\ g[s[i]] = f[t] /\ r[i + 1] = s[(i + 1) + 1]
      BY <1>0, <1>2, <1>4, <2>1, <2>3
    <3>2. f[t] = s[(i + 1) + 1]
      BY <1>0, <1>1, <2>1, <2>3 DEF t
    <3> QED BY <3>1, <3>2
  <2>4. CASE i + 1 > k
    <3>1. r[i] = s[i + 1] /\ r[i + 1] = s[(i + 1) + 1] /\ g[s[i + 1]] = f[s[i + 1]]
      BY <1>0, <1>2, <1>4, <2>1, <2>4
    <3>2. f[s[i + 1]] = s[(i + 1) + 1]
      BY <1>0, <1>1, <2>1
    <3> QED BY <3>1, <3>2
  <2> QED BY <1>0, <2>2, <2>3, <2>4
<1>9. r[1] = h /\ g[r[m]] = h
  <2>1. r[1] = h
    BY <1>0, <1>1, <1>2
  <2>2. CASE k = n
    <3>1. m \in 1 .. n /\ n \in 1 .. n /\ r[m] = s[m] /\ g[s[m]] = f[t]
      BY <1>0, <1>2, <1>4, <2>2
    <3> QED BY <1>1, <2>1, <2>2, <3>1 DEF t
  <2>3. CASE k # n
    <3>1. m \in 1 .. m /\ m + 1 = n /\ n \in 1 .. n /\ ~(m < k)
      BY <1>0, <2>3
    <3>2. r[m] = s[n] /\ g[s[n]] = f[s[n]]
      BY <1>0, <1>2, <1>4, <2>3, <3>1
    <3> QED BY <1>1, <2>1, <3>2
  <2> QED BY <2>2, <2>3
<1>10. RingOrder(g, r, m, R \ {t}, h)
  BY <1>0, <1>1, <1>2, <1>5, <1>6, <1>7, <1>8, <1>9, ListingFrom
<1> QED BY <1>10 DEF r, t

\* A structure that leaves while the one behind it becomes the head.
BehindPlace(s, n, m, k) ==
    [i \in 1 .. m |-> IF i <= n - k THEN s[k + i] ELSE s[i - (n - k)]]

\* exit and Ctrl-C: the listing starts behind the one that leaves.
LEMMA OrderBehind ==
    ASSUME NEW f, NEW g, NEW s, NEW n, NEW R, NEW h,
           RingOrder(f, s, n, R, h), NEW m, OneMore(n, m),
           NEW k \in 1 .. n,
           \A u \in R \ {s[k]} :
              g[u] = IF u = (IF k = 1 THEN s[n] ELSE s[k - 1]) THEN f[s[k]] ELSE f[u]
    PROVE  RingOrder(g, BehindPlace(s, n, m, k), m, R \ {s[k]}, f[s[k]])
<1> DEFINE r == BehindPlace(s, n, m, k)
<1> DEFINE t == s[k]
<1>0. m \in Nat \ {0} /\ n = m + 1 /\ k \in Nat /\ 1 <= k /\ k <= n
  BY RingNeighbours DEF OneMore
<1>1. /\ n \in Nat \ {0} /\ s \in [1 .. n -> Task] /\ s[1] = h /\ f[s[n]] = h
      /\ \A i \in 1 .. n : i < n => f[s[i]] = s[i + 1]
      /\ \A i \in 1 .. n : s[i] \in R
      /\ \A u \in R : \E i \in 1 .. n : u = s[i]
      /\ \A i, j \in 1 .. n : s[i] = s[j] => i = j
  BY RingNeighbours
\* b is where the second part starts.
<1> DEFINE b == n - k
<1>b. b \in Nat /\ b + k = n /\ b <= m
  BY <1>0
<1>2. /\ \A i \in 1 .. m : i <= b => k + i \in 1 .. n /\ k + i # k
      /\ \A i \in 1 .. m : i > b => i - b \in 1 .. n /\ i - b < k
  BY <1>0, <1>b
<1>3. /\ r \in [1 .. m -> Task]
      /\ \A i \in 1 .. m : i <= b => r[i] = s[k + i]
      /\ \A i \in 1 .. m : i > b => r[i] = s[i - b]
  <2> HIDE DEF b
  <2>1. r = [i \in 1 .. m |-> IF i <= b THEN s[k + i] ELSE s[i - b]]
    BY DEF BehindPlace, b
  <2> HIDE DEF r
  <2> QED BY <1>0, <1>1, <1>2, <1>b, <2>1
<1>4. \A i \in 1 .. n : i # k => s[i] \in R \ {t}
  BY <1>0, <1>1
\* The structure in front of t is the one that gets the new link.
<1>5. \A i \in 1 .. n : i # k =>
        g[s[i]] = IF i = (IF k = 1 THEN n ELSE k - 1) THEN f[t] ELSE f[s[i]]
  <2> TAKE i \in 1 .. n
  <2> HAVE i # k
  <2>1. s[i] \in R \ {t} /\ n \in 1 .. n /\ (k # 1 => k - 1 \in 1 .. n)
    BY <1>0, <1>4
  <2>2. s[i] = (IF k = 1 THEN s[n] ELSE s[k - 1]) <=> i = (IF k = 1 THEN n ELSE k - 1)
    BY <1>1, <2>1
  <2> QED BY <2>1, <2>2
<1> HIDE DEF r, t, b
<1>6. \A i, j \in 1 .. m : r[i] = r[j] => i = j
  <2> TAKE i, j \in 1 .. m
  <2> HAVE r[i] = r[j]
  <2> DEFINE at(a) == IF a <= b THEN k + a ELSE a - b
  <2>1. /\ at(i) \in 1 .. n /\ r[i] = s[at(i)]
        /\ at(j) \in 1 .. n /\ r[j] = s[at(j)]
    BY <1>2, <1>3, <1>b
  <2>2. at(i) = at(j)
    <3> HIDE DEF at
    <3> QED BY <1>1, <2>1
  <2> QED BY <1>0, <1>2, <1>b, <2>2
<1>7. \A i \in 1 .. m : r[i] \in R \ {t}
  <2> TAKE i \in 1 .. m
  <2>1. CASE i <= b
    BY <1>2, <1>3, <1>4, <2>1
  <2>2. CASE i > b
    <3>1. i - b \in 1 .. n /\ i - b # k
      BY <1>0, <1>2, <1>b, <2>2
    <3> QED BY <1>3, <1>4, <2>2, <3>1
  <2> QED BY <1>b, <2>1, <2>2
<1>8. \A u \in R \ {t} : \E i \in 1 .. m : u = r[i]
  <2> TAKE u \in R \ {t}
  <2>1. PICK i \in 1 .. n : u = s[i]
    BY <1>1
  <2>2. CASE i < k
    <3>1. i + b \in 1 .. m /\ i + b > b /\ (i + b) - b = i
      BY <1>0, <1>b, <2>2
    <3>2. r[i + b] = s[i]
      BY <1>3, <3>1
    <3> QED BY <2>1, <3>1, <3>2
  <2>3. CASE i > k
    <3>1. i - k \in 1 .. m /\ i - k <= b /\ k + (i - k) = i
      BY <1>0, <1>b, <2>3
    <3>2. r[i - k] = s[i]
      BY <1>3, <3>1
    <3> QED BY <2>1, <3>1, <3>2
  <2>4. i # k
    BY <2>1 DEF t
  <2> QED BY <1>0, <2>2, <2>3, <2>4
<1>9. ASSUME NEW i \in 1 .. m, i < m PROVE g[r[i]] = r[i + 1]
  <2>1. i + 1 \in 1 .. m
    BY <1>0, <1>9
  <2>2. CASE i + 1 <= b
    <3>1. /\ k + i \in 1 .. n /\ k + i # k /\ k + i < n /\ (k + i) + 1 = k + (i + 1)
          /\ k + i # (IF k = 1 THEN n ELSE k - 1)
      BY <1>0, <1>b, <2>2
    <3>2. g[s[k + i]] = f[s[k + i]] /\ f[s[k + i]] = s[k + (i + 1)]
      BY <1>1, <1>5, <3>1
    <3>3. r[i] = s[k + i] /\ r[i + 1] = s[k + (i + 1)]
      BY <1>3, <1>b, <2>1, <2>2
    <3> QED BY <3>2, <3>3
  <2>3. CASE i = b
    <3>1. /\ k + i = n /\ n # k /\ n \in 1 .. n /\ (i + 1) - b = 1 /\ k # 1
          /\ n # (IF k = 1 THEN n ELSE k - 1)
      BY <1>0, <1>b, <1>9, <2>3
    <3>2. r[i] = s[n] /\ r[i + 1] = s[1]
      BY <1>3, <1>b, <2>1, <2>3, <3>1
    <3> QED BY <1>1, <1>5, <3>1, <3>2
  <2>4. CASE i > b
    <3> DEFINE c == i - b
    <3>1. c \in 1 .. n /\ c + 1 = (i + 1) - b /\ c + 1 < k /\ c < n /\ i + 1 > b /\ c \in Nat
      BY <1>0, <1>b, <1>9, <2>4
    <3>2. r[i] = s[c] /\ r[i + 1] = s[c + 1]
      BY <1>3, <2>1, <2>4, <3>1
    <3> HIDE DEF c
    <3>3. c # k /\ c # (IF k = 1 THEN n ELSE k - 1)
      BY <1>0, <3>1
    <3> QED BY <1>1, <1>5, <3>1, <3>2, <3>3
  <2> QED BY <1>b, <2>2, <2>3, <2>4
<1>10. r[1] = f[t] /\ g[r[m]] = f[t]
  <2>1. r[1] = f[t]
    <3>1. CASE b = 0
      <4>1. 1 \in 1 .. m /\ 1 > b /\ 1 - b = 1 /\ k = n
        BY <1>0, <1>b, <3>1
      <4>2. r[1] = s[1]
        BY <1>3, <4>1
      <4> QED BY <1>1, <4>1, <4>2 DEF t
    <3>2. CASE b # 0
      <4>1. 1 \in 1 .. m /\ 1 <= b /\ k < n /\ k \in 1 .. n
        BY <1>0, <1>b, <3>2
      <4>2. r[1] = s[k + 1]
        BY <1>3, <4>1
      <4> QED BY <1>1, <4>1, <4>2 DEF t
    <3> QED BY <3>1, <3>2
  <2>2. CASE k = 1
    <3>1. m \in 1 .. m /\ m <= b /\ k + m = n /\ n \in 1 .. n /\ n # k
      BY <1>0, <1>b, <2>2
    <3>2. r[m] = s[n]
      BY <1>3, <3>1
    <3> QED BY <1>5, <2>1, <2>2, <3>1, <3>2
  <2>3. CASE k # 1
    <3>1. m \in 1 .. m /\ m > b /\ m - b = k - 1 /\ k - 1 \in 1 .. n /\ k - 1 # k
      BY <1>0, <1>b, <2>3
    <3>2. r[m] = s[k - 1]
      BY <1>3, <3>1
    <3> QED BY <1>5, <2>1, <2>3, <3>1, <3>2
  <2> QED BY <2>2, <2>3
<1>11. RingOrder(g, r, m, R \ {t}, f[t])
  BY <1>0, <1>3, <1>6, <1>7, <1>8, <1>9, <1>10, ListingFrom
<1> QED BY <1>11 DEF r, t

IsSum(m, a, b) == m = a + b

\* The end of the deleteQueue.
Appended(d, m, x) == [i \in 1 .. m |-> IF i < m THEN d[i] ELSE x]

AppendsTo(f, g, d, m, x) ==
    /\ g[x] = NULL
    /\ m # 0 => g[d[m]] = x
    /\ \A i \in 1 .. m : i < m => g[d[i]] = f[d[i]]

\* The deleteQueue is listed with its new end.
LEMMA OrderAppended ==
    ASSUME NEW f, NEW g, NEW d, NEW m, NEW D, NEW h, DeadOrder(f, d, m, D, h),
           NEW x \in Task \ D, NEW n, IsSum(n, m, 1), AppendsTo(f, g, d, m, x)
    PROVE  DeadOrder(g, Appended(d, n, x), n, D \cup {x}, IF m = 0 THEN x ELSE h)
<1> DEFINE r == Appended(d, n, x)
<1>1. /\ m \in Nat /\ n \in Nat \ {0} /\ n = m + 1 /\ d \in [1 .. m -> Task]
      /\ \A i, j \in 1 .. m : d[i] = d[j] => i = j
      /\ D = {d[i] : i \in 1 .. m}
      /\ \A i \in 1 .. m : i # 1 => d[i] = f[d[i - 1]]
  BY DEF DeadOrder, Listing, IsSum
<1>2. r \in [1 .. n -> Task] /\ \A i \in 1 .. n : r[i] = IF i < n THEN d[i] ELSE x
  BY <1>1 DEF Appended
<1> HIDE DEF r
<1>3. \A i, j \in 1 .. n : r[i] = r[j] => i = j
  <2> TAKE i, j \in 1 .. n
  <2> HAVE r[i] = r[j]
  <2>1. i < n => i \in 1 .. m /\ d[i] \in D
    BY <1>1
  <2>2. j < n => j \in 1 .. m /\ d[j] \in D
    BY <1>1
  <2> QED BY <1>1, <1>2, <2>1, <2>2
<1>4. D \cup {x} = {r[i] : i \in 1 .. n}
  <2>1. \A u \in D : \E i \in 1 .. n : u = r[i]
    BY <1>1, <1>2
  <2>2. n \in 1 .. n /\ r[n] = x
    BY <1>1, <1>2
  <2>3. \A i \in 1 .. n : r[i] \in D \cup {x}
    BY <1>1, <1>2
  <2> QED BY <2>1, <2>2, <2>3
<1>5. ASSUME NEW i \in 1 .. n, i # 1 PROVE r[i] = g[r[i - 1]]
  <2>1. i - 1 \in 1 .. m /\ i - 1 \in 1 .. n /\ i - 1 < n
    BY <1>1, <1>5
  <2>2. r[i - 1] = d[i - 1]
    BY <1>2, <2>1
  <2>3. CASE i = n
    BY <1>1, <1>2, <2>1, <2>2, <2>3 DEF AppendsTo
  <2>4. CASE i # n
    <3>1. i \in 1 .. m /\ i - 1 < m /\ r[i] = d[i]
      BY <1>1, <1>2, <2>1, <2>4
    <3> QED BY <1>1, <1>5, <2>1, <2>2, <3>1 DEF AppendsTo
  <2> QED BY <2>3, <2>4
<1>6. r[1] = (IF m = 0 THEN x ELSE h) /\ r[n] = x
  BY <1>1, <1>2 DEF DeadOrder
<1>7. DeadOrder(g, r, n, D \cup {x}, IF m = 0 THEN x ELSE h)
  BY <1>1, <1>2, <1>3, <1>4, <1>5, <1>6 DEF DeadOrder, Listing, AppendsTo
<1> QED BY <1>7 DEF r

-------------------------------------------------------------------------------
\* The abstract queue of listed structures is the sequence of their numbers.
LEMMA AbsForm ==
    ASSUME NEW s, NEW n, RingOrder(next, s, n, Ring, runningThread),
           NEW d, NEW m, DeadOrder(next, d, m, Dead, deleteQueue)
    PROVE  /\ Chain(runningThread, Ring) = Numbers(pid_t, s, n)
           /\ Chain(deleteQueue, Dead) = Numbers(pid_t, d, m)
<1>1. /\ Chain(runningThread, Ring) = ChainIn(next, pid_t, runningThread, Ring)
      /\ Chain(deleteQueue, Dead) = ChainIn(next, pid_t, deleteQueue, Dead)
  BY DEF Chain, ChainIn
<1>2. Listing(next, s, n, Ring) /\ (n > 0 => s[1] = runningThread)
  BY DEF RingOrder
<1>3. Listing(next, d, m, Dead) /\ (m > 0 => d[1] = deleteQueue)
  BY DEF DeadOrder
<1> QED BY <1>1, <1>2, <1>3, ChainOfListing

\* The same after a step.
LEMMA AbsFormNext ==
    ASSUME NEW s, NEW n, RingOrder(next', s, n, Ring', runningThread'),
           NEW d, NEW m, DeadOrder(next', d, m, Dead', deleteQueue')
    PROVE  /\ Chain(runningThread, Ring)' = Numbers(pid_t', s, n)
           /\ Chain(deleteQueue, Dead)' = Numbers(pid_t', d, m)
<1>1. /\ Chain(runningThread, Ring)' = ChainIn(next', pid_t', runningThread', Ring')
      /\ Chain(deleteQueue, Dead)' = ChainIn(next', pid_t', deleteQueue', Dead')
  BY DEF Chain, ChainIn
<1>2. Listing(next', s, n, Ring') /\ (n > 0 => s[1] = runningThread')
  BY DEF RingOrder
<1>3. Listing(next', d, m, Dead') /\ (m > 0 => d[1] = deleteQueue')
  BY DEF DeadOrder
<1> QED BY <1>1, <1>2, <1>3, ChainOfListing

\* The numbers of n structures are a sequence of length n.
LEMMA NumbersSeq ==
    ASSUME NEW v \in [Task -> Nat], NEW n \in Nat, NEW s \in [1 .. n -> Task]
    PROVE  /\ Numbers(v, s, n) \in Seq(Nat)
           /\ Len(Numbers(v, s, n)) = n
           /\ \A i \in 1 .. n : Numbers(v, s, n)[i] = v[s[i]]
<1>1. Numbers(v, s, n) \in [1 .. n -> Nat]
  BY DEF Numbers
<1>2. Numbers(v, s, n) \in Seq(Nat)
  BY <1>1, SeqDef, Zenon
<1>3. DOMAIN Numbers(v, s, n) = 1 .. n
  BY <1>1
<1>4. Len(Numbers(v, s, n)) = n
  BY <1>2, <1>3, LenProperties
<1>5. \A i \in 1 .. n : Numbers(v, s, n)[i] = v[s[i]]
  BY DEF Numbers
<1> QED BY <1>2, <1>4, <1>5

\* Its head and its tail.
LEMMA NumbersHead ==
    ASSUME NEW v \in [Task -> Nat], NEW n \in Nat \ {0}, NEW s \in [1 .. n -> Task]
    PROVE  /\ Numbers(v, s, n) # <<>>
           /\ Head(Numbers(v, s, n)) = v[s[1]]
           /\ Tail(Numbers(v, s, n)) \in Seq(Nat)
           /\ Len(Tail(Numbers(v, s, n))) = n - 1
           /\ \A i \in 1 .. n - 1 : Tail(Numbers(v, s, n))[i] = v[s[i + 1]]
<1> DEFINE q == Numbers(v, s, n)
<1>1. q \in Seq(Nat) /\ Len(q) = n /\ \A i \in 1 .. n : q[i] = v[s[i]]
  BY NumbersSeq
<1> HIDE DEF q
<1>2. q # <<>>
  BY <1>1, EmptySeq
<1>3. Head(q) = q[1]
  BY <1>1, <1>2
<1>4. /\ Tail(q) \in Seq(Nat) /\ Len(Tail(q)) = n - 1
      /\ \A i \in 1 .. n - 1 : Tail(q)[i] = q[i + 1]
  BY <1>1, <1>2, HeadTailProperties
<1>5. \A i \in 1 .. n - 1 : i + 1 \in 1 .. n
  OBVIOUS
<1>6. 1 \in 1 .. n
  OBVIOUS
<1>7. \A i \in 1 .. n - 1 : Tail(q)[i] = v[s[i + 1]]
  BY <1>1, <1>4, <1>5
<1> QED BY <1>1, <1>2, <1>3, <1>4, <1>6, <1>7 DEF q

\* The timer moves the head to the back.
LEMMA AbsRotated ==
    ASSUME NEW v \in [Task -> Nat], NEW n \in Nat \ {0}, NEW s \in [1 .. n -> Task]
    PROVE  Numbers(v, Rotated(s, n), n) =
             Append(Tail(Numbers(v, s, n)), Head(Numbers(v, s, n)))
<1> DEFINE q == Numbers(v, s, n)
<1> DEFINE a == Append(Tail(q), Head(q))
<1> DEFINE b == Numbers(v, Rotated(s, n), n)
<1>1. /\ Head(q) = v[s[1]] /\ Tail(q) \in Seq(Nat) /\ Len(Tail(q)) = n - 1
      /\ \A i \in 1 .. n - 1 : Tail(q)[i] = v[s[i + 1]]
  BY NumbersHead
<1>2. v[s[1]] \in Nat
  OBVIOUS
<1>3. /\ a \in Seq(Nat) /\ Len(a) = n
      /\ \A i \in 1 .. n - 1 : a[i] = v[s[i + 1]]
      /\ a[n] = v[s[1]]
  <2> HIDE DEF q
  <2>1. /\ a \in Seq(Nat) /\ Len(a) = Len(Tail(q)) + 1
        /\ \A i \in 1 .. Len(Tail(q)) : a[i] = Tail(q)[i]
        /\ a[Len(Tail(q)) + 1] = Head(q)
    BY <1>1, <1>2, AppendProperties
  <2> HIDE DEF a
  <2>2. Len(Tail(q)) + 1 = n
    BY <1>1
  <2> QED BY <1>1, <2>1, <2>2
<1>4. Rotated(s, n) \in [1 .. n -> Task]
  BY DEF Rotated
<1>5. /\ b \in Seq(Nat) /\ Len(b) = n
      /\ \A i \in 1 .. n : b[i] = v[Rotated(s, n)[i]]
  BY <1>4, NumbersSeq
<1>6. \A i \in 1 .. n : b[i] = IF i < n THEN v[s[i + 1]] ELSE v[s[1]]
  BY <1>5 DEF Rotated
<1> HIDE DEF a, b
<1>7. \A i \in 1 .. n : b[i] = a[i]
  BY <1>3, <1>6
<1>8. b = a
  BY <1>3, <1>5, <1>7, SeqEqual
<1> QED BY <1>8 DEF a, b, q

\* The listed structures keep their numbers.
Agree(v, w, s, n) == \A i \in 1 .. n : w[s[i]] = v[s[i]]

\* fork puts the child's number second.
SecondIn(q, p) == <<Head(q), p>> \o Tail(q)

\* What fork does: x, with the number p, behind the first of the n listed.
IsSecond(v, w, s, n, m, x, p) ==
    /\ v \in [Task -> Nat] /\ w \in [Task -> Nat]
    /\ n \in Nat \ {0} /\ s \in [1 .. n -> Task] /\ OneMore(m, n)
    /\ x \in Task /\ p = w[x] /\ Agree(v, w, s, n)

\* fork puts one number behind the head.
LEMMA AbsWithSecond ==
    ASSUME NEW v, NEW w, NEW s, NEW n, NEW m, NEW x, NEW p,
           IsSecond(v, w, s, n, m, x, p)
    PROVE  Numbers(w, WithSecond(s, m, x), m) = SecondIn(Numbers(v, s, n), p)
<1> DEFINE q == Numbers(v, s, n)
<1> DEFINE c == <<Head(q), p>>
<1> DEFINE a == c \o Tail(q)
<1> DEFINE b == Numbers(w, WithSecond(s, m, x), m)
<1>t. /\ v \in [Task -> Nat] /\ w \in [Task -> Nat]
      /\ n \in Nat \ {0} /\ s \in [1 .. n -> Task] /\ OneMore(m, n)
      /\ x \in Task /\ p = w[x] /\ Agree(v, w, s, n)
  BY DEF IsSecond
<1>m. m \in Nat /\ m = n + 1
  BY <1>t DEF OneMore
<1>1. /\ Head(q) = v[s[1]] /\ Tail(q) \in Seq(Nat) /\ Len(Tail(q)) = n - 1
      /\ \A i \in 1 .. n - 1 : Tail(q)[i] = v[s[i + 1]]
  BY <1>t, NumbersHead
<1>2. v[s[1]] \in Nat /\ w[x] \in Nat /\ p = w[x]
  BY <1>t
<1> HIDE DEF q
<1>3. c \in Seq(Nat) /\ Len(c) = 2 /\ c[1] = v[s[1]] /\ c[2] = w[x]
  BY <1>1, <1>2
<1> HIDE DEF c
<1>4. /\ a \in Seq(Nat) /\ Len(a) = m
      /\ \A i \in 1 .. m : a[i] = IF i <= 2 THEN c[i] ELSE Tail(q)[i - 2]
  <2>0. c \in Seq(Nat) /\ Tail(q) \in Seq(Nat)
    BY <1>1, <1>3
  <2>1. /\ a \in Seq(Nat) /\ Len(a) = Len(c) + Len(Tail(q))
        /\ \A i \in 1 .. Len(c) + Len(Tail(q)) :
              a[i] = IF i <= Len(c) THEN c[i] ELSE Tail(q)[i - Len(c)]
    BY <2>0, ConcatProperties, Zenon
  <2>2. Len(c) + Len(Tail(q)) = m /\ Len(c) = 2
    BY <1>t, <1>1, <1>3, <1>m
  <2> HIDE DEF a
  <2> QED BY <2>1, <2>2
<1>5. \A i \in 1 .. m : i > 2 => i - 2 \in 1 .. n - 1 /\ (i - 2) + 1 = i - 1
  BY <1>t, <1>m
<1> HIDE DEF a
<1>6. \A i \in 1 .. m : a[i] = IF i = 1 THEN v[s[1]] ELSE IF i = 2 THEN w[x] ELSE v[s[i - 1]]
  <2> TAKE i \in 1 .. m
  <2>1. CASE i <= 2
    BY <1>3, <1>4, <2>1
  <2>2. CASE i > 2
    <3>1. /\ i - 2 \in 1 .. n - 1 /\ (i - 2) + 1 = i - 1
          /\ i # 1 /\ i # 2 /\ ~(i <= 2)
      BY <1>5, <1>m, <2>2
    <3>2. a[i] = Tail(q)[i - 2]
      BY <1>4, <3>1, Zenon
    <3>3. Tail(q)[i - 2] = v[s[(i - 2) + 1]]
      BY <1>1, <3>1, Zenon
    <3> QED BY <3>1, <3>2, <3>3, Zenon
  <2> QED BY <1>m, <2>1, <2>2
<1> DEFINE r == WithSecond(s, m, x)
<1>7. /\ r \in [1 .. m -> Task]
      /\ \A i \in 1 .. m : r[i] = IF i = 1 THEN s[1] ELSE IF i = 2 THEN x ELSE s[i - 1]
  BY <1>t, <1>m DEF WithSecond
<1>8. b \in Seq(Nat) /\ Len(b) = m /\ \A i \in 1 .. m : b[i] = w[r[i]]
  BY <1>t, <1>7, <1>m, NumbersSeq
<1>9. \A i \in 1 .. m : b[i] = IF i = 1 THEN v[s[1]] ELSE IF i = 2 THEN w[x] ELSE v[s[i - 1]]
  <2> HIDE DEF b, r
  <2> TAKE i \in 1 .. m
  <2>1. i # 1 => i - 1 \in 1 .. n
    BY <1>t, <1>m
  <2>2. b[i] = w[r[i]] /\ 1 \in 1 .. n
    BY <1>t, <1>8
  <2>3. CASE i = 1
    BY <1>t, <1>7, <2>2, <2>3 DEF Agree
  <2>4. CASE i = 2
    BY <1>7, <2>2, <2>4
  <2>5. CASE i # 1 /\ i # 2
    BY <1>t, <1>7, <2>1, <2>2, <2>5 DEF Agree
  <2> QED BY <2>3, <2>4, <2>5
<1> HIDE DEF b
<1>10. b = a
  <2>1. \A i \in 1 .. m : b[i] = a[i]
    BY <1>6, <1>9
  <2> QED BY <1>4, <1>8, <2>1, SeqEqual
<1> QED BY <1>10 DEF a, b, c, q, SecondIn

Distinct(v, s, n) == \A i, j \in 1 .. n : v[s[i]] = v[s[j]] => i = j

\* The place of a number is the place of its structure.
LEMMA AbsPlace ==
    ASSUME NEW v \in [Task -> Nat], NEW n \in Nat, NEW s \in [1 .. n -> Task],
           Distinct(v, s, n), NEW k \in 1 .. n
    PROVE  Abstract!Place(Numbers(v, s, n), v[s[k]]) = k
<1> DEFINE q == Numbers(v, s, n)
<1>1. Len(q) = n /\ \A i \in 1 .. n : q[i] = v[s[i]]
  BY NumbersSeq
<1> HIDE DEF q
<1>2. Abstract!Place(q, v[s[k]]) = CHOOSE i \in 1 .. n : q[i] = v[s[k]]
  BY <1>1 DEF Abstract!Place
<1>3. \A i \in 1 .. n : q[i] = v[s[k]] <=> i = k
  BY <1>1 DEF Distinct
<1> QED BY <1>2, <1>3 DEF q

\* The l numbers of a queue from place a on.
IsPart(q, v, s, a, l) ==
    /\ q \in Seq(Nat)
    /\ Len(q) = l
    /\ \A i \in 1 .. l : q[i] = v[s[a + i - 1]]

\* The l numbers from place a on, followed by those from place c on.
IsTwoParts(q, v, s, a, l, c, m) ==
    /\ q \in Seq(Nat)
    /\ Len(q) = m
    /\ \A i \in 1 .. m : q[i] = IF i <= l THEN v[s[a + i - 1]]
                                          ELSE v[s[c + (i - l) - 1]]

\* A part of the numbers.
LEMMA NumbersPart ==
    ASSUME NEW v \in [Task -> Nat], NEW n \in Nat, NEW s \in [1 .. n -> Task],
           NEW a \in Int, NEW b \in Int, 1 <= a, b <= n,
           NEW l \in Nat, IsSum(b + 1, a, l)
    PROVE  IsPart(SubSeq(Numbers(v, s, n), a, b), v, s, a, l)
<1>0. l = b - a + 1 /\ a <= b + 1
  BY DEF IsSum
<1> DEFINE q == Numbers(v, s, n)
<1>1. \A i \in 1 .. n : q[i] = v[s[i]] /\ q[i] \in Nat
  BY NumbersSeq
<1> HIDE DEF q
<1>2. \A i \in a .. b : q[i] \in Nat
  BY <1>1
<1>3. /\ SubSeq(q, a, b) \in Seq(Nat)
      /\ Len(SubSeq(q, a, b)) = IF a <= b THEN b - a + 1 ELSE 0
      /\ \A i \in 1 .. b - a + 1 : SubSeq(q, a, b)[i] = q[a + i - 1]
  BY <1>2, SubSeqProperties
<1>4. \A i \in 1 .. b - a + 1 : a + i - 1 \in 1 .. n
  OBVIOUS
<1>5. \A i \in 1 .. b - a + 1 : SubSeq(q, a, b)[i] = v[s[a + i - 1]]
  BY <1>1, <1>3, <1>4
<1>6. Len(SubSeq(q, a, b)) = b - a + 1
  BY <1>0, <1>3
<1> QED BY <1>0, <1>3, <1>5, <1>6 DEF q, IsPart

\* Two parts, one behind the other.
LEMMA NumbersParts ==
    ASSUME NEW v, NEW s, NEW a \in Int, NEW c \in Int, NEW l1 \in Nat, NEW l2 \in Nat,
           NEW q1, IsPart(q1, v, s, a, l1), NEW q2, IsPart(q2, v, s, c, l2),
           NEW m, IsSum(m, l1, l2)
    PROVE  IsTwoParts(q1 \o q2, v, s, a, l1, c, m)
<1>1. q1 \in Seq(Nat) /\ Len(q1) = l1 /\ \A i \in 1 .. l1 : q1[i] = v[s[a + i - 1]]
  BY DEF IsPart
<1>2. q2 \in Seq(Nat) /\ Len(q2) = l2 /\ \A i \in 1 .. l2 : q2[i] = v[s[c + i - 1]]
  BY DEF IsPart
<1> DEFINE q == q1 \o q2
<1>3. q1 \in Seq(Nat) /\ q2 \in Seq(Nat)
  BY <1>1, <1>2
<1>4. /\ q \in Seq(Nat) /\ Len(q) = Len(q1) + Len(q2)
      /\ \A i \in 1 .. Len(q1) + Len(q2) : q[i] = IF i <= Len(q1) THEN q1[i] ELSE q2[i - Len(q1)]
  BY <1>3, ConcatProperties, Zenon
<1> HIDE DEF q
<1>5. Len(q1) + Len(q2) = m /\ Len(q1) = l1
  BY <1>1, <1>2 DEF IsSum
<1>6. Len(q) = m /\ \A i \in 1 .. m : q[i] = IF i <= l1 THEN q1[i] ELSE q2[i - l1]
  BY <1>4, <1>5, Zenon
<1>7. ASSUME NEW i \in 1 .. m
      PROVE  q[i] = IF i <= l1 THEN v[s[a + i - 1]] ELSE v[s[c + (i - l1) - 1]]
  <2>1. CASE i <= l1
    <3>1. i \in 1 .. l1
      BY <2>1 DEF IsSum
    <3>2. q[i] = q1[i] /\ q1[i] = v[s[a + i - 1]]
      BY <1>1, <1>6, <2>1, <3>1, Zenon
    <3> QED BY <2>1, <3>2, Zenon
  <2>2. CASE ~(i <= l1)
    <3>1. i - l1 \in 1 .. l2
      BY <2>2 DEF IsSum
    <3>2. q[i] = q2[i - l1] /\ q2[i - l1] = v[s[c + (i - l1) - 1]]
      BY <1>2, <1>6, <2>2, <3>1, Zenon
    <3> QED BY <2>2, <3>2, Zenon
  <2> QED BY <2>1, <2>2, Zenon
<1> QED BY <1>4, <1>6, <1>7 DEF q, IsTwoParts

\* kill takes one number out.
LEMMA AbsWithout ==
    ASSUME NEW v \in [Task -> Nat], NEW n \in Nat, NEW s \in [1 .. n -> Task],
           Distinct(v, s, n), NEW k \in 1 .. n,
           NEW m, OneMore(n, m)
    PROVE  Numbers(v, WithoutPlace(s, m, k), m) =
             Abstract!Without(Numbers(v, s, n), v[s[k]])
<1> DEFINE q == Numbers(v, s, n)
<1> DEFINE a == SubSeq(q, 1, k - 1) \o SubSeq(q, k + 1, n)
<1> DEFINE r == WithoutPlace(s, m, k)
<1>1. Abstract!Without(q, v[s[k]]) = a
  <2>1. Len(q) = n
    BY NumbersSeq
  <2>2. Abstract!Place(q, v[s[k]]) = k
    BY AbsPlace
  <2> QED BY <2>1, <2>2 DEF Abstract!Without
<1>2. m \in Nat \ {0} /\ n = m + 1
  BY DEF OneMore
<1>3. IsTwoParts(a, v, s, 1, k - 1, k + 1, m)
  <2>1. IsPart(SubSeq(q, 1, k - 1), v, s, 1, k - 1)
    <3>1. /\ 1 \in Int /\ k - 1 \in Int /\ 1 <= 1 /\ k - 1 <= n /\ k - 1 \in Nat
          /\ IsSum((k - 1) + 1, 1, k - 1)
      BY DEF IsSum
    <3> QED BY <3>1, NumbersPart, Zenon
  <2>2. IsPart(SubSeq(q, k + 1, n), v, s, k + 1, n - k)
    <3>1. /\ k + 1 \in Int /\ n \in Int /\ 1 <= k + 1 /\ n <= n /\ n - k \in Nat
          /\ IsSum(n + 1, k + 1, n - k)
      BY DEF IsSum
    <3> QED BY <3>1, NumbersPart, Zenon
  <2>3. IsSum(m, k - 1, n - k)
    BY <1>2 DEF IsSum
  <2>4. 1 \in Int /\ k + 1 \in Int /\ k - 1 \in Nat /\ n - k \in Nat
    OBVIOUS
  <2> QED BY <2>1, <2>2, <2>3, <2>4, NumbersParts, Zenon
<1>4. /\ r \in [1 .. m -> Task]
      /\ \A i \in 1 .. m : r[i] = IF i < k THEN s[i] ELSE s[i + 1]
  BY <1>2 DEF WithoutPlace
<1> HIDE DEF a, q, r
<1>r. m \in Nat /\ r \in [1 .. m -> Task]
  BY <1>2, <1>4
<1>5. /\ Numbers(v, r, m) \in Seq(Nat) /\ Len(Numbers(v, r, m)) = m
      /\ \A i \in 1 .. m : Numbers(v, r, m)[i] = v[r[i]]
  BY <1>r, NumbersSeq, SMT
<1>6. ASSUME NEW i \in 1 .. m PROVE Numbers(v, r, m)[i] = a[i]
  <2>1. 1 + i - 1 = i /\ (k + 1) + (i - (k - 1)) - 1 = i + 1 /\ (i <= k - 1 <=> i < k)
    OBVIOUS
  <2>2. a[i] = IF i <= k - 1 THEN v[s[1 + i - 1]] ELSE v[s[(k + 1) + (i - (k - 1)) - 1]]
    BY <1>3, Zenon DEF IsTwoParts
  <2>3. Numbers(v, r, m)[i] = v[r[i]] /\ r[i] = IF i < k THEN s[i] ELSE s[i + 1]
    BY <1>4, <1>5, Zenon
  <2> QED BY <2>1, <2>2, <2>3, Zenon
<1>7. Numbers(v, r, m) = a
  <2>1. a \in Seq(Nat) /\ Len(a) = m
    BY <1>3 DEF IsTwoParts
  <2> QED BY <1>5, <1>6, <2>1, SeqEqual, Zenon
<1> QED BY <1>1, <1>7 DEF a, q, r

\* Ctrl-C takes one number out and rotates to the one behind it.
LEMMA AbsBehind ==
    ASSUME NEW v \in [Task -> Nat], NEW n \in Nat, NEW s \in [1 .. n -> Task],
           Distinct(v, s, n), NEW k \in 1 .. n,
           NEW m, OneMore(n, m)
    PROVE  Numbers(v, BehindPlace(s, n, m, k), m) =
             Abstract!Behind(Numbers(v, s, n), v[s[k]])
<1> DEFINE q == Numbers(v, s, n)
<1> DEFINE a == SubSeq(q, k + 1, n) \o SubSeq(q, 1, k - 1)
<1> DEFINE r == BehindPlace(s, n, m, k)
<1>1. Abstract!Behind(q, v[s[k]]) = a
  <2>1. Len(q) = n
    BY NumbersSeq
  <2>2. Abstract!Place(q, v[s[k]]) = k
    BY AbsPlace
  <2> QED BY <2>1, <2>2 DEF Abstract!Behind
<1>2. m \in Nat \ {0} /\ n = m + 1
  BY DEF OneMore
<1>3. IsTwoParts(a, v, s, k + 1, n - k, 1, m)
  <2>1. IsPart(SubSeq(q, 1, k - 1), v, s, 1, k - 1)
    <3>1. /\ 1 \in Int /\ k - 1 \in Int /\ 1 <= 1 /\ k - 1 <= n /\ k - 1 \in Nat
          /\ IsSum((k - 1) + 1, 1, k - 1)
      BY DEF IsSum
    <3> QED BY <3>1, NumbersPart, Zenon
  <2>2. IsPart(SubSeq(q, k + 1, n), v, s, k + 1, n - k)
    <3>1. /\ k + 1 \in Int /\ n \in Int /\ 1 <= k + 1 /\ n <= n /\ n - k \in Nat
          /\ IsSum(n + 1, k + 1, n - k)
      BY DEF IsSum
    <3> QED BY <3>1, NumbersPart, Zenon
  <2>3. IsSum(m, n - k, k - 1)
    BY <1>2 DEF IsSum
  <2>4. 1 \in Int /\ k + 1 \in Int /\ k - 1 \in Nat /\ n - k \in Nat
    OBVIOUS
  <2> QED BY <2>1, <2>2, <2>3, <2>4, NumbersParts, Zenon
<1>4. /\ r \in [1 .. m -> Task]
      /\ \A i \in 1 .. m : r[i] = IF i <= n - k THEN s[k + i] ELSE s[i - (n - k)]
  <2>1. \A i \in 1 .. m : /\ i <= n - k => k + i \in 1 .. n
                          /\ ~(i <= n - k) => i - (n - k) \in 1 .. n
    BY <1>2
  <2> QED BY <2>1 DEF BehindPlace
<1> HIDE DEF a, q, r
<1>r. m \in Nat /\ r \in [1 .. m -> Task]
  BY <1>2, <1>4
<1>5. /\ Numbers(v, r, m) \in Seq(Nat) /\ Len(Numbers(v, r, m)) = m
      /\ \A i \in 1 .. m : Numbers(v, r, m)[i] = v[r[i]]
  BY <1>r, NumbersSeq, SMT
<1>6. ASSUME NEW i \in 1 .. m PROVE Numbers(v, r, m)[i] = a[i]
  <2>1. (k + 1) + i - 1 = k + i /\ 1 + (i - (n - k)) - 1 = i - (n - k)
    OBVIOUS
  <2>2. a[i] = IF i <= n - k THEN v[s[(k + 1) + i - 1]] ELSE v[s[1 + (i - (n - k)) - 1]]
    BY <1>3, Zenon DEF IsTwoParts
  <2>3. Numbers(v, r, m)[i] = v[r[i]] /\ r[i] = IF i <= n - k THEN s[k + i] ELSE s[i - (n - k)]
    BY <1>4, <1>5, Zenon
  <2> QED BY <2>1, <2>2, <2>3, Zenon
<1>7. Numbers(v, r, m) = a
  <2>1. a \in Seq(Nat) /\ Len(a) = m
    BY <1>3 DEF IsTwoParts
  <2> QED BY <1>5, <1>6, <2>1, SeqEqual, Zenon
<1> QED BY <1>1, <1>7 DEF a, q, r

\* What is left behind the head is the tail.
LEMMA AbsTail ==
    ASSUME NEW v \in [Task -> Nat], NEW n \in Nat, NEW s \in [1 .. n -> Task],
           NEW m, OneMore(n, m)
    PROVE  Numbers(v, BehindPlace(s, n, m, 1), m) = Tail(Numbers(v, s, n))
<1> DEFINE a == Tail(Numbers(v, s, n))
<1> DEFINE r == BehindPlace(s, n, m, 1)
<1>1. m \in Nat \ {0} /\ n = m + 1 /\ m = n - 1 /\ n \in Nat \ {0}
  BY DEF OneMore
<1>2. /\ a \in Seq(Nat) /\ Len(a) = n - 1 /\ \A i \in 1 .. n - 1 : a[i] = v[s[i + 1]]
  BY <1>1, NumbersHead, Zenon
<1> HIDE DEF a
<1>3. Len(a) = m /\ \A i \in 1 .. m : a[i] = v[s[i + 1]]
  BY <1>1, <1>2, Zenon
<1>4. \A i \in 1 .. m : i <= n - 1 /\ 1 + i = i + 1 /\ i + 1 \in 1 .. n
  BY <1>1
<1>5. r \in [1 .. m -> Task] /\ \A i \in 1 .. m : r[i] = s[i + 1]
  BY <1>4 DEF BehindPlace
<1> HIDE DEF r
<1>6. /\ Numbers(v, r, m) \in Seq(Nat) /\ Len(Numbers(v, r, m)) = m
      /\ \A i \in 1 .. m : Numbers(v, r, m)[i] = v[r[i]]
  BY <1>1, <1>5, NumbersSeq, Zenon
<1>7. \A i \in 1 .. m : Numbers(v, r, m)[i] = a[i]
  BY <1>3, <1>5, <1>6, Zenon
<1>8. Numbers(v, r, m) = a
  BY <1>2, <1>3, <1>6, <1>7, SeqEqual, Zenon
<1> QED BY <1>8 DEF a, r

\* One more number among the exited.
LEMMA AbsAppended ==
    ASSUME NEW v \in [Task -> Nat], NEW m \in Nat, NEW d \in [1 .. m -> Task],
           NEW x \in Task, NEW n, IsSum(n, m, 1)
    PROVE  Numbers(v, Appended(d, n, x), n) = Append(Numbers(v, d, m), v[x])
<1> DEFINE q == Numbers(v, d, m)
<1> DEFINE a == Append(q, v[x])
<1> DEFINE r == Appended(d, n, x)
<1>1. /\ Numbers(v, d, m) \in Seq(Nat) /\ Len(Numbers(v, d, m)) = m
      /\ \A i \in 1 .. m : Numbers(v, d, m)[i] = v[d[i]]
  BY NumbersSeq, Zenon
<1>2. v[x] \in Nat /\ n \in Nat /\ n = m + 1
  BY DEF IsSum
<1>a. /\ a \in Seq(Nat) /\ Len(a) = Len(q) + 1
      /\ \A i \in 1 .. Len(q) : a[i] = q[i]
      /\ a[Len(q) + 1] = v[x]
  <2>1. q \in Seq(Nat) /\ v[x] \in Nat
    BY <1>1, <1>2
  <2> HIDE DEF q
  <2> QED BY <2>1, AppendProperties, SMT
<1>3. /\ Len(a) = n /\ a[n] = v[x]
      /\ \A i \in 1 .. m : a[i] = v[d[i]]
  <2>1. Len(q) = m /\ \A i \in 1 .. m : q[i] = v[d[i]]
    BY <1>1
  <2> HIDE DEF a, q
  <2>2. Len(q) + 1 = n
    BY <1>2, <2>1
  <2> QED BY <1>a, <2>1, <2>2, Zenon
<1>4. \A i \in 1 .. n : (i < n => i \in 1 .. m) /\ (~(i < n) => i = n)
  BY <1>2
<1>5. r \in [1 .. n -> Task] /\ \A i \in 1 .. n : r[i] = IF i < n THEN d[i] ELSE x
  BY <1>2, <1>4 DEF Appended
<1> HIDE DEF a, r, q
<1>6. /\ Numbers(v, r, n) \in Seq(Nat) /\ Len(Numbers(v, r, n)) = n
      /\ \A i \in 1 .. n : Numbers(v, r, n)[i] = v[r[i]]
  <2>1. n \in Nat /\ r \in [1 .. n -> Task]
    BY <1>2, <1>5
  <2> QED BY <2>1, NumbersSeq, Zenon
<1>7. ASSUME NEW i \in 1 .. n PROVE Numbers(v, r, n)[i] = a[i]
  <2>1. Numbers(v, r, n)[i] = v[r[i]] /\ r[i] = IF i < n THEN d[i] ELSE x
    BY <1>5, <1>6, Zenon
  <2>2. a[i] = IF i < n THEN v[d[i]] ELSE v[x]
    BY <1>3, <1>4, Zenon
  <2> QED BY <2>1, <2>2, Zenon
<1>8. Numbers(v, r, n) = a
  BY <1>3, <1>6, <1>7, <1>a, SeqEqual, Zenon
<1> QED BY <1>8 DEF a, q, r

-------------------------------------------------------------------------------
\* The two queues can be listed.
OrderInv ==
    /\ \E s, n : RingOrder(next, s, n, Ring, runningThread)
    /\ \E d, m : DeadOrder(next, d, m, Dead, deleteQueue)

\* The deleteQueue is listed as before when its links are.
LEMMA DeadOrderFrame ==
    ASSUME NEW f, NEW g, NEW d, NEW m, NEW D, NEW h, DeadOrder(f, d, m, D, h),
           \A u \in D : g[u] = f[u]
    PROVE  DeadOrder(g, d, m, D, h)
<1>1. /\ m \in Nat /\ d \in [1 .. m -> Task] /\ D = {d[i] : i \in 1 .. m}
      /\ \A i, j \in 1 .. m : d[i] = d[j] => i = j
      /\ \A i \in 1 .. m : i # 1 => d[i] = f[d[i - 1]]
      /\ IF m = 0 THEN h = NULL ELSE d[1] = h /\ f[d[m]] = NULL
  BY DEF DeadOrder, Listing
<1>2. \A i \in 1 .. m : g[d[i]] = f[d[i]]
  BY <1>1
<1>3. \A i \in 1 .. m : i # 1 => d[i] = g[d[i - 1]]
  <2> TAKE i \in 1 .. m
  <2> HAVE i # 1
  <2>1. i - 1 \in 1 .. m
    BY <1>1
  <2> QED BY <1>1, <1>2, <2>1
<1>4. m # 0 => m \in 1 .. m
  BY <1>1
<1> QED BY <1>1, <1>2, <1>3, <1>4 DEF DeadOrder, Listing

\* The facts about listed queues that the steps use.
LEMMA RingListed ==
    ASSUME QueueInv, NEW s, NEW n, RingOrder(next, s, n, Ring, runningThread)
    PROVE  /\ n \in Nat \ {0} /\ s \in [1 .. n -> Task] /\ s[1] = runningThread
           /\ \A i \in 1 .. n : s[i] \in Ring
           /\ \A u \in Ring : \E i \in 1 .. n : u = s[i]
           /\ \A i, j \in 1 .. n : pid_t[s[i]] = pid_t[s[j]] => i = j
<1>1. /\ n \in Nat \ {0} /\ s \in [1 .. n -> Task] /\ s[1] = runningThread
      /\ \A i \in 1 .. n : s[i] \in Ring
      /\ \A u \in Ring : \E i \in 1 .. n : u = s[i]
      /\ \A i, j \in 1 .. n : s[i] = s[j] => i = j
  BY RingNeighbours
<1>2. \A u, w \in Ring : pid_t[u] = pid_t[w] => u = w
  BY DEF QueueInv, PidsAreUnique
<1> QED BY <1>1, <1>2

\* The same of the deleteQueue.
LEMMA DeadListed ==
    ASSUME NEW d, NEW m, DeadOrder(next, d, m, Dead, deleteQueue)
    PROVE  /\ m \in Nat /\ d \in [1 .. m -> Task]
           /\ \A i \in 1 .. m : d[i] \in Dead
  BY DEF DeadOrder, Listing

\* Numbers depend only on the structures listed.
LEMMA SameNumbers ==
    ASSUME NEW v, NEW w, NEW s, NEW n, \A i \in 1 .. n : w[s[i]] = v[s[i]]
    PROVE  Numbers(w, s, n) = Numbers(v, s, n)
  BY DEF Numbers

\* The types of what the listings are about.
LEMMA PidsTyped ==
    ASSUME TypeOK
    PROVE  /\ next \in [Task -> Task \cup {NULL}]
           /\ pid_t \in [Task -> Nat] /\ pidCount \in Nat
  BY DEF TypeOK

\* One live process and none exited.
LEMMA OrderInit == Init => OrderInv /\ Abstract!Init
<1> SUFFICES ASSUME Init PROVE OrderInv /\ Abstract!Init
  OBVIOUS
<1>1. Ring = {sbush} /\ Dead = {} /\ TypeOK
  <2>1. QueueInv
    BY QueueInit
  <2>2. IsCycle(next, {sbush})
    BY TaskAssumption DEF Init, IsCycle
  <2>3. Ring = {sbush}
    BY <2>1, <2>2, RingForm DEF Init, QueueInv
  <2> QED BY <2>1, <2>3 DEF Init, Dead, QueueInv
<1> DEFINE s == [i \in 1 .. 1 |-> sbush]
<1> DEFINE d == [i \in 1 .. 0 |-> sbush]
<1>2. RingOrder(next, s, 1, Ring, runningThread)
  BY <1>1, TaskAssumption DEF Init, RingOrder, Listing
<1>3. DeadOrder(next, d, 0, Dead, deleteQueue)
  BY <1>1, TaskAssumption DEF Init, DeadOrder, Listing
<1>4. OrderInv
  BY <1>2, <1>3 DEF OrderInv
<1>5. Chain(runningThread, Ring) = Numbers(pid_t, s, 1)
        /\ Chain(deleteQueue, Dead) = Numbers(pid_t, d, 0)
  BY <1>2, <1>3, AbsForm
<1>6. Numbers(pid_t, s, 1) = <<1>>
  <2>1. pid_t[sbush] = 1
    BY TaskAssumption DEF Init
  <2>2. Numbers(pid_t, s, 1) = [i \in 1 .. 1 |-> 1]
    BY <2>1 DEF Numbers
  <2> QED BY <2>2
<1>7. Numbers(pid_t, d, 0) = <<>>
  BY DEF Numbers
<1> QED BY <1>4, <1>5, <1>6, <1>7 DEF Abstract!Init, Init

\* fork inserts one process.
LEMMA ForkRefines ==
    ASSUME QueueInv, QueueInv', OrderInv, fork
    PROVE  OrderInv' /\ Abstract!Spawn
<1>1. PICK child \in Unused :
        /\ pid_t' = [pid_t EXCEPT ![child] = pidCount + 1]
        /\ next' = [next EXCEPT ![child] = next[runningThread],
                                ![runningThread] = child]
  BY DEF fork
<1>2. UNCHANGED <<runningThread, deleteQueue>> /\ pidCount' = pidCount + 1
  BY DEF fork
<1>3. PICK s, n : RingOrder(next, s, n, Ring, runningThread)
  BY DEF OrderInv
<1>4. PICK d, m : DeadOrder(next, d, m, Dead, deleteQueue)
  BY DEF OrderInv
<1>5. TypeOK /\ TypeOK'
  BY DEF QueueInv
<1>6. Ring' = Ring \cup {child} /\ Dead' = Dead
  BY <1>1, <1>2, <1>5, ForkLinks DEF Joins
<1>7. child \in Task /\ child \notin Ring /\ child \notin Dead
  BY UnusedIsNowhere
<1>8. /\ n \in Nat \ {0} /\ s \in [1 .. n -> Task]
      /\ \A i \in 1 .. n : s[i] \in Ring
  BY <1>3, RingListed
<1>9. m \in Nat /\ d \in [1 .. m -> Task] /\ \A i \in 1 .. m : d[i] \in Dead
  BY <1>4, DeadListed
<1>10. /\ next \in [Task -> Task \cup {NULL}] /\ pid_t \in [Task -> Nat]
       /\ pid_t' \in [Task -> Nat] /\ pidCount \in Nat
  BY <1>5 DEF TypeOK
<1>11. PICK k : OneMore(k, n) /\ k = n + 1
  BY <1>8 DEF OneMore
<1> DEFINE r == WithSecond(s, k, child)
<1>12. RingOrder(next', r, k, Ring', runningThread')
  <2>1. child \in Task \ Ring
    BY <1>7
  <2> QED BY <1>1, <1>2, <1>3, <1>6, <1>10, <1>11, <2>1, OrderWithSecond
<1>13. DeadOrder(next', d, m, Dead', deleteQueue')
  <2>1. \A u \in Dead : next'[u] = next[u]
    BY <1>1, <1>7, <1>10, RunningInRing, QueuesAreTasks DEF QueueInv
  <2> QED BY <1>2, <1>4, <1>6, <2>1, DeadOrderFrame
<1>14. /\ Chain(runningThread, Ring) = Numbers(pid_t, s, n)
       /\ Chain(deleteQueue, Dead) = Numbers(pid_t, d, m)
  BY <1>3, <1>4, AbsForm
<1>15. /\ Chain(runningThread, Ring)' = Numbers(pid_t', r, k)
       /\ Chain(deleteQueue, Dead)' = Numbers(pid_t', d, m)
  BY <1>12, <1>13, AbsFormNext
<1>16. pid_t'[child] = pidCount + 1 /\ \A u \in Ring \cup Dead : pid_t'[u] = pid_t[u]
  BY <1>1, <1>7, <1>10, QueuesAreTasks
<1>17. Numbers(pid_t', d, m) = Numbers(pid_t, d, m)
  BY <1>9, <1>16, SameNumbers
<1>18. Numbers(pid_t', r, k) = SecondIn(Numbers(pid_t, s, n), pidCount + 1)
  <2>1. \A i \in 1 .. n : pid_t'[s[i]] = pid_t[s[i]]
    BY <1>8, <1>16
  <2>2. Agree(pid_t, pid_t', s, n)
    BY <2>1 DEF Agree
  <2>3. IsSecond(pid_t, pid_t', s, n, k, child, pidCount + 1)
    BY <1>7, <1>8, <1>10, <1>11, <1>16, <2>2 DEF IsSecond
  <2> QED BY <2>3, AbsWithSecond
<1>19. OrderInv'
  BY <1>12, <1>13 DEF OrderInv
<1>20. Abstract!Spawn
  BY <1>2, <1>14, <1>15, <1>16, <1>17, <1>18 DEF Abstract!Spawn, SecondIn
<1> QED BY <1>19, <1>20

\* exec changes no place in the queue.
LEMMA ExecRefines ==
    ASSUME QueueInv, QueueInv', OrderInv, exec
    PROVE  OrderInv' /\ Abstract!Replace
<1> DEFINE t == runningThread
<1>1. PICK task \in Unused :
        /\ pid_t' = [pid_t EXCEPT ![task] = pid_t[runningThread]]
        /\ next' = [next EXCEPT ![task] = next[runningThread],
                                ![Pred(runningThread)] = task]
        /\ runningThread' = task
  BY DEF exec
<1>2. deleteQueue' = deleteQueue /\ pidCount' = pidCount + 1 /\ t # sbush
  BY DEF exec
<1>3. PICK s, n : RingOrder(next, s, n, Ring, runningThread)
  BY DEF OrderInv
<1>4. PICK d, m : DeadOrder(next, d, m, Dead, deleteQueue)
  BY DEF OrderInv
<1>5. TypeOK /\ TypeOK'
  BY DEF QueueInv
<1>6. Ring' = (Ring \ {t}) \cup {task} /\ Dead' = Dead
  BY <1>1, <1>2, <1>5, ExecLinks DEF Replaces
<1>7. task \in Task /\ task \notin Ring /\ task \notin Dead
  BY UnusedIsNowhere
<1>8. /\ n \in Nat \ {0} /\ s \in [1 .. n -> Task] /\ s[1] = t
      /\ \A i \in 1 .. n : s[i] \in Ring
      /\ \A u \in Ring : \E i \in 1 .. n : u = s[i]
      /\ \A i, j \in 1 .. n : pid_t[s[i]] = pid_t[s[j]] => i = j
  BY <1>3, RingListed
<1>9. m \in Nat /\ d \in [1 .. m -> Task] /\ \A i \in 1 .. m : d[i] \in Dead
  BY <1>4, DeadListed
<1>10. /\ next \in [Task -> Task \cup {NULL}] /\ pid_t \in [Task -> Nat]
       /\ pid_t' \in [Task -> Nat]
  BY <1>5 DEF TypeOK
<1>11. n # 1
  BY <1>2, <1>8 DEF QueueInv
<1>12. Pred(t) = s[n] /\ Pred(t) \in Ring
  <2>1. t \in Ring
    BY <1>5, RunningInRing
  <2>2. Pred(t) \in Ring /\ next[Pred(t)] = s[1] /\ 1 \in 1 .. n
    BY <1>8, <2>1, PredInRing
  <2> QED BY <1>3, <2>2, RingPlace DEF QueueInv
<1> DEFINE r == WithHead(s, task)
<1>13. RingOrder(next', r, n, Ring', runningThread')
  <2>1. task \in Task \ Ring
    BY <1>7
  <2>2. next' = [next EXCEPT ![task] = next[t], ![s[n]] = task]
    BY <1>1, <1>12
  <2>3. RingOrder([next EXCEPT ![task] = next[t], ![s[n]] = task], WithHead(s, task),
                  n, (Ring \ {t}) \cup {task}, task)
    BY <1>3, <1>10, <1>11, <2>1, OrderWithHead
  <2> QED BY <1>1, <1>6, <2>2, <2>3
<1>14. DeadOrder(next', d, m, Dead', deleteQueue')
  <2>1. next' = [next EXCEPT ![task] = next[t], ![s[n]] = task] /\ s[n] \in Ring
    BY <1>1, <1>12
  <2>2. \A u \in Dead : next'[u] = next[u]
    BY <1>7, <1>10, <2>1, QueuesAreTasks DEF QueueInv
  <2> QED BY <1>2, <1>4, <1>6, <2>2, DeadOrderFrame
<1>15. /\ Chain(runningThread, Ring) = Numbers(pid_t, s, n)
       /\ Chain(deleteQueue, Dead) = Numbers(pid_t, d, m)
  BY <1>3, <1>4, AbsForm
<1>16. /\ Chain(runningThread, Ring)' = Numbers(pid_t', r, n)
       /\ Chain(deleteQueue, Dead)' = Numbers(pid_t', d, m)
  BY <1>13, <1>14, AbsFormNext
<1>17. pid_t'[task] = pid_t[t] /\ \A u \in Ring \cup Dead : pid_t'[u] = pid_t[u]
  BY <1>1, <1>7, <1>10, QueuesAreTasks
<1>18. Numbers(pid_t', d, m) = Numbers(pid_t, d, m)
  BY <1>9, <1>17, SameNumbers
<1>19. Numbers(pid_t', r, n) = Numbers(pid_t, s, n)
  <2>1. pid_t'[task] = pid_t[s[1]] /\ \A i \in 1 .. n : pid_t'[s[i]] = pid_t[s[i]]
    BY <1>8, <1>17
  <2>2. \A i \in 1 .. n : pid_t'[WithHead(s, task)[i]] = pid_t[s[i]]
    BY <1>8, <2>1 DEF WithHead
  <2> QED BY <2>2 DEF Numbers
<1>20. OrderInv'
  BY <1>13, <1>14 DEF OrderInv
<1>21. Abstract!Replace
  BY <1>2, <1>15, <1>16, <1>18, <1>19 DEF Abstract!Replace
<1> QED BY <1>20, <1>21

\* The timer.
LEMMA TimerRefines ==
    ASSUME QueueInv, QueueInv', OrderInv, runNextTask
    PROVE  OrderInv' /\ Abstract!TimeSlice
<1>1. runningThread' = next[runningThread] /\ UNCHANGED <<next, deleteQueue, pid_t, pidCount>>
  BY DEF runNextTask
<1>2. TypeOK /\ TypeOK'
  BY DEF QueueInv
<1>3. Ring' = Ring /\ Dead' = Dead
  BY <1>1, <1>2, NextInRing, NoLinks
<1>4. PICK s, n : RingOrder(next, s, n, Ring, runningThread)
  BY DEF OrderInv
<1>5. PICK d, m : DeadOrder(next, d, m, Dead, deleteQueue)
  BY DEF OrderInv
<1>6. RingOrder(next', Rotated(s, n), n, Ring', runningThread')
  BY <1>1, <1>3, <1>4, OrderRotated
<1>7. DeadOrder(next', d, m, Dead', deleteQueue')
  BY <1>1, <1>3, <1>5
<1>8. /\ Chain(runningThread, Ring) = Numbers(pid_t, s, n)
      /\ Chain(deleteQueue, Dead) = Numbers(pid_t, d, m)
  BY <1>4, <1>5, AbsForm
<1>9. /\ Chain(runningThread, Ring)' = Numbers(pid_t', Rotated(s, n), n)
      /\ Chain(deleteQueue, Dead)' = Numbers(pid_t', d, m)
  BY <1>6, <1>7, AbsFormNext
<1>10. Numbers(pid_t, Rotated(s, n), n) =
         Append(Tail(Numbers(pid_t, s, n)), Head(Numbers(pid_t, s, n)))
  <2>1. n \in Nat \ {0} /\ s \in [1 .. n -> Task] /\ pid_t \in [Task -> Nat]
    BY <1>2, <1>4, RingListed, PidsTyped
  <2> QED BY <2>1, AbsRotated
<1>11. OrderInv'
  BY <1>6, <1>7 DEF OrderInv
<1>12. Abstract!TimeSlice
  BY <1>1, <1>8, <1>9, <1>10 DEF Abstract!TimeSlice
<1> QED BY <1>11, <1>12

\* The place of a task that leaves, and what its leaving does to the links
\* of the others.
LEMMA LeavingPlace ==
    ASSUME QueueInv, NEW s, NEW n, RingOrder(next, s, n, Ring, runningThread),
           NEW t \in Ring, t # sbush
    PROVE  /\ \E l : OneMore(n, l)
           /\ \E k \in 1 .. n : /\ t = s[k]
                                /\ Pred(t) = IF k = 1 THEN s[n] ELSE s[k - 1]
                                /\ k = 1 <=> t = runningThread
<1>1. /\ n \in Nat \ {0} /\ s \in [1 .. n -> Task] /\ s[1] = runningThread
      /\ \A u \in Ring : \E i \in 1 .. n : u = s[i]
      /\ \A i, j \in 1 .. n : pid_t[s[i]] = pid_t[s[j]] => i = j
  BY RingListed
<1>2. n # 1
  BY <1>1 DEF QueueInv
<1>3. OneMore(n, n - 1)
  BY <1>1, <1>2 DEF OneMore
<1>4. PICK k \in 1 .. n : t = s[k]
  BY <1>1
<1>5. Pred(t) \in Ring /\ next[Pred(t)] = s[k]
  BY <1>4, PredInRing
<1>6. Pred(t) = IF k = 1 THEN s[n] ELSE s[k - 1]
  BY <1>5, RingPlace DEF QueueInv
<1>7. k = 1 <=> t = runningThread
  <2>1. 1 \in 1 .. n
    BY <1>1
  <2> QED BY <1>1, <1>4, <2>1
<1> QED BY <1>3, <1>4, <1>6, <1>7

\* The links without t.
LEMMA UnlinkedLinks ==
    ASSUME QueueInv, NEW t \in Ring
    PROVE  /\ \A u \in Ring : Unlinked(t)[u] = IF u = Pred(t) THEN next[t] ELSE next[u]
           /\ \A u \in Dead : Unlinked(t)[u] = next[u]
           /\ Unlinked(t) \in [Task -> Task \cup {NULL}]
<1>1. next \in [Task -> Task \cup {NULL}] /\ t \in Task /\ Ring \subseteq Task /\ Dead \subseteq Task
  BY QueuesAreTasks DEF QueueInv, TypeOK
<1>2. Pred(t) \in Ring
  BY PredInRing
<1> QED BY <1>1, <1>2 DEF Unlinked, QueueInv

\* The end of the deleteQueue is the last structure listed.
LEMMA LastListed ==
    ASSUME QueueInv, NEW d, NEW m, DeadOrder(next, d, m, Dead, deleteQueue), m # 0
    PROVE  deleteQueue # NULL /\ m \in 1 .. m /\ LastDead = d[m]
<1>1. /\ m \in Nat /\ d \in [1 .. m -> Task] /\ Dead = {d[i] : i \in 1 .. m}
      /\ \A i \in 1 .. m : i # 1 => d[i] = next[d[i - 1]]
      /\ d[1] = deleteQueue /\ next[d[m]] = NULL
  BY DEF DeadOrder, Listing
<1>2. \A i \in 1 .. m : d[i] # NULL
  BY <1>1, TaskAssumption
<1>3. deleteQueue # NULL
  BY <1>1, <1>2
<1>4. PICK i \in 1 .. m : LastDead = d[i]
  BY <1>1, <1>3, LastInDead
<1>5. next[d[i]] = NULL
  BY <1>3, <1>4, LastInDead
<1>6. i = m
  <2> SUFFICES ASSUME i # m PROVE FALSE
    OBVIOUS
  <2>1. i + 1 \in 1 .. m /\ i + 1 # 1 /\ (i + 1) - 1 = i
    BY <1>1
  <2>2. d[i + 1] = next[d[i]]
    BY <1>1, <2>1
  <2> QED BY <1>2, <1>5, <2>1, <2>2
<1> QED BY <1>1, <1>3, <1>4, <1>6

\* What ends in the deleteQueue comes last there, and the others' links are
\* those of the unlinked ring.
LEMMA DisposeOrder ==
    ASSUME QueueInv, NEW t \in Ring, addToDeleteQueue(t, Unlinked(t)),
           NEW d, NEW m, DeadOrder(next, d, m, Dead, deleteQueue)
    PROVE  /\ \A u \in Ring \ {t} :
                 next'[u] = IF u = Pred(t) THEN next[t] ELSE next[u]
           /\ \E n : /\ IsSum(n, m, 1)
                     /\ DeadOrder(next', Appended(d, n, t), n, Dead \cup {t}, deleteQueue')
<1> DEFINE link == Unlinked(t)
<1>1. /\ \A u \in Ring : link[u] = IF u = Pred(t) THEN next[t] ELSE next[u]
      /\ \A u \in Dead : link[u] = next[u]
      /\ link \in [Task -> Task \cup {NULL}]
  BY UnlinkedLinks
<1>2. t \in Task \ Dead /\ Ring \subseteq Task /\ Dead \subseteq Task /\ Ring \cap Dead = {}
  BY QueuesAreTasks DEF QueueInv
<1>3. /\ m \in Nat /\ d \in [1 .. m -> Task] /\ \A i \in 1 .. m : d[i] \in Dead
      /\ \A i, j \in 1 .. m : d[i] = d[j] => i = j
      /\ IF m = 0 THEN deleteQueue = NULL ELSE d[1] = deleteQueue
  BY DEF DeadOrder, Listing
<1> HIDE DEF link
<1> DEFINE n == m + 1
<1>4. n = m + 1 /\ IsSum(n, m, 1)
  BY DEF IsSum
<1> HIDE DEF n
<1>5. CASE m = 0
  <2>1. deleteQueue = NULL
    BY <1>3, <1>5
  <2>2. next' = [link EXCEPT ![t] = NULL] /\ deleteQueue' = t
    BY <2>1 DEF addToDeleteQueue, link
  <2>3. \A u \in Ring \ {t} : next'[u] = link[u]
    BY <1>1, <1>2, <2>2
  <2>4. next'[t] = NULL
    BY <1>1, <1>2, <2>2
  <2>5. DeadOrder(next', Appended(d, n, t), n, Dead \cup {t}, IF m = 0 THEN t ELSE deleteQueue)
    <3>1. \A i \in 1 .. m : i < m => next'[d[i]] = next[d[i]]
      BY <1>5
    <3>2. m # 0 => next'[d[m]] = t
      BY <1>5
    <3>3. t \in Task \ Dead /\ IsSum(n, m, 1)
      BY <1>2, <1>4
    <3>4. AppendsTo(next, next', d, m, t)
      BY <2>4, <3>1, <3>2 DEF AppendsTo
    <3> QED BY <3>3, <3>4, OrderAppended
  <2> QED BY <1>1, <1>4, <1>5, <2>2, <2>3, <2>5
<1>6. CASE m # 0
  <2>1. deleteQueue # NULL /\ m \in 1 .. m /\ LastDead = d[m]
    BY <1>6, LastListed
  <2>2. next' = [link EXCEPT ![d[m]] = t, ![t] = NULL] /\ deleteQueue' = deleteQueue
    BY <2>1 DEF addToDeleteQueue, link
  <2>3. d[m] \in Dead
    BY <1>3, <2>1
  <2>4. \A u \in Ring \ {t} : next'[u] = link[u]
    BY <1>1, <1>2, <2>2, <2>3
  <2>5. next'[t] = NULL /\ next'[d[m]] = t
    BY <1>1, <1>2, <2>2, <2>3
  <2>6. \A u \in Dead \ {d[m]} : next'[u] = next[u]
    BY <1>1, <1>2, <2>2, <2>3
  <2>7. \A i \in 1 .. m : i < m => next'[d[i]] = next[d[i]]
    BY <1>3, <2>1, <2>6
  <2>9. AppendsTo(next, next', d, m, t)
    BY <2>5, <2>7 DEF AppendsTo
  <2>8. DeadOrder(next', Appended(d, n, t), n, Dead \cup {t}, IF m = 0 THEN t ELSE deleteQueue)
    BY <1>2, <1>4, <2>9, OrderAppended
  <2> QED BY <1>1, <1>4, <1>6, <2>2, <2>4, <2>8
<1> QED BY <1>5, <1>6

-------------------------------------------------------------------------------
\* What the others' links are once t is taken out of the ring.
Skips(t) == \A u \in Ring \ {t} : next'[u] = IF u = Pred(t) THEN next[t] ELSE next[u]

\* A task of the ring leaves and the one behind it runs: the others follow
\* from that one on.
LeavesAt(t, s, n, k, m) ==
    /\ OneMore(n, m) /\ k \in 1 .. n /\ t = s[k]
    /\ k = 1 <=> t = runningThread

\* The listing of the others once t left.
LEMMA QueueBehind ==
    ASSUME QueueInv, NEW t \in Ring, t # sbush, Ring' = Ring \ {t}, Skips(t),
           runningThread' = next[t],
           NEW s, NEW n, RingOrder(next, s, n, Ring, runningThread)
    PROVE  \E k, m : /\ LeavesAt(t, s, n, k, m)
                     /\ RingOrder(next', BehindPlace(s, n, m, k), m, Ring', runningThread')
<1>1. PICK m : OneMore(n, m)
  BY LeavingPlace
<1>2. PICK k \in 1 .. n : /\ t = s[k]
                          /\ Pred(t) = IF k = 1 THEN s[n] ELSE s[k - 1]
                          /\ k = 1 <=> t = runningThread
  BY LeavingPlace
<1>3. RingOrder(next', BehindPlace(s, n, m, k), m, Ring', runningThread')
  <2>1. \A u \in Ring \ {s[k]} :
           next'[u] = IF u = (IF k = 1 THEN s[n] ELSE s[k - 1]) THEN next[s[k]] ELSE next[u]
    BY <1>2 DEF Skips
  <2>2. RingOrder(next', BehindPlace(s, n, m, k), m, Ring \ {s[k]}, next[s[k]])
    BY <1>1, <2>1, OrderBehind
  <2> QED BY <1>2, <2>2
<1>4. LeavesAt(t, s, n, k, m)
  BY <1>1, <1>2 DEF LeavesAt
<1> QED BY <1>3, <1>4

\* Their numbers.
LEMMA NumbersBehind ==
    ASSUME QueueInv, NEW s, NEW n, RingOrder(next, s, n, Ring, runningThread),
           NEW t, NEW k, NEW m, LeavesAt(t, s, n, k, m)
    PROVE  /\ Numbers(pid_t, BehindPlace(s, n, m, k), m)
                = Abstract!Behind(Numbers(pid_t, s, n), pid_t[t])
           /\ t = runningThread => Numbers(pid_t, BehindPlace(s, n, m, k), m)
                                     = Tail(Numbers(pid_t, s, n))
<1>1. OneMore(n, m) /\ k \in 1 .. n /\ t = s[k] /\ (k = 1 <=> t = runningThread)
  BY DEF LeavesAt
<1>2. /\ n \in Nat /\ s \in [1 .. n -> Task] /\ pid_t \in [Task -> Nat]
      /\ Distinct(pid_t, s, n)
  BY RingListed, PidsTyped DEF QueueInv, Distinct
<1>3. Numbers(pid_t, BehindPlace(s, n, m, k), m) = Abstract!Behind(Numbers(pid_t, s, n), pid_t[s[k]])
  BY <1>1, <1>2, AbsBehind
<1>4. Numbers(pid_t, BehindPlace(s, n, m, 1), m) = Tail(Numbers(pid_t, s, n))
  BY <1>1, <1>2, AbsTail
<1> QED BY <1>1, <1>3, <1>4

\* Another task of the ring leaves and the running one goes on.
LEMMA QueueWithout ==
    ASSUME QueueInv, NEW t \in Ring, t # sbush, Ring' = Ring \ {t}, Skips(t),
           t # runningThread, runningThread' = runningThread, pid_t' = pid_t,
           NEW s, NEW n, RingOrder(next, s, n, Ring, runningThread)
    PROVE  /\ pid_t[t] \in Abstract!ToSet(Tail(Numbers(pid_t, s, n)))
           /\ \E r, m :
                /\ RingOrder(next', r, m, Ring', runningThread')
                /\ Numbers(pid_t', r, m) = Abstract!Without(Numbers(pid_t, s, n), pid_t[t])
<1>1. PICK m : OneMore(n, m)
  BY LeavingPlace
<1>2. PICK k \in 1 .. n : /\ t = s[k]
                          /\ Pred(t) = IF k = 1 THEN s[n] ELSE s[k - 1]
                          /\ k = 1 <=> t = runningThread
  BY LeavingPlace
<1>4. /\ n \in Nat \ {0} /\ s \in [1 .. n -> Task] /\ pid_t \in [Task -> Nat]
      /\ Distinct(pid_t, s, n)
  BY RingListed, PidsTyped DEF QueueInv, Distinct
<1>5. k \in 2 .. n
  BY <1>2, <1>4
<1> DEFINE r == WithoutPlace(s, m, k)
<1>3. RingOrder(next', r, m, Ring', runningThread')
  <2>1. \A u \in Ring \ {s[k]} :
           next'[u] = IF u = s[k - 1] THEN next[s[k]] ELSE next[u]
    BY <1>2 DEF Skips
  <2>2. RingOrder(next', r, m, Ring \ {s[k]}, runningThread)
    BY <1>1, <1>5, <2>1, OrderWithout
  <2> QED BY <1>2, <2>2
<1>6. Numbers(pid_t, r, m) = Abstract!Without(Numbers(pid_t, s, n), pid_t[s[k]])
  BY <1>1, <1>4, AbsWithout
<1>7. pid_t[t] \in Abstract!ToSet(Tail(Numbers(pid_t, s, n)))
  <2> DEFINE q == Tail(Numbers(pid_t, s, n))
  <2>1. /\ q \in Seq(Nat) /\ Len(q) = n - 1
        /\ \A i \in 1 .. n - 1 : q[i] = pid_t[s[i + 1]]
    BY <1>4, NumbersHead
  <2> HIDE DEF q
  <2>2. k - 1 \in 1 .. n - 1 /\ (k - 1) + 1 = k
    BY <1>4, <1>5
  <2>3. q[k - 1] = pid_t[s[(k - 1) + 1]]
    BY <2>1, <2>2, Zenon
  <2>4. DOMAIN q = 1 .. n - 1
    BY <2>1
  <2>5. k - 1 \in DOMAIN q /\ q[k - 1] = pid_t[t]
    BY <1>2, <2>2, <2>3, <2>4, Zenon
  <2>6. pid_t[t] \in {q[i] : i \in DOMAIN q}
    BY <2>5
  <2> QED BY <2>6 DEF Abstract!ToSet, q
<1> QED BY <1>2, <1>3, <1>6, <1>7

\* What ends in the deleteQueue comes last among the exited.
LEMMA ExitedAppended ==
    ASSUME QueueInv, TypeOK', NEW t \in Ring, t # sbush, addToDeleteQueue(t, Unlinked(t)),
           \/ runningThread' = next[t]
           \/ runningThread' = runningThread /\ t # runningThread,
           pid_t' = pid_t,
           NEW d, NEW m, DeadOrder(next, d, m, Dead, deleteQueue)
    PROVE  /\ Ring' = Ring \ {t} /\ Skips(t)
           /\ \E e, l : /\ DeadOrder(next', e, l, Dead', deleteQueue')
                        /\ Numbers(pid_t', e, l) = Append(Numbers(pid_t, d, m), pid_t[t])
<1>1. Ring' = Ring \ {t} /\ Dead' = Dead \cup {t}
  <2>1. next \in [Task -> Task \cup {NULL}]
    BY DEF QueueInv, TypeOK
  <2>2. Pred(t) \in Ring /\ next[Pred(t)] = t /\ Ring # {t}
    BY PredInRing DEF QueueInv
  <2>3. next[t] \in Ring \ {t}
    BY <2>1, <2>2, CycleRemove DEF QueueInv
  <2>4. runningThread' \in Ring \ {t}
    BY <2>3, RunningInRing DEF QueueInv
  <2> QED BY <2>4, Disposed
<1>2. Skips(t)
  BY DisposeOrder DEF Skips
<1>3. PICK n : /\ IsSum(n, m, 1)
               /\ DeadOrder(next', Appended(d, n, t), n, Dead \cup {t}, deleteQueue')
  BY DisposeOrder
<1>4. /\ m \in Nat /\ d \in [1 .. m -> Task] /\ t \in Task /\ pid_t \in [Task -> Nat]
  BY DeadListed, QueuesAreTasks, PidsTyped DEF QueueInv
<1>5. Numbers(pid_t, Appended(d, n, t), n) = Append(Numbers(pid_t, d, m), pid_t[t])
  BY <1>3, <1>4, AbsAppended
<1> QED BY <1>1, <1>2, <1>3, <1>5

\* Only sbush has the number of the first process.
LEMMA NotFirst ==
    ASSUME QueueInv, NEW t \in Ring
    PROVE  t # sbush <=> pid_t[t] # 1
  BY DEF QueueInv, PidsAreUnique

\* The first number is that of the running process, and each of the ring has one.
LEMMA HeadRuns ==
    ASSUME QueueInv, NEW s, NEW n, RingOrder(next, s, n, Ring, runningThread)
    PROVE  Head(Numbers(pid_t, s, n)) = pid_t[runningThread]
<1>1. n \in Nat \ {0} /\ s \in [1 .. n -> Task] /\ s[1] = runningThread /\ pid_t \in [Task -> Nat]
  BY RingListed, PidsTyped DEF QueueInv
<1>2. Head(Numbers(pid_t, s, n)) = pid_t[s[1]]
  BY <1>1, NumbersHead
<1> QED BY <1>1, <1>2

\* Each process of the ring has its number in the queue.
LEMMA NumberListed ==
    ASSUME QueueInv, NEW s, NEW n, RingOrder(next, s, n, Ring, runningThread), NEW t \in Ring
    PROVE  pid_t[t] \in Abstract!ToSet(Numbers(pid_t, s, n))
<1>1. /\ n \in Nat /\ s \in [1 .. n -> Task] /\ pid_t \in [Task -> Nat]
      /\ \E i \in 1 .. n : t = s[i]
  BY RingListed, PidsTyped DEF QueueInv
<1>2. DOMAIN Numbers(pid_t, s, n) = 1 .. n /\ \A i \in 1 .. n : Numbers(pid_t, s, n)[i] = pid_t[s[i]]
  BY DEF Numbers
<1> QED BY <1>1, <1>2 DEF Abstract!ToSet

-------------------------------------------------------------------------------
\* exec of a missing file: the running process leaves and is listed nowhere.
LEMMA ExecNotFoundRefines ==
    ASSUME QueueInv, QueueInv', OrderInv, execNotFound
    PROVE  OrderInv' /\ Abstract!End
<1> DEFINE t == runningThread
<1>1. /\ t # sbush /\ next' = Unlinked(t) /\ runningThread' = next[t]
      /\ UNCHANGED <<deleteQueue, pid_t, pidCount>>
  BY DEF execNotFound
<1>2. PICK s, n : RingOrder(next, s, n, Ring, runningThread)
  BY DEF OrderInv
<1>3. PICK d, m : DeadOrder(next, d, m, Dead, deleteQueue)
  BY DEF OrderInv
<1>4. t \in Ring
  BY RunningInRing DEF QueueInv
<1>5. Ring' = Ring \ {t} /\ Dead' = Dead
  <2>1. Ring # {t} /\ next \in [Task -> Task \cup {NULL}] /\ TypeOK'
    BY <1>1, <1>4 DEF QueueInv, TypeOK
  <2>2. Pred(t) \in Ring /\ next[Pred(t)] = t
    BY <1>4, PredInRing
  <2>3. next[t] \in Ring \ {t} /\ IsCycle(next', Ring \ {t})
    BY <1>1, <1>4, <2>1, <2>2, CycleRemove DEF QueueInv, Unlinked
  <2>4. Ring' = Ring \ {t}
    BY <1>1, <2>1, <2>3, RingFormNext
  <2>5. \A u \in Dead : next'[u] = next[u]
    BY <1>1, <1>4, UnlinkedLinks
  <2> QED BY <1>1, <2>1, <2>4, <2>5, DeadStays
<1>6. Skips(t) /\ \A u \in Dead : next'[u] = next[u]
  BY <1>1, <1>4, UnlinkedLinks DEF Skips
<1>7. DeadOrder(next', d, m, Dead', deleteQueue')
  BY <1>1, <1>3, <1>5, <1>6, DeadOrderFrame
<1>8. PICK k, l : /\ LeavesAt(t, s, n, k, l)
                  /\ RingOrder(next', BehindPlace(s, n, l, k), l, Ring', runningThread')
  BY <1>1, <1>2, <1>4, <1>5, <1>6, QueueBehind
<1> DEFINE r == BehindPlace(s, n, l, k)
<1>13. Numbers(pid_t', r, l) = Tail(Numbers(pid_t, s, n))
  BY <1>1, <1>2, <1>8, NumbersBehind
<1>9. /\ Chain(runningThread, Ring) = Numbers(pid_t, s, n)
      /\ Chain(deleteQueue, Dead) = Numbers(pid_t, d, m)
  BY <1>2, <1>3, AbsForm
<1>10. /\ Chain(runningThread, Ring)' = Numbers(pid_t', r, l)
       /\ Chain(deleteQueue, Dead)' = Numbers(pid_t', d, m)
  BY <1>7, <1>8, AbsFormNext
<1>11. Head(Numbers(pid_t, s, n)) # 1
  BY <1>1, <1>2, <1>4, HeadRuns, NotFirst
<1>12. Abstract!End
  BY <1>1, <1>9, <1>10, <1>11, <1>13 DEF Abstract!End
<1> QED BY <1>7, <1>8, <1>12 DEF OrderInv

\* exit: the running process leaves and is the last of the exited.
LEMMA ExitRefines ==
    ASSUME QueueInv, QueueInv', OrderInv, exit
    PROVE  OrderInv' /\ Abstract!End
<1> DEFINE t == runningThread
<1>1. /\ pid_t[t] # 1 /\ addToDeleteQueue(t, Unlinked(t)) /\ runningThread' = next[t]
      /\ UNCHANGED <<pid_t, pidCount>>
  BY DEF exit
<1>2. PICK s, n : RingOrder(next, s, n, Ring, runningThread)
  BY DEF OrderInv
<1>3. PICK d, m : DeadOrder(next, d, m, Dead, deleteQueue)
  BY DEF OrderInv
<1>4. t \in Ring /\ t # sbush /\ TypeOK'
  BY <1>1, RunningInRing, NotFirst DEF QueueInv
<1>5. Ring' = Ring \ {t} /\ Skips(t)
  BY <1>1, <1>3, <1>4, ExitedAppended
<1>6. PICK e, k : /\ DeadOrder(next', e, k, Dead', deleteQueue')
                  /\ Numbers(pid_t', e, k) = Append(Numbers(pid_t, d, m), pid_t[t])
  BY <1>1, <1>3, <1>4, ExitedAppended
<1>7. PICK j, l : /\ LeavesAt(t, s, n, j, l)
                  /\ RingOrder(next', BehindPlace(s, n, l, j), l, Ring', runningThread')
  BY <1>1, <1>2, <1>4, <1>5, QueueBehind
<1> DEFINE r == BehindPlace(s, n, l, j)
<1>12. Numbers(pid_t', r, l) = Tail(Numbers(pid_t, s, n))
  BY <1>1, <1>2, <1>7, NumbersBehind
<1>8. /\ Chain(runningThread, Ring) = Numbers(pid_t, s, n)
      /\ Chain(deleteQueue, Dead) = Numbers(pid_t, d, m)
  BY <1>2, <1>3, AbsForm
<1>9. /\ Chain(runningThread, Ring)' = Numbers(pid_t', r, l)
      /\ Chain(deleteQueue, Dead)' = Numbers(pid_t', e, k)
  BY <1>6, <1>7, AbsFormNext
<1>10. Head(Numbers(pid_t, s, n)) = pid_t[t]
  BY <1>2, HeadRuns
<1>11. Abstract!End
  BY <1>1, <1>6, <1>8, <1>9, <1>10, <1>12 DEF Abstract!End
<1> QED BY <1>6, <1>7, <1>11 DEF OrderInv

\* kill: another process leaves, the caller goes on.
LEMMA KillRefines ==
    ASSUME QueueInv, QueueInv', OrderInv, NEW p, kill(p)
    PROVE  OrderInv' /\ Abstract!EndOther
<1>1. PICK t \in Ring : t # runningThread /\ pid_t[t] = p /\ addToDeleteQueue(t, Unlinked(t))
  BY DEF kill, WithPid
<1>2. p # 1 /\ UNCHANGED <<runningThread, pid_t, pidCount>>
  BY DEF kill
<1>3. PICK s, n : RingOrder(next, s, n, Ring, runningThread)
  BY DEF OrderInv
<1>4. PICK d, m : DeadOrder(next, d, m, Dead, deleteQueue)
  BY DEF OrderInv
<1>5. t # sbush /\ TypeOK'
  BY <1>1, <1>2, NotFirst DEF QueueInv
<1>6. Ring' = Ring \ {t} /\ Skips(t)
  BY <1>1, <1>2, <1>4, <1>5, ExitedAppended
<1>7. PICK e, k : /\ DeadOrder(next', e, k, Dead', deleteQueue')
                  /\ Numbers(pid_t', e, k) = Append(Numbers(pid_t, d, m), p)
  BY <1>1, <1>2, <1>4, <1>5, ExitedAppended
<1>8. p \in Abstract!ToSet(Tail(Numbers(pid_t, s, n)))
  BY <1>1, <1>2, <1>3, <1>5, <1>6, QueueWithout
<1>9. PICK r, l : /\ RingOrder(next', r, l, Ring', runningThread')
                  /\ Numbers(pid_t', r, l) = Abstract!Without(Numbers(pid_t, s, n), p)
  BY <1>1, <1>2, <1>3, <1>5, <1>6, QueueWithout
<1>10. /\ Chain(runningThread, Ring) = Numbers(pid_t, s, n)
       /\ Chain(deleteQueue, Dead) = Numbers(pid_t, d, m)
  BY <1>3, <1>4, AbsForm
<1>11. /\ Chain(runningThread, Ring)' = Numbers(pid_t', r, l)
       /\ Chain(deleteQueue, Dead)' = Numbers(pid_t', e, k)
  BY <1>7, <1>9, AbsFormNext
<1>12. Abstract!EndOther
  BY <1>2, <1>7, <1>8, <1>9, <1>10, <1>11 DEF Abstract!EndOther
<1> QED BY <1>7, <1>9, <1>12 DEF OrderInv

\* Nothing the abstract queue shows changes.
LEMMA StandingRefines ==
    ASSUME OrderInv, UNCHANGED <<queues, pid_t, pidCount>>
    PROVE  OrderInv' /\ UNCHANGED Abstract!queueVars
<1>1. Ring' = Ring /\ Dead' = Dead /\ UNCHANGED <<next, runningThread, deleteQueue>>
  BY DEF Ring, Dead, ReachFrom, Closed, queues
<1>2. OrderInv'
  BY <1>1 DEF OrderInv
<1>3. PICK s, n : RingOrder(next, s, n, Ring, runningThread)
  BY DEF OrderInv
<1>4. PICK d, m : DeadOrder(next, d, m, Dead, deleteQueue)
  BY DEF OrderInv
<1>5. /\ Chain(runningThread, Ring) = Numbers(pid_t, s, n)
      /\ Chain(deleteQueue, Dead) = Numbers(pid_t, d, m)
  BY <1>3, <1>4, AbsForm
<1>6. RingOrder(next', s, n, Ring', runningThread') /\ DeadOrder(next', d, m, Dead', deleteQueue')
  BY <1>1, <1>3, <1>4
<1>7. /\ Chain(runningThread, Ring)' = Numbers(pid_t', s, n)
      /\ Chain(deleteQueue, Dead)' = Numbers(pid_t', d, m)
  BY <1>6, AbsFormNext
<1> QED BY <1>2, <1>5, <1>7 DEF Abstract!queueVars

\* Ctrl-C: a process leaves and the one behind it runs, or nothing happens.
LEMMA CtrlCRefines ==
    ASSUME QueueInv, QueueInv', OrderInv, CtrlC
    PROVE  OrderInv' /\ (Abstract!Interrupt \/ UNCHANGED Abstract!queueVars)
<1>1. CASE foregroundPid = 1 \/ WithPid(foregroundPid) = {}
  <2>1. UNCHANGED <<queues, pid_t, pidCount>>
    BY <1>1 DEF CtrlC
  <2> QED BY <2>1, StandingRefines
<1>2. CASE ~(foregroundPid = 1 \/ WithPid(foregroundPid) = {})
  <2> DEFINE p == foregroundPid
  <2>1. PICK t \in Ring : /\ pid_t[t] = p
                          /\ addToDeleteQueue(t, Unlinked(t))
                          /\ runningThread' = next[t]
    BY <1>2 DEF CtrlC, WithPid
  <2>2. p # 1 /\ UNCHANGED <<pid_t, pidCount>>
    BY <1>2 DEF CtrlC
  <2> HIDE DEF p
  <2>3. PICK s, n : RingOrder(next, s, n, Ring, runningThread)
    BY DEF OrderInv
  <2>4. PICK d, m : DeadOrder(next, d, m, Dead, deleteQueue)
    BY DEF OrderInv
  <2>5. t # sbush /\ TypeOK'
    BY <2>1, <2>2, NotFirst DEF QueueInv
  <2>6. Ring' = Ring \ {t} /\ Skips(t)
    BY <2>1, <2>2, <2>4, <2>5, ExitedAppended
  <2>7. PICK e, k : /\ DeadOrder(next', e, k, Dead', deleteQueue')
                    /\ Numbers(pid_t', e, k) = Append(Numbers(pid_t, d, m), p)
    BY <2>1, <2>2, <2>4, <2>5, ExitedAppended
  <2>8. p \in Abstract!ToSet(Numbers(pid_t, s, n))
    BY <2>1, <2>3, NumberListed
  <2>9. PICK j, l : /\ LeavesAt(t, s, n, j, l)
                    /\ RingOrder(next', BehindPlace(s, n, l, j), l, Ring', runningThread')
    BY <2>1, <2>2, <2>3, <2>5, <2>6, QueueBehind
  <2> DEFINE r == BehindPlace(s, n, l, j)
  <2>13. Numbers(pid_t', r, l) = Abstract!Behind(Numbers(pid_t, s, n), p)
    BY <2>1, <2>2, <2>3, <2>9, NumbersBehind
  <2>10. /\ Chain(runningThread, Ring) = Numbers(pid_t, s, n)
         /\ Chain(deleteQueue, Dead) = Numbers(pid_t, d, m)
    BY <2>3, <2>4, AbsForm
  <2>11. /\ Chain(runningThread, Ring)' = Numbers(pid_t', r, l)
         /\ Chain(deleteQueue, Dead)' = Numbers(pid_t', e, k)
    BY <2>7, <2>9, AbsFormNext
  <2>12. Abstract!Interrupt
    BY <2>2, <2>7, <2>8, <2>10, <2>11, <2>13 DEF Abstract!Interrupt
  <2> QED BY <2>7, <2>9, <2>12 DEF OrderInv
<1> QED BY <1>1, <1>2

\* Every step keeps the queues listed and is a step of the round robin.
LEMMA RefineStep ==
    QueueInv /\ QueueInv' /\ OrderInv /\ [Next]_vars
        => OrderInv' /\ [Abstract!Next]_(Abstract!queueVars)
<1> SUFFICES ASSUME QueueInv, QueueInv', OrderInv, [Next]_vars
             PROVE  OrderInv' /\ (Abstract!Next \/ UNCHANGED Abstract!queueVars)
  OBVIOUS
<1>1. CASE fork
  BY <1>1, ForkRefines DEF Abstract!Next
<1>2. CASE exec
  BY <1>2, ExecRefines DEF Abstract!Next
<1>3. CASE execNotFound
  BY <1>3, ExecNotFoundRefines DEF Abstract!Next
<1>4. CASE exit
  BY <1>4, ExitRefines DEF Abstract!Next
<1>5. CASE \E p \in Pids : kill(p)
  BY <1>5, KillRefines DEF Abstract!Next
<1>6. CASE CtrlC
  BY <1>6, CtrlCRefines DEF Abstract!Next
<1>7. CASE \E p \in WaitPids : waitpid(p)
  <2>1. UNCHANGED <<queues, pid_t, pidCount>>
    BY <1>7 DEF waitpid
  <2> QED BY <2>1, StandingRefines
<1>8. CASE runNextTask
  BY <1>8, TimerRefines DEF Abstract!Next
<1>9. CASE UNCHANGED vars
  <2>1. UNCHANGED <<queues, pid_t, pidCount>>
    BY <1>9 DEF vars, queues
  <2> QED BY <2>1, StandingRefines
<1> QED BY <1>1, <1>2, <1>3, <1>4, <1>5, <1>6, <1>7, <1>8, <1>9 DEF Next

\* fork, exec, exit, kill, Ctrl-C and the timer, each a few pointer writes
\* after a walk over the ring, do to the numbers of the processes what the
\* round robin promises: one insertion, one removal or one rotation.
THEOREM LinksImplementRoundRobin == Spec => ImplementsRoundRobin
<1>1. Init => OrderInv /\ Abstract!Init
  BY OrderInit
<1>2. QueueInv /\ QueueInv' /\ OrderInv /\ [Next]_vars
        => OrderInv' /\ [Abstract!Next]_(Abstract!queueVars)
  BY RefineStep
<1> QED BY QueueInvariant, <1>1, <1>2, PTL DEF Spec, ImplementsRoundRobin, Abstract!Spec
===============================================================================
