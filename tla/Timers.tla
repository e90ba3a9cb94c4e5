-------------------------------- MODULE Timers --------------------------------
(***************************************************************************)
(* The timer interrupt (src/sys/idt.c), which counts seconds for sleep()   *)
(* and alarm() and switches processes, with the system calls behind them   *)
(* (src/sys/task.c).  The processes are those of a ring in which nobody    *)
(* forks or ends meanwhile.                                                *)
(***************************************************************************)
EXTENDS Integers

CONSTANTS
    N,             \* processes in the ring, numbered in its order
    TicksPerSecond,    \* 19 in the code
    TicksPerSlice,     \* 3 in the code
    Seconds        \* the arguments programs give sleep() and alarm()

ASSUME TimerAssumption ==
    /\ N \in Nat \ {0}
    /\ TicksPerSlice \in Nat \ {0}
    /\ TicksPerSecond \in Nat
    /\ TicksPerSecond > TicksPerSlice
    /\ Seconds \subseteq Nat
    /\ \E s \in Seconds \cup {0} : \A r \in Seconds : r <= s

VARIABLES
    i, j,                  \* ticks of the second and of the slice
    runningThread,
    functionPointer,       \* whether a handler is installed for SIGALRM
    currAlarmCount, expectedAlarmCount,
    currSleepCount, expectedSleepCount,
    ranFor,                \* history: ticks since the last switch
    sleptFor, armedFor     \* history: ticks since setSleep and setAlarm

alarms == <<functionPointer, currAlarmCount, expectedAlarmCount, armedFor>>
sleeps == <<currSleepCount, expectedSleepCount, sleptFor>>
timerVars == <<i, j, runningThread, alarms, sleeps, ranFor>>

Task == 0 .. (N - 1)

\* Bounds: the counters and histories go up to what the comparisons with
\* them can tell apart.
MaxSeconds == CHOOSE s \in Seconds \cup {0} : \A r \in Seconds : r <= s
UpTo(n, limit) == IF n > limit THEN limit ELSE n
MaxCount == MaxSeconds + 2
MaxTicks == TicksPerSecond * MaxCount

-------------------------------------------------------------------------------
TimerInit ==
    /\ i = 0 /\ j = 0
    /\ runningThread = 0
    /\ functionPointer = [t \in Task |-> FALSE]
    /\ currAlarmCount = [t \in Task |-> 0]
    /\ expectedAlarmCount = [t \in Task |-> 0]
    /\ currSleepCount = [t \in Task |-> 0]
    /\ expectedSleepCount = [t \in Task |-> 0]
    /\ ranFor = 0
    /\ sleptFor = [t \in Task |-> 0]
    /\ armedFor = [t \in Task |-> 0]

\* A count that has started goes on.
Advanced(count) ==
    [t \in Task |-> IF count[t] >= 1 THEN UpTo(count[t] + 1, MaxCount) ELSE 0]
Aged(history, count) ==
    [t \in Task |-> IF count[t] >= 1 THEN UpTo(history[t] + 1, MaxTicks) ELSE 0]

AtSecond == (i + 1) % TicksPerSecond = 0

\* Mutant: the count of the slice is compared, not taken modulo.
AtSliceExactly == j + 1 = TicksPerSlice

AtSlice == (j + 1) % TicksPerSlice = 0

\* The tick that completes a second counts for every process of the ring,
\* and does not switch even when the slice is over.
TickSecond ==
    /\ AtSecond
    /\ i' = 0
    /\ j' = j + 1
    /\ currAlarmCount' = Advanced(currAlarmCount)
    /\ currSleepCount' = Advanced(currSleepCount)
    /\ ranFor' = ranFor + 1
    /\ sleptFor' = Aged(sleptFor, currSleepCount)
    /\ armedFor' = Aged(armedFor, currAlarmCount)
    /\ UNCHANGED <<runningThread, functionPointer, expectedAlarmCount,
                   expectedSleepCount>>

NextThread == (runningThread + 1) % N
Due(t) == currAlarmCount[t] > expectedAlarmCount[t]

\* runNextTask(): the process that comes runs its handler when its alarm is
\* due.
TickSlice ==
    /\ ~AtSecond /\ AtSlice
    /\ i' = i + 1
    /\ j' = 0
    /\ runningThread' = NextThread
    /\ IF Due(NextThread)
         THEN /\ functionPointer' = [functionPointer EXCEPT ![NextThread] = FALSE]
              /\ currAlarmCount' = [currAlarmCount EXCEPT ![NextThread] = 0]
              /\ expectedAlarmCount' = [expectedAlarmCount EXCEPT ![NextThread] = 0]
         ELSE UNCHANGED <<functionPointer, currAlarmCount, expectedAlarmCount>>
    /\ ranFor' = 0
    /\ sleptFor' = Aged(sleptFor, currSleepCount)
    /\ armedFor' = Aged(armedFor, currAlarmCount)
    /\ UNCHANGED <<currSleepCount, expectedSleepCount>>

\* Any other tick.
TickOnly ==
    /\ ~AtSecond /\ ~AtSlice
    /\ i' = i + 1
    /\ j' = j + 1
    /\ ranFor' = ranFor + 1
    /\ sleptFor' = Aged(sleptFor, currSleepCount)
    /\ armedFor' = Aged(armedFor, currAlarmCount)
    /\ UNCHANGED <<runningThread, functionPointer, currAlarmCount,
                   expectedAlarmCount, currSleepCount, expectedSleepCount>>

Tick == TickSecond \/ TickSlice \/ TickOnly

\* Sleeping is a loop of the program around getCounter().
Asleep(t) == currSleepCount[t] >= 1
InProgram == ~Asleep(runningThread)

\* Mutant: the first second is counted at the call.
setSleepAhead(s) ==
    /\ InProgram
    /\ currSleepCount' = [currSleepCount EXCEPT ![runningThread] = 2]
    /\ expectedSleepCount' = [expectedSleepCount EXCEPT ![runningThread] = s]
    /\ sleptFor' = [sleptFor EXCEPT ![runningThread] = 0]
    /\ UNCHANGED <<i, j, runningThread, alarms, ranFor>>

setSleep(s) ==
    /\ InProgram
    /\ currSleepCount' = [currSleepCount EXCEPT ![runningThread] = 1]
    /\ expectedSleepCount' = [expectedSleepCount EXCEPT ![runningThread] = s]
    /\ sleptFor' = [sleptFor EXCEPT ![runningThread] = 0]
    /\ UNCHANGED <<i, j, runningThread, alarms, ranFor>>

\* Mutant: the program sees the end of its sleep only at the exact second.
getCounterExact ==
    /\ ~InProgram
    /\ IF currSleepCount[runningThread] = expectedSleepCount[runningThread]
         THEN /\ currSleepCount' = [currSleepCount EXCEPT ![runningThread] = 0]
              /\ expectedSleepCount' = [expectedSleepCount EXCEPT ![runningThread] = 0]
         ELSE UNCHANGED <<currSleepCount, expectedSleepCount>>
    /\ UNCHANGED <<i, j, runningThread, alarms, sleptFor, ranFor>>

getCounter ==
    /\ ~InProgram
    /\ IF currSleepCount[runningThread] > expectedSleepCount[runningThread]
         THEN /\ currSleepCount' = [currSleepCount EXCEPT ![runningThread] = 0]
              /\ expectedSleepCount' = [expectedSleepCount EXCEPT ![runningThread] = 0]
         ELSE UNCHANGED <<currSleepCount, expectedSleepCount>>
    /\ UNCHANGED <<i, j, runningThread, alarms, sleptFor, ranFor>>

\* signal(SIGALRM, handler).
setAlarmFP ==
    /\ InProgram
    /\ functionPointer' = [functionPointer EXCEPT ![runningThread] = TRUE]
    /\ UNCHANGED <<i, j, runningThread, currAlarmCount, expectedAlarmCount,
                   armedFor, sleeps, ranFor>>

\* Mutant: an alarm can be set without a handler.
setAlarmUnchecked(s) ==
    /\ InProgram
    /\ currAlarmCount' = [currAlarmCount EXCEPT ![runningThread] = 1]
    /\ expectedAlarmCount' = [expectedAlarmCount EXCEPT ![runningThread] = s]
    /\ armedFor' = [armedFor EXCEPT ![runningThread] = 0]
    /\ UNCHANGED <<i, j, runningThread, functionPointer, sleeps, ranFor>>

\* Mutant: a count that is already running is not started again.
setAlarmKeepsCount(s) ==
    /\ InProgram
    /\ functionPointer[runningThread]
    /\ currAlarmCount' = [currAlarmCount EXCEPT ![runningThread] = IF @ = 0 THEN 1 ELSE @]
    /\ expectedAlarmCount' = [expectedAlarmCount EXCEPT ![runningThread] = s]
    /\ armedFor' = [armedFor EXCEPT ![runningThread] = 0]
    /\ UNCHANGED <<i, j, runningThread, functionPointer, sleeps, ranFor>>

setAlarm(s) ==
    /\ InProgram
    /\ functionPointer[runningThread]
    /\ currAlarmCount' = [currAlarmCount EXCEPT ![runningThread] = 1]
    /\ expectedAlarmCount' = [expectedAlarmCount EXCEPT ![runningThread] = s]
    /\ armedFor' = [armedFor EXCEPT ![runningThread] = 0]
    /\ UNCHANGED <<i, j, runningThread, functionPointer, sleeps, ranFor>>

TimerNext ==
    \/ Tick
    \/ getCounter
    \/ setAlarmFP
    \/ \E s \in Seconds : setSleep(s) \/ setAlarm(s)

TimerSpec == TimerInit /\ [][TimerNext]_timerVars

\* The clock ticks, and a slice is long enough for a sleeper's loop to call
\* getCounter() once.
Fairness ==
    /\ WF_timerVars(Tick)
    /\ \A t \in Task : SF_timerVars(runningThread = t /\ getCounter)

FairSpec == TimerSpec /\ Fairness

-------------------------------------------------------------------------------
TimerTypeOK ==
    /\ i \in 0 .. (TicksPerSecond - 1)
    /\ j \in 0 .. (2 * TicksPerSlice - 1)
    /\ runningThread \in Task
    /\ functionPointer \in [Task -> BOOLEAN]
    /\ currAlarmCount \in [Task -> 0 .. MaxCount]
    /\ expectedAlarmCount \in [Task -> Seconds \cup {0}]
    /\ currSleepCount \in [Task -> 0 .. MaxCount]
    /\ expectedSleepCount \in [Task -> Seconds \cup {0}]
    /\ ranFor \in Nat
    /\ sleptFor \in [Task -> 0 .. MaxTicks]
    /\ armedFor \in [Task -> 0 .. MaxTicks]

\* The second's tick swallows the end of a slice, but never two in a row:
\* no process runs for two full slices.
SliceIsBounded == ranFor < 2 * TicksPerSlice

\* An alarm that counts has a handler to jump to, whatever order signal(),
\* alarm() and the switches come in.
AlarmHasHandler == \A t \in Task : currAlarmCount[t] >= 1 => functionPointer[t]

\* sleep(s) lasts for more than s - 1 full seconds: the call is made at any
\* tick of the first one.  The same holds for the handler of alarm(s), across
\* the alarms it replaces.
NoneWakesEarly ==
    [][\A t \in Task :
        /\ Asleep(t) /\ currSleepCount'[t] = 0
               => sleptFor[t] > (expectedSleepCount[t] - 1) * TicksPerSecond
        /\ currAlarmCount[t] >= 1 /\ currAlarmCount'[t] = 0
               => armedFor[t] > (expectedAlarmCount[t] - 1) * TicksPerSecond]_timerVars

\* Every sleep ends, and every alarm that is due goes off, unless the program
\* sets a new one first.
WakeUpsCome ==
    /\ \A t \in Task : Asleep(t) ~> ~Asleep(t)
    /\ \A t \in Task : Due(t) ~> ~Due(t)
===============================================================================
