------------------------- MODULE FlushManagerProofs -------------------------
(***************************************************************************)
(* The flush manager handles every job once, and WaitForFlushes misses at  *)
(* most the jobs in hands that have not counted them, for any number of    *)
(* workers, callers and jobs.                                              *)
(***************************************************************************)
EXTENDS FlushManager, FiniteSetTheorems, TLAPS

Counted == {w \in Worker : workerPc[w] \in {"flushing", "flushed"}}

\* Who holds a job, and that nobody else does.
JobsHeld ==
  /\ \A w \in Worker :
       /\ workerPc[w] \in Holding => job[w] \in 1..popped
       /\ workerPc[w] \notin Holding => job[w] = 0
       /\ workerPc[w] \in {"taken", "flushing"} => job[w] \notin calledBack
       /\ workerPc[w] = "flushed" => job[w] \in calledBack
  /\ \A v, w \in Worker : job[v] = job[w] /\ job[v] # 0 => v = w
  /\ \A j \in 1..popped : j \in calledBack \/ \E w \in Worker : job[w] = j

\* active_flushes counts the workers past its increment (flush.cpp 46, 57).
ActiveExact == active = Cardinality(Counted)

\* The threads exist between Start and the end of Stop only.
ThreadsRun == ~running => \A w \in Worker : workerPc[w] = "off"

\* What a waiter knows of the queue: whichever end it read first, the jobs
\* that were there when it came are popped once the two ends agree.
WaitersKnow ==
  \A c \in Waiter :
    /\ before[c] <= pushed
    /\ clientPc[c] = "compareTail" => end[c] <= popped
    /\ clientPc[c] = "compareHead" => before[c] <= end[c]
    /\ clientPc[c] = "readActive" => before[c] <= popped

\* The inductive invariant.
FlushInv == FlushTypeOK /\ JobsHeld /\ ActiveExact /\ ThreadsRun /\ WaitersKnow

-----------------------------------------------------------------------------
(* Counting.                                                               *)

\* The workers that active_flushes counts can be counted.
LEMMA CountedFinite ==
  ASSUME FlushAssumption
  PROVE  IsFiniteSet(Counted) /\ Cardinality(Counted) \in Nat
<1>1. IsFiniteSet(Counted)
  BY FS_Subset, FlushAssumption DEF Counted, FlushAssumption
<1> QED
  BY <1>1, FS_CardinalityType

-----------------------------------------------------------------------------
(* The initial states.                                                     *)

\* A new manager (flush.cpp 124-125) satisfies the invariant.
LEMMA InitFlushInv == Init => FlushInv
<1> SUFFICES ASSUME Init PROVE FlushInv
  OBVIOUS
<1> USE DEF Init
<1>0. FlushTypeOK
  <2>1. workerPc \in [Worker -> Holding \cup {"off", "awake", "asleep", "notify", "exited"}]
    OBVIOUS
  <2>2. clientPc \in [Client -> Testing \cup {"idle", "push", "notify", "asleep", "awake"}]
    OBVIOUS
  <2>3. /\ job \in [Worker -> Nat]
        /\ end \in [Waiter -> Nat] /\ before \in [Waiter -> Nat]
    OBVIOUS
  <2>4. pushed \in Nat /\ popped \in 0..pushed /\ calledBack \subseteq 1..popped
    OBVIOUS
  <2> QED
    BY <2>1, <2>2, <2>3, <2>4 DEF FlushTypeOK
<1>1. JobsHeld /\ ThreadsRun /\ WaitersKnow
  BY DEF JobsHeld, ThreadsRun, WaitersKnow, Holding
<1>2. Counted = {}
  BY DEF Init, Counted
<1>3. ActiveExact
  BY <1>2, FS_EmptySet DEF Init, ActiveExact
<1> QED
  BY <1>0, <1>1, <1>3 DEF FlushInv

-----------------------------------------------------------------------------
(* Every step keeps each part of the invariant.                            *)

\* Types; a worker that uncounts was counted.
LEMMA TypesStep ==
  ASSUME FlushInv, Next
  PROVE  FlushTypeOK'
<1> USE FlushAssumption
    DEF FlushInv, FlushTypeOK, Holding, Testing, Client, queueVars, workerVars, clientVars, ownerVars
<1>1. ASSUME NEW w \in Worker, Pop(w) PROVE FlushTypeOK'
  BY <1>1 DEF Pop, WorkerAt, QueueEmpty
<1>2. ASSUME NEW w \in Worker, Exit(w) PROVE FlushTypeOK'
  BY <1>2 DEF Exit, WorkerAt, QueueEmpty
<1>3. ASSUME NEW w \in Worker, Sleep(w) PROVE FlushTypeOK'
  BY <1>3 DEF Sleep, WorkerAt, QueueEmpty
<1>4. ASSUME NEW w \in Worker, CountActive(w) PROVE FlushTypeOK'
  BY <1>4 DEF CountActive, WorkerAt
<1>5. ASSUME NEW w \in Worker, FlushAndCall(w) PROVE FlushTypeOK'
  <2>1. job[w] \in 1..popped
    BY <1>5 DEF FlushAndCall, WorkerAt, JobsHeld
  <2> QED
    BY <1>5, <2>1 DEF FlushAndCall, WorkerAt
<1>6. ASSUME NEW w \in Worker, FlushKills(w) PROVE FlushTypeOK'
  BY <1>6 DEF FlushKills
<1>7. ASSUME NEW w \in Worker, Uncount(w) PROVE FlushTypeOK'
  <2>1. w \in Counted
    BY <1>7 DEF Uncount, WorkerAt, Counted
  <2>2. Cardinality(Counted) # 0
    BY <2>1, CountedFinite, FS_EmptySet
  <2>3. active - 1 \in Nat
    BY <2>2, CountedFinite DEF ActiveExact
  <2> QED
    BY <1>7, <2>3 DEF Uncount, WorkerAt
<1>8. ASSUME NEW w \in Worker, NotifyWaiters(w) PROVE FlushTypeOK'
  BY <1>8 DEF NotifyWaiters, WorkerAt, Woken
<1>9. ASSUME NEW w \in Worker, WakeSpuriously(w) PROVE FlushTypeOK'
  BY <1>9 DEF WakeSpuriously, WorkerAt
<1>10. ASSUME NEW c \in Scheduler, Schedule(c) PROVE FlushTypeOK'
  BY <1>10 DEF Schedule, ClientAt
<1>11. ASSUME NEW c \in Scheduler, Push(c) PROVE FlushTypeOK'
  BY <1>11 DEF Push, ClientAt
<1>12. ASSUME NEW c \in Scheduler, NotifyOne(c) PROVE FlushTypeOK'
  BY <1>12 DEF NotifyOne, ClientAt
<1>13. ASSUME NEW c \in Waiter, WaitForFlushes(c) PROVE FlushTypeOK'
  BY <1>13 DEF WaitForFlushes, ClientAt
<1>14. ASSUME NEW c \in Waiter, ReadEnd(c) PROVE FlushTypeOK'
  BY <1>14 DEF ReadEnd, ClientAt
<1>15. ASSUME NEW c \in Waiter, FoundEmpty(c) PROVE FlushTypeOK'
  BY <1>15 DEF FoundEmpty, ClientAt
<1>16. ASSUME NEW c \in Waiter, FoundMore(c) PROVE FlushTypeOK'
  BY <1>16 DEF FoundMore, ClientAt
<1>17. ASSUME NEW c \in Waiter, ReadActive(c) PROVE FlushTypeOK'
  BY <1>17 DEF ReadActive, ClientAt
<1>18. ASSUME NEW c \in Waiter, WaitResumes(c) PROVE FlushTypeOK'
  BY <1>18 DEF WaitResumes, ClientAt
<1>19. ASSUME NEW c \in Waiter, WaitWakesSpuriously(c) PROVE FlushTypeOK'
  BY <1>19 DEF WaitWakesSpuriously, ClientAt
<1>20. CASE Start
  <2>1. workerPc' \in [Worker -> {"awake"}] /\ starts' \in Nat
    BY <1>20 DEF Start
  <2> QED
    BY <1>20, <2>1 DEF Start
<1>21. CASE StopBegins
  BY <1>21 DEF StopBegins
<1>22. CASE StopNotifies
  BY <1>22 DEF StopNotifies
<1>23. CASE StopJoins
  BY <1>23 DEF StopJoins
<1>24. CASE UNCHANGED vars
  BY <1>24 DEF vars, ownerVars
<1> QED
  BY <1>1, <1>2, <1>3, <1>4, <1>5, <1>6, <1>7, <1>8, <1>9, <1>10, <1>11, <1>12,
     <1>13, <1>14, <1>15, <1>16, <1>17, <1>18, <1>19, <1>20, <1>21, <1>22, <1>23, <1>24
  DEF Next, WorkerStep, SchedulerStep, WaiterStep, Stop

\* Jobs stay in one pair of hands.
LEMMA JobsStep ==
  ASSUME FlushInv, Next
  PROVE  JobsHeld'
<1> USE DEF FlushInv, FlushTypeOK, JobsHeld, Holding, queueVars, workerVars, clientVars, ownerVars
<1>1. ASSUME NEW w \in Worker, Pop(w) PROVE JobsHeld'
  <2>1. /\ popped \in Nat /\ popped' = popped + 1
        /\ \A v \in Worker : job[v] \in 0..popped
    BY <1>1 DEF Pop
  <2>2. /\ job'[w] = popped + 1 /\ workerPc'[w] = "taken"
        /\ \A v \in Worker : v # w => job'[v] = job[v] /\ workerPc'[v] = workerPc[v]
        /\ calledBack' = calledBack /\ popped + 1 \notin calledBack /\ job[w] = 0
    BY <1>1 DEF Pop, WorkerAt
  <2>3. ASSUME NEW u \in Worker, NEW v \in Worker, job'[u] = job'[v], job'[u] # 0
        PROVE  u = v
    BY <2>1, <2>2, <2>3
  <2>4. ASSUME NEW j \in 1..popped'
        PROVE  j \in calledBack' \/ \E v \in Worker : job'[v] = j
    <3>1. CASE j = popped + 1
      BY <3>1, <2>2
    <3>2. CASE j \in 1..popped
      BY <3>2, <2>2
    <3> QED
      BY <2>1, <3>1, <3>2
  <2>5. ASSUME NEW v \in Worker
        PROVE  /\ workerPc'[v] \in Holding => job'[v] \in 1..popped'
               /\ workerPc'[v] \notin Holding => job'[v] = 0
               /\ workerPc'[v] \in {"taken", "flushing"} => job'[v] \notin calledBack'
               /\ workerPc'[v] = "flushed" => job'[v] \in calledBack'
    BY <2>1, <2>2
  <2> QED
    BY <2>3, <2>4, <2>5
<1>2. ASSUME NEW w \in Worker, Exit(w) PROVE JobsHeld'
  BY <1>2 DEF Exit, WorkerAt, QueueEmpty
<1>3. ASSUME NEW w \in Worker, Sleep(w) PROVE JobsHeld'
  BY <1>3 DEF Sleep, WorkerAt, QueueEmpty
<1>4. ASSUME NEW w \in Worker, CountActive(w) PROVE JobsHeld'
  BY <1>4 DEF CountActive, WorkerAt
<1>5. ASSUME NEW w \in Worker, FlushAndCall(w) PROVE JobsHeld'
  BY <1>5 DEF FlushAndCall, WorkerAt
<1>6. ASSUME NEW w \in Worker, FlushKills(w) PROVE JobsHeld'
  BY <1>6 DEF FlushKills
<1>7. ASSUME NEW w \in Worker, Uncount(w) PROVE JobsHeld'
  <2>1. /\ job' = [job EXCEPT ![w] = 0] /\ job[w] \in calledBack
        /\ calledBack' = calledBack /\ popped' = popped
        /\ workerPc' = [workerPc EXCEPT ![w] = "notify"]
    BY <1>7 DEF Uncount, WorkerAt
  <2>2. \A j \in 1..popped : j \in calledBack \/ \E v \in Worker : job'[v] = j
    BY <2>1
  <2> QED
    BY <2>1, <2>2
<1>8. ASSUME NEW w \in Worker, NotifyWaiters(w) PROVE JobsHeld'
  BY <1>8 DEF NotifyWaiters, WorkerAt, Woken
<1>9. ASSUME NEW w \in Worker, WakeSpuriously(w) PROVE JobsHeld'
  BY <1>9 DEF WakeSpuriously, WorkerAt
<1>10. ASSUME NEW c \in Scheduler, Schedule(c) PROVE JobsHeld'
  BY <1>10 DEF Schedule, ClientAt
<1>11. ASSUME NEW c \in Scheduler, Push(c) PROVE JobsHeld'
  BY <1>11 DEF Push, ClientAt
<1>12. ASSUME NEW c \in Scheduler, NotifyOne(c) PROVE JobsHeld'
  BY <1>12 DEF NotifyOne, ClientAt
<1>13. ASSUME NEW c \in Waiter, WaitForFlushes(c) PROVE JobsHeld'
  BY <1>13 DEF WaitForFlushes, ClientAt
<1>14. ASSUME NEW c \in Waiter, ReadEnd(c) PROVE JobsHeld'
  BY <1>14 DEF ReadEnd, ClientAt
<1>15. ASSUME NEW c \in Waiter, FoundEmpty(c) PROVE JobsHeld'
  BY <1>15 DEF FoundEmpty, ClientAt
<1>16. ASSUME NEW c \in Waiter, FoundMore(c) PROVE JobsHeld'
  BY <1>16 DEF FoundMore, ClientAt
<1>17. ASSUME NEW c \in Waiter, ReadActive(c) PROVE JobsHeld'
  BY <1>17 DEF ReadActive, ClientAt
<1>18. ASSUME NEW c \in Waiter, WaitResumes(c) PROVE JobsHeld'
  BY <1>18 DEF WaitResumes, ClientAt
<1>19. ASSUME NEW c \in Waiter, WaitWakesSpuriously(c) PROVE JobsHeld'
  BY <1>19 DEF WaitWakesSpuriously, ClientAt
<1>20. CASE Start
  <2>1. /\ job' = job /\ calledBack' = calledBack /\ popped' = popped
        /\ \A w \in Worker : workerPc'[w] = "awake" /\ workerPc[w] = "off"
    BY <1>20 DEF Start, ThreadsRun
  <2> QED
    BY <2>1
<1>21. CASE StopBegins
  BY <1>21 DEF StopBegins
<1>22. CASE StopNotifies
  BY <1>22 DEF StopNotifies
<1>23. CASE StopJoins
  BY <1>23 DEF StopJoins
<1>24. CASE UNCHANGED vars
  BY <1>24 DEF vars, ownerVars
<1> QED
  BY <1>1, <1>2, <1>3, <1>4, <1>5, <1>6, <1>7, <1>8, <1>9, <1>10, <1>11, <1>12,
     <1>13, <1>14, <1>15, <1>16, <1>17, <1>18, <1>19, <1>20, <1>21, <1>22, <1>23, <1>24
  DEF Next, WorkerStep, SchedulerStep, WaiterStep, Stop

\* The threads end before Stop does.
LEMMA ThreadsStep ==
  ASSUME FlushInv, Next
  PROVE  ThreadsRun'
<1> USE DEF FlushInv, FlushTypeOK, ThreadsRun, queueVars, workerVars, clientVars, ownerVars
<1>1. ASSUME NEW w \in Worker, Pop(w) PROVE ThreadsRun'
  BY <1>1 DEF Pop, WorkerAt, QueueEmpty
<1>2. ASSUME NEW w \in Worker, Exit(w) PROVE ThreadsRun'
  BY <1>2 DEF Exit, WorkerAt, QueueEmpty
<1>3. ASSUME NEW w \in Worker, Sleep(w) PROVE ThreadsRun'
  BY <1>3 DEF Sleep, WorkerAt, QueueEmpty
<1>4. ASSUME NEW w \in Worker, CountActive(w) PROVE ThreadsRun'
  BY <1>4 DEF CountActive, WorkerAt
<1>5. ASSUME NEW w \in Worker, FlushAndCall(w) PROVE ThreadsRun'
  BY <1>5 DEF FlushAndCall, WorkerAt
<1>6. ASSUME NEW w \in Worker, FlushKills(w) PROVE ThreadsRun'
  BY <1>6 DEF FlushKills
<1>7. ASSUME NEW w \in Worker, Uncount(w) PROVE ThreadsRun'
  BY <1>7 DEF Uncount, WorkerAt
<1>8. ASSUME NEW w \in Worker, NotifyWaiters(w) PROVE ThreadsRun'
  BY <1>8 DEF NotifyWaiters, WorkerAt, Woken
<1>9. ASSUME NEW w \in Worker, WakeSpuriously(w) PROVE ThreadsRun'
  BY <1>9 DEF WakeSpuriously, WorkerAt
<1>10. ASSUME NEW c \in Scheduler, Schedule(c) PROVE ThreadsRun'
  BY <1>10 DEF Schedule, ClientAt
<1>11. ASSUME NEW c \in Scheduler, Push(c) PROVE ThreadsRun'
  BY <1>11 DEF Push, ClientAt
<1>12. ASSUME NEW c \in Scheduler, NotifyOne(c) PROVE ThreadsRun'
  BY <1>12 DEF NotifyOne, ClientAt
<1>13. ASSUME NEW c \in Waiter, WaitForFlushes(c) PROVE ThreadsRun'
  BY <1>13 DEF WaitForFlushes, ClientAt
<1>14. ASSUME NEW c \in Waiter, ReadEnd(c) PROVE ThreadsRun'
  BY <1>14 DEF ReadEnd, ClientAt
<1>15. ASSUME NEW c \in Waiter, FoundEmpty(c) PROVE ThreadsRun'
  BY <1>15 DEF FoundEmpty, ClientAt
<1>16. ASSUME NEW c \in Waiter, FoundMore(c) PROVE ThreadsRun'
  BY <1>16 DEF FoundMore, ClientAt
<1>17. ASSUME NEW c \in Waiter, ReadActive(c) PROVE ThreadsRun'
  BY <1>17 DEF ReadActive, ClientAt
<1>18. ASSUME NEW c \in Waiter, WaitResumes(c) PROVE ThreadsRun'
  BY <1>18 DEF WaitResumes, ClientAt
<1>19. ASSUME NEW c \in Waiter, WaitWakesSpuriously(c) PROVE ThreadsRun'
  BY <1>19 DEF WaitWakesSpuriously, ClientAt
<1>20. CASE Start
  BY <1>20 DEF Start
<1>21. CASE StopBegins
  BY <1>21 DEF StopBegins
<1>22. CASE StopNotifies
  BY <1>22 DEF StopNotifies
<1>23. CASE StopJoins
  BY <1>23 DEF StopJoins
<1>24. CASE UNCHANGED vars
  BY <1>24 DEF vars, ownerVars
<1> QED
  BY <1>1, <1>2, <1>3, <1>4, <1>5, <1>6, <1>7, <1>8, <1>9, <1>10, <1>11, <1>12,
     <1>13, <1>14, <1>15, <1>16, <1>17, <1>18, <1>19, <1>20, <1>21, <1>22, <1>23, <1>24
  DEF Next, WorkerStep, SchedulerStep, WaiterStep, Stop

\* active_flushes follows its workers.
LEMMA ActiveStep ==
  ASSUME FlushInv, Next
  PROVE  ActiveExact'
<1> USE FlushAssumption
    DEF FlushInv, FlushTypeOK, queueVars, workerVars, clientVars, ownerVars
<1>1. ASSUME NEW w \in Worker, Pop(w) PROVE ActiveExact'
  <2>1. Counted' = Counted /\ active' = active
    BY <1>1 DEF Pop, WorkerAt, QueueEmpty, Counted
  <2> QED
    BY <2>1 DEF ActiveExact
<1>2. ASSUME NEW w \in Worker, Exit(w) PROVE ActiveExact'
  <2>1. Counted' = Counted /\ active' = active
    BY <1>2 DEF Exit, WorkerAt, QueueEmpty, Counted
  <2> QED
    BY <2>1 DEF ActiveExact
<1>3. ASSUME NEW w \in Worker, Sleep(w) PROVE ActiveExact'
  <2>1. Counted' = Counted /\ active' = active
    BY <1>3 DEF Sleep, WorkerAt, QueueEmpty, Counted
  <2> QED
    BY <2>1 DEF ActiveExact
<1>4. ASSUME NEW w \in Worker, CountActive(w) PROVE ActiveExact'
  <2>1. Counted' = Counted \cup {w} /\ w \notin Counted /\ active' = active + 1
    BY <1>4 DEF CountActive, WorkerAt, Counted
  <2> QED
    BY <2>1, CountedFinite, FS_AddElement DEF ActiveExact
<1>5. ASSUME NEW w \in Worker, FlushAndCall(w) PROVE ActiveExact'
  <2>1. Counted' = Counted /\ active' = active
    BY <1>5 DEF FlushAndCall, WorkerAt, Counted
  <2> QED
    BY <2>1 DEF ActiveExact
<1>6. ASSUME NEW w \in Worker, FlushKills(w) PROVE ActiveExact'
  <2>1. Counted' = Counted /\ active' = active
    BY <1>6 DEF FlushKills, Counted
  <2> QED
    BY <2>1 DEF ActiveExact
<1>7. ASSUME NEW w \in Worker, Uncount(w) PROVE ActiveExact'
  <2>1. Counted' = Counted \ {w} /\ w \in Counted /\ active' = active - 1
    BY <1>7 DEF Uncount, WorkerAt, Counted
  <2> QED
    BY <2>1, CountedFinite, FS_RemoveElement DEF ActiveExact
<1>8. ASSUME NEW w \in Worker, NotifyWaiters(w) PROVE ActiveExact'
  <2>1. Counted' = Counted /\ active' = active
    BY <1>8 DEF NotifyWaiters, WorkerAt, Woken, Counted
  <2> QED
    BY <2>1 DEF ActiveExact
<1>9. ASSUME NEW w \in Worker, WakeSpuriously(w) PROVE ActiveExact'
  <2>1. Counted' = Counted /\ active' = active
    BY <1>9 DEF WakeSpuriously, WorkerAt, Counted
  <2> QED
    BY <2>1 DEF ActiveExact
<1>10. ASSUME NEW c \in Scheduler, Schedule(c) PROVE ActiveExact'
  <2>1. Counted' = Counted /\ active' = active
    BY <1>10 DEF Schedule, ClientAt, Counted
  <2> QED
    BY <2>1 DEF ActiveExact
<1>11. ASSUME NEW c \in Scheduler, Push(c) PROVE ActiveExact'
  <2>1. Counted' = Counted /\ active' = active
    BY <1>11 DEF Push, ClientAt, Counted
  <2> QED
    BY <2>1 DEF ActiveExact
<1>12. ASSUME NEW c \in Scheduler, NotifyOne(c) PROVE ActiveExact'
  <2>1. Counted' = Counted /\ active' = active
    BY <1>12 DEF NotifyOne, ClientAt, Counted
  <2> QED
    BY <2>1 DEF ActiveExact
<1>13. ASSUME NEW c \in Waiter, WaitForFlushes(c) PROVE ActiveExact'
  <2>1. Counted' = Counted /\ active' = active
    BY <1>13 DEF WaitForFlushes, ClientAt, Counted
  <2> QED
    BY <2>1 DEF ActiveExact
<1>14. ASSUME NEW c \in Waiter, ReadEnd(c) PROVE ActiveExact'
  <2>1. Counted' = Counted /\ active' = active
    BY <1>14 DEF ReadEnd, ClientAt, Counted
  <2> QED
    BY <2>1 DEF ActiveExact
<1>15. ASSUME NEW c \in Waiter, FoundEmpty(c) PROVE ActiveExact'
  <2>1. Counted' = Counted /\ active' = active
    BY <1>15 DEF FoundEmpty, ClientAt, Counted
  <2> QED
    BY <2>1 DEF ActiveExact
<1>16. ASSUME NEW c \in Waiter, FoundMore(c) PROVE ActiveExact'
  <2>1. Counted' = Counted /\ active' = active
    BY <1>16 DEF FoundMore, ClientAt, Counted
  <2> QED
    BY <2>1 DEF ActiveExact
<1>17. ASSUME NEW c \in Waiter, ReadActive(c) PROVE ActiveExact'
  <2>1. Counted' = Counted /\ active' = active
    BY <1>17 DEF ReadActive, ClientAt, Counted
  <2> QED
    BY <2>1 DEF ActiveExact
<1>18. ASSUME NEW c \in Waiter, WaitResumes(c) PROVE ActiveExact'
  <2>1. Counted' = Counted /\ active' = active
    BY <1>18 DEF WaitResumes, ClientAt, Counted
  <2> QED
    BY <2>1 DEF ActiveExact
<1>19. ASSUME NEW c \in Waiter, WaitWakesSpuriously(c) PROVE ActiveExact'
  <2>1. Counted' = Counted /\ active' = active
    BY <1>19 DEF WaitWakesSpuriously, ClientAt, Counted
  <2> QED
    BY <2>1 DEF ActiveExact
<1>20. CASE Start
  <2>1. Counted' = Counted /\ active' = active
    BY <1>20 DEF Start, Counted, ThreadsRun
  <2> QED
    BY <2>1 DEF ActiveExact
<1>21. CASE StopBegins
  <2>1. Counted' = Counted /\ active' = active
    BY <1>21 DEF StopBegins, Counted
  <2> QED
    BY <2>1 DEF ActiveExact
<1>22. CASE StopNotifies
  <2>1. Counted' = Counted /\ active' = active
    BY <1>22 DEF StopNotifies, Counted
  <2> QED
    BY <2>1 DEF ActiveExact
<1>23. CASE StopJoins
  <2>1. Counted' = Counted /\ active' = active
    BY <1>23 DEF StopJoins, Counted
  <2> QED
    BY <2>1 DEF ActiveExact
<1>24. CASE UNCHANGED vars
  BY <1>24 DEF vars, ActiveExact, Counted
<1> QED
  BY <1>1, <1>2, <1>3, <1>4, <1>5, <1>6, <1>7, <1>8, <1>9, <1>10, <1>11, <1>12,
     <1>13, <1>14, <1>15, <1>16, <1>17, <1>18, <1>19, <1>20, <1>21, <1>22, <1>23, <1>24
  DEF Next, WorkerStep, SchedulerStep, WaiterStep, Stop

\* What waiters know stays true while others push and pop.
LEMMA WaitersStep ==
  ASSUME FlushInv, Next
  PROVE  WaitersKnow'
<1> USE DEF FlushInv, FlushTypeOK, WaitersKnow, Testing, Client, queueVars, workerVars, clientVars, ownerVars
<1>1. ASSUME NEW w \in Worker, Pop(w) PROVE WaitersKnow'
  BY <1>1 DEF Pop, WorkerAt, QueueEmpty
<1>2. ASSUME NEW w \in Worker, Exit(w) PROVE WaitersKnow'
  BY <1>2 DEF Exit, WorkerAt, QueueEmpty
<1>3. ASSUME NEW w \in Worker, Sleep(w) PROVE WaitersKnow'
  BY <1>3 DEF Sleep, WorkerAt, QueueEmpty
<1>4. ASSUME NEW w \in Worker, CountActive(w) PROVE WaitersKnow'
  BY <1>4 DEF CountActive, WorkerAt
<1>5. ASSUME NEW w \in Worker, FlushAndCall(w) PROVE WaitersKnow'
  BY <1>5 DEF FlushAndCall, WorkerAt
<1>6. ASSUME NEW w \in Worker, FlushKills(w) PROVE WaitersKnow'
  BY <1>6 DEF FlushKills
<1>7. ASSUME NEW w \in Worker, Uncount(w) PROVE WaitersKnow'
  BY <1>7 DEF Uncount, WorkerAt
<1>8. ASSUME NEW w \in Worker, NotifyWaiters(w) PROVE WaitersKnow'
  BY <1>8 DEF NotifyWaiters, WorkerAt, Woken
<1>9. ASSUME NEW w \in Worker, WakeSpuriously(w) PROVE WaitersKnow'
  BY <1>9 DEF WakeSpuriously, WorkerAt
<1>10. ASSUME NEW c \in Scheduler, Schedule(c) PROVE WaitersKnow'
  BY <1>10 DEF Schedule, ClientAt
<1>11. ASSUME NEW c \in Scheduler, Push(c) PROVE WaitersKnow'
  BY <1>11 DEF Push, ClientAt
<1>12. ASSUME NEW c \in Scheduler, NotifyOne(c) PROVE WaitersKnow'
  BY <1>12 DEF NotifyOne, ClientAt
<1>13. ASSUME NEW c \in Waiter, WaitForFlushes(c) PROVE WaitersKnow'
  BY <1>13 DEF WaitForFlushes, ClientAt
<1>14. ASSUME NEW c \in Waiter, ReadEnd(c) PROVE WaitersKnow'
  BY <1>14 DEF ReadEnd, ClientAt
<1>15. ASSUME NEW c \in Waiter, FoundEmpty(c) PROVE WaitersKnow'
  BY <1>15 DEF FoundEmpty, ClientAt
<1>16. ASSUME NEW c \in Waiter, FoundMore(c) PROVE WaitersKnow'
  BY <1>16 DEF FoundMore, ClientAt
<1>17. ASSUME NEW c \in Waiter, ReadActive(c) PROVE WaitersKnow'
  BY <1>17 DEF ReadActive, ClientAt
<1>18. ASSUME NEW c \in Waiter, WaitResumes(c) PROVE WaitersKnow'
  BY <1>18 DEF WaitResumes, ClientAt
<1>19. ASSUME NEW c \in Waiter, WaitWakesSpuriously(c) PROVE WaitersKnow'
  BY <1>19 DEF WaitWakesSpuriously, ClientAt
<1>20. CASE Start
  BY <1>20 DEF Start
<1>21. CASE StopBegins
  BY <1>21 DEF StopBegins
<1>22. CASE StopNotifies
  BY <1>22 DEF StopNotifies
<1>23. CASE StopJoins
  BY <1>23 DEF StopJoins
<1>24. CASE UNCHANGED vars
  BY <1>24 DEF vars, ownerVars
<1> QED
  BY <1>1, <1>2, <1>3, <1>4, <1>5, <1>6, <1>7, <1>8, <1>9, <1>10, <1>11, <1>12,
     <1>13, <1>14, <1>15, <1>16, <1>17, <1>18, <1>19, <1>20, <1>21, <1>22, <1>23, <1>24
  DEF Next, WorkerStep, SchedulerStep, WaiterStep, Stop

\* No step of a worker, a caller or the owner breaks the invariant.
LEMMA FlushInvStep == FlushInv /\ [Next]_vars => FlushInv'
<1> SUFFICES ASSUME FlushInv, [Next]_vars PROVE FlushInv'
  OBVIOUS
<1>1. CASE Next
  BY <1>1, TypesStep, JobsStep, ThreadsStep, ActiveStep, WaitersStep DEF FlushInv
<1>2. CASE UNCHANGED vars
  BY <1>2 DEF vars, queueVars, workerVars, clientVars, ownerVars, FlushInv, FlushTypeOK,
              JobsHeld, ThreadsRun, ActiveExact, Counted, WaitersKnow
<1> QED
  BY <1>1, <1>2

\* A wait ends in one place: active_flushes was read as zero there.
LEMMA OnlyReadActiveReturns ==
  ASSUME FlushInv, Next, NEW c \in Waiter,
         clientPc[c] \in Testing, clientPc'[c] = "idle"
  PROVE  clientPc[c] = "readActive" /\ active = 0
<1> USE FlushAssumption
    DEF FlushAssumption, FlushInv, FlushTypeOK, Testing, Client, queueVars, workerVars, clientVars, ownerVars
<1>1. ASSUME NEW w \in Worker, Pop(w) PROVE clientPc[c] = "readActive" /\ active = 0
  BY <1>1 DEF Pop, WorkerAt, QueueEmpty
<1>2. ASSUME NEW w \in Worker, Exit(w) PROVE clientPc[c] = "readActive" /\ active = 0
  BY <1>2 DEF Exit, WorkerAt, QueueEmpty
<1>3. ASSUME NEW w \in Worker, Sleep(w) PROVE clientPc[c] = "readActive" /\ active = 0
  BY <1>3 DEF Sleep, WorkerAt, QueueEmpty
<1>4. ASSUME NEW w \in Worker, CountActive(w) PROVE clientPc[c] = "readActive" /\ active = 0
  BY <1>4 DEF CountActive, WorkerAt
<1>5. ASSUME NEW w \in Worker, FlushAndCall(w) PROVE clientPc[c] = "readActive" /\ active = 0
  BY <1>5 DEF FlushAndCall, WorkerAt
<1>6. ASSUME NEW w \in Worker, FlushKills(w) PROVE clientPc[c] = "readActive" /\ active = 0
  BY <1>6 DEF FlushKills
<1>7. ASSUME NEW w \in Worker, Uncount(w) PROVE clientPc[c] = "readActive" /\ active = 0
  BY <1>7 DEF Uncount, WorkerAt
<1>8. ASSUME NEW w \in Worker, NotifyWaiters(w) PROVE clientPc[c] = "readActive" /\ active = 0
  BY <1>8 DEF NotifyWaiters, WorkerAt, Woken
<1>9. ASSUME NEW w \in Worker, WakeSpuriously(w) PROVE clientPc[c] = "readActive" /\ active = 0
  BY <1>9 DEF WakeSpuriously, WorkerAt
<1>10. ASSUME NEW d \in Scheduler, Schedule(d) PROVE clientPc[c] = "readActive" /\ active = 0
  BY <1>10 DEF Schedule, ClientAt
<1>11. ASSUME NEW d \in Scheduler, Push(d) PROVE clientPc[c] = "readActive" /\ active = 0
  BY <1>11 DEF Push, ClientAt
<1>12. ASSUME NEW d \in Scheduler, NotifyOne(d) PROVE clientPc[c] = "readActive" /\ active = 0
  BY <1>12 DEF NotifyOne, ClientAt
<1>13. ASSUME NEW d \in Waiter, WaitForFlushes(d) PROVE clientPc[c] = "readActive" /\ active = 0
  BY <1>13 DEF WaitForFlushes, ClientAt
<1>14. ASSUME NEW d \in Waiter, ReadEnd(d) PROVE clientPc[c] = "readActive" /\ active = 0
  BY <1>14 DEF ReadEnd, ClientAt
<1>15. ASSUME NEW d \in Waiter, FoundEmpty(d) PROVE clientPc[c] = "readActive" /\ active = 0
  BY <1>15 DEF FoundEmpty, ClientAt
<1>16. ASSUME NEW d \in Waiter, FoundMore(d) PROVE clientPc[c] = "readActive" /\ active = 0
  BY <1>16 DEF FoundMore, ClientAt
<1>17. ASSUME NEW d \in Waiter, ReadActive(d) PROVE clientPc[c] = "readActive" /\ active = 0
  BY <1>17 DEF ReadActive, ClientAt
<1>18. ASSUME NEW d \in Waiter, WaitResumes(d) PROVE clientPc[c] = "readActive" /\ active = 0
  BY <1>18 DEF WaitResumes, ClientAt
<1>19. ASSUME NEW d \in Waiter, WaitWakesSpuriously(d) PROVE clientPc[c] = "readActive" /\ active = 0
  BY <1>19 DEF WaitWakesSpuriously, ClientAt
<1>20. CASE Start
  BY <1>20 DEF Start
<1>21. CASE StopBegins
  BY <1>21 DEF StopBegins
<1>22. CASE StopNotifies
  BY <1>22 DEF StopNotifies
<1>23. CASE StopJoins
  BY <1>23 DEF StopJoins
<1>24. CASE UNCHANGED vars
  BY <1>24 DEF vars, ownerVars
<1> QED
  BY <1>1, <1>2, <1>3, <1>4, <1>5, <1>6, <1>7, <1>8, <1>9, <1>10, <1>11, <1>12,
     <1>13, <1>14, <1>15, <1>16, <1>17, <1>18, <1>19, <1>20, <1>21, <1>22, <1>23, <1>24
  DEF Next, WorkerStep, SchedulerStep, WaiterStep, Stop

-----------------------------------------------------------------------------
(* Theorems.                                                               *)

\* In every behaviour of the manager (flush.cpp 13-209) jobs are held once,
\* active_flushes is exact, and waiters know what they have read.
THEOREM FlushInvariant == Spec => []FlushInv
  BY InitFlushInv, FlushInvStep, PTL DEF Spec

\* The manager's state keeps its types; active_flushes never goes below zero.
THEOREM FlushTypes == Spec => []FlushTypeOK
<1>1. FlushInv => FlushTypeOK
  BY DEF FlushInv
<1> QED
  BY <1>1, FlushInvariant, PTL

\* Every job is queued, in one worker's hands, or called back (flush.cpp
\* 29-57).
THEOREM JobsAreHandledOnce == Spec => []JobsHandledOnce
<1>1. FlushInv => JobsHandledOnce
  <2> SUFFICES ASSUME FlushInv, NEW j \in 1..pushed
               PROVE  LET holders == {w \in Worker : job[w] = j} IN
                      /\ j > popped => holders = {} /\ j \notin calledBack
                      /\ j \in calledBack => \A w \in holders : workerPc[w] = "flushed"
                      /\ j <= popped /\ j \notin calledBack =>
                           \E w \in Worker :
                             holders = {w} /\ workerPc[w] \in {"taken", "flushing"}
    BY DEF JobsHandledOnce
  <2> DEFINE holders == {w \in Worker : job[w] = j}
  <2>1. \A w \in holders : workerPc[w] \in Holding /\ j \in 1..popped
    BY DEF FlushInv, JobsHeld
  <2>2. j > popped => holders = {} /\ j \notin calledBack
    BY <2>1 DEF FlushInv, FlushTypeOK
  <2>3. j \in calledBack => \A w \in holders : workerPc[w] = "flushed"
    BY <2>1 DEF FlushInv, JobsHeld, Holding
  <2>4. ASSUME j <= popped, j \notin calledBack
        PROVE  \E w \in Worker : holders = {w} /\ workerPc[w] \in {"taken", "flushing"}
    <3>1. j \in 1..popped
      BY <2>4 DEF FlushInv, FlushTypeOK
    <3>2. PICK w \in Worker : job[w] = j
      BY <2>4, <3>1 DEF FlushInv, JobsHeld
    <3>3. holders = {w}
      BY <3>1, <3>2 DEF FlushInv, JobsHeld
    <3>4. workerPc[w] \in {"taken", "flushing"}
      BY <2>1, <2>4, <3>2 DEF FlushInv, JobsHeld, Holding
    <3> QED
      BY <3>3, <3>4
  <2> QED
    BY <2>2, <2>3, <2>4
<1> QED
  BY <1>1, FlushInvariant, PTL

\* WaitForFlushes misses at most jobs taken and not yet counted (flush.cpp
\* 44-46, 204-209).
THEOREM WaitMissesOnlyTaken == Spec => WaitLeavesOnlyTaken
<1> DEFINE Missed ==
      \A c \in Waiter :
        (clientPc[c] \in Testing /\ clientPc'[c] = "idle") =>
          \A j \in 1..before[c] :
            j \in calledBack \/ \E w \in Worker : job[w] = j /\ workerPc[w] = "taken"
<1>1. FlushInv /\ [Next]_vars => [Missed]_vars
  <2> SUFFICES ASSUME FlushInv, Next, NEW c \in Waiter,
                      clientPc[c] \in Testing, clientPc'[c] = "idle",
                      NEW j \in 1..before[c], j \notin calledBack
               PROVE  \E w \in Worker : job[w] = j /\ workerPc[w] = "taken"
    OBVIOUS
  <2>1. clientPc[c] = "readActive" /\ active = 0
    BY OnlyReadActiveReturns
  <2>2. Counted = {}
    BY <2>1, CountedFinite, FS_EmptySet, FlushAssumption DEF FlushInv, ActiveExact
  <2>3. j \in 1..popped
    BY <2>1 DEF FlushInv, FlushTypeOK, WaitersKnow
  <2>4. PICK w \in Worker : job[w] = j
    BY <2>3 DEF FlushInv, JobsHeld
  <2>5. workerPc[w] \in Holding
    BY <2>3, <2>4 DEF FlushInv, JobsHeld
  <2> QED
    BY <2>2, <2>4, <2>5 DEF Counted, Holding
<1> QED
  BY <1>1, FlushInvariant, PTL DEF Spec, WaitLeavesOnlyTaken
=============================================================================
