---------------------------- MODULE FlushManager ----------------------------
(***************************************************************************)
(* FlushManager of src/flush/flush.cpp: a queue of memtables, background   *)
(* threads that flush them and call back, Start and Stop, and callers that *)
(* schedule flushes or wait for them.                                      *)
(*                                                                         *)
(* Jobs are numbered in the order they are pushed, so flush_queue is the   *)
(* interval popped+1 .. pushed.  What PerformFlush does with a memtable is *)
(* TableFlush: here it returns an error or takes the process down.         *)
(***************************************************************************)
EXTENDS Integers, FiniteSets

CONSTANTS
  Worker,           \* flush_threads: options_.max_background_flushes of them
  Scheduler,        \* threads that call ScheduleFlush
  Waiter,           \* threads that call WaitForFlushes or FlushAll
  MaxJobs,          \* bound: jobs pushed in a behaviour
  MaxStarts         \* bound: calls of Start that start the threads

ASSUME FlushAssumption ==
  /\ IsFiniteSet(Worker)
  /\ Scheduler \cap Waiter = {}
  /\ MaxJobs \in Nat
  /\ MaxStarts \in Nat

VARIABLES
  running,          \* running_
  stopping,         \* impl_->stopping
  pushed, popped,   \* flush_queue, see above
  active,           \* active_flushes
  workerPc, job,    \* per worker: where it is, and the job it holds (0: none)
  calledBack,       \* jobs whose callback has been called
  clientPc,         \* per caller: where its call is
  end,              \* per waiter: the end of flush_queue it has read
  ownerPc,          \* where Stop is
  starts,
  killed,           \* PerformFlush has taken the process down
  before            \* ghost, per waiter: pushed when its wait began

queueVars  == <<pushed, popped>>
workerVars == <<active, workerPc, job, calledBack>>
clientVars == <<clientPc, end, before>>
ownerVars  == <<running, stopping, ownerPc, starts>>
vars == <<queueVars, workerVars, clientVars, ownerVars, killed>>

Client == Scheduler \cup Waiter

QueueEmpty == popped = pushed

\* A waiter holds wait_mutex from the call, or from its wake-up, until it
\* sleeps on wait_cv or returns.
Testing == {"test", "compareTail", "compareHead", "readActive"}
WaitMutexFree == \A c \in Waiter : clientPc[c] \notin Testing

Init ==
  /\ running = FALSE /\ stopping = FALSE
  /\ pushed = 0 /\ popped = 0
  /\ active = 0
  /\ workerPc = [w \in Worker |-> "off"]
  /\ job = [w \in Worker |-> 0]
  /\ calledBack = {}
  /\ clientPc = [c \in Client |-> "idle"]
  /\ end = [c \in Waiter |-> 0]
  /\ before = [c \in Waiter |-> 0]
  /\ ownerPc = "idle"
  /\ starts = 0
  /\ killed = FALSE

-----------------------------------------------------------------------------
(* FlushThreadMain.                                                        *)

WorkerAt(w, from, to) ==
  /\ ~killed
  /\ workerPc[w] = from
  /\ workerPc' = [workerPc EXCEPT ![w] = to]

\* Mutant of Pop: the front is copied, not removed.
PopNothing(w) ==
  /\ WorkerAt(w, "awake", "taken")
  /\ ~QueueEmpty
  /\ job' = [job EXCEPT ![w] = popped + 1]
  /\ UNCHANGED <<queueVars, active, calledBack, clientVars, ownerVars, killed>>

Pop(w) ==
  /\ WorkerAt(w, "awake", "taken")
  /\ ~QueueEmpty
  /\ popped' = popped + 1
  /\ job' = [job EXCEPT ![w] = popped + 1]
  /\ UNCHANGED <<pushed, active, calledBack, clientVars, ownerVars, killed>>

\* Mutant of Exit: a worker leaves as soon as it is asked to.
ExitAtOnce(w) ==
  /\ WorkerAt(w, "awake", "exited")
  /\ stopping
  /\ UNCHANGED <<queueVars, active, job, calledBack, clientVars, ownerVars, killed>>

Exit(w) ==
  /\ WorkerAt(w, "awake", "exited")
  /\ QueueEmpty /\ stopping
  /\ UNCHANGED <<queueVars, active, job, calledBack, clientVars, ownerVars, killed>>

\* queue_cv.wait, with the queue's mutex held from the test to the sleep.
Sleep(w) ==
  /\ WorkerAt(w, "awake", "asleep")
  /\ QueueEmpty /\ ~stopping
  /\ UNCHANGED <<queueVars, active, job, calledBack, clientVars, ownerVars, killed>>

WakeSpuriously(w) ==
  /\ WorkerAt(w, "asleep", "awake")
  /\ UNCHANGED <<queueVars, active, job, calledBack, clientVars, ownerVars, killed>>

\* Mutant of CountActive: active_flushes++ is forgotten.
CountNothing(w) ==
  /\ WorkerAt(w, "taken", "flushing")
  /\ UNCHANGED <<queueVars, active, job, calledBack, clientVars, ownerVars, killed>>

\* active_flushes++, after the queue's mutex has been released.
CountActive(w) ==
  /\ WorkerAt(w, "taken", "flushing")
  /\ active' = active + 1
  /\ UNCHANGED <<queueVars, job, calledBack, clientVars, ownerVars, killed>>

\* PerformFlush returns an error, which only the callback hears.
FlushAndCall(w) ==
  /\ WorkerAt(w, "flushing", "flushed")
  /\ calledBack' = calledBack \cup {job[w]}
  /\ UNCHANGED <<queueVars, active, job, clientVars, ownerVars, killed>>

\* PerformFlush dies in SSTableBuilder::Finish.
FlushKills(w) ==
  /\ ~killed
  /\ workerPc[w] = "flushing"
  /\ killed' = TRUE
  /\ UNCHANGED <<queueVars, workerVars, clientVars, ownerVars>>

Uncount(w) ==
  /\ WorkerAt(w, "flushed", "notify")
  /\ active' = active - 1
  /\ job' = [job EXCEPT ![w] = 0]
  /\ UNCHANGED <<queueVars, calledBack, clientVars, ownerVars, killed>>

Woken == [c \in Client |-> IF clientPc[c] = "asleep" THEN "awake" ELSE clientPc[c]]

\* wait_cv.notify_all under wait_mutex.
NotifyWaiters(w) ==
  /\ WorkerAt(w, "notify", "awake")
  /\ WaitMutexFree
  /\ clientPc' = Woken
  /\ UNCHANGED <<queueVars, active, job, calledBack, end, before, ownerVars, killed>>

\* A step of the loop that does not wait for anybody.
WorkerStep(w) ==
  \/ Pop(w) \/ Exit(w) \/ Sleep(w)
  \/ CountActive(w) \/ FlushAndCall(w) \/ FlushKills(w) \/ Uncount(w)

-----------------------------------------------------------------------------
(* ScheduleFlush and WaitForFlushes.                                       *)

ClientAt(c, from, to) ==
  /\ ~killed
  /\ clientPc[c] = from
  /\ clientPc' = [clientPc EXCEPT ![c] = to]

\* ScheduleFlush of a table with entries.  It reads running_ without a lock.
\* Not running, or a table of Size() 0: it answers at once, nothing changes.
Schedule(c) ==
  /\ ClientAt(c, "idle", "push")
  /\ running
  /\ pushed + Cardinality({d \in Scheduler : clientPc[d] = "push"}) < MaxJobs
  /\ UNCHANGED <<queueVars, workerVars, end, before, ownerVars, killed>>

Push(c) ==
  /\ ClientAt(c, "push", "notify")
  /\ pushed' = pushed + 1
  /\ UNCHANGED <<popped, workerVars, end, before, ownerVars, killed>>

\* queue_cv.notify_one
NotifyOne(c) ==
  /\ ClientAt(c, "notify", "idle")
  /\ LET asleep == {w \in Worker : workerPc[w] = "asleep"} IN
       \/ asleep = {} /\ UNCHANGED workerPc
       \/ \E w \in asleep : workerPc' = [workerPc EXCEPT ![w] = "awake"]
  /\ UNCHANGED <<queueVars, active, job, calledBack, end, before, ownerVars, killed>>

WaitForFlushes(c) ==
  /\ ClientAt(c, "idle", "test")
  /\ WaitMutexFree
  /\ before' = [before EXCEPT ![c] = pushed]
  /\ UNCHANGED <<queueVars, workerVars, end, ownerVars, killed>>

\* flush_queue.empty() compares the two ends of the queue without its mutex,
\* while others push and pop: it may read either end first.
ReadEnd(c) ==
  /\ \/ ClientAt(c, "test", "compareTail") /\ end' = [end EXCEPT ![c] = popped]
     \/ ClientAt(c, "test", "compareHead") /\ end' = [end EXCEPT ![c] = pushed]
  /\ UNCHANGED <<queueVars, workerVars, before, ownerVars, killed>>

\* Mutant of FoundEmpty: active_flushes is not looked at.
FoundDone(c) ==
  /\ \/ ClientAt(c, "compareTail", "idle") /\ end[c] = pushed
     \/ ClientAt(c, "compareHead", "idle") /\ end[c] = popped
  /\ end' = [end EXCEPT ![c] = 0]
  /\ UNCHANGED <<queueVars, workerVars, before, ownerVars, killed>>

FoundEmpty(c) ==
  /\ \/ ClientAt(c, "compareTail", "readActive") /\ end[c] = pushed
     \/ ClientAt(c, "compareHead", "readActive") /\ end[c] = popped
  /\ end' = [end EXCEPT ![c] = 0]
  /\ UNCHANGED <<queueVars, workerVars, before, ownerVars, killed>>

FoundMore(c) ==
  /\ \/ ClientAt(c, "compareTail", "asleep") /\ end[c] # pushed
     \/ ClientAt(c, "compareHead", "asleep") /\ end[c] # popped
  /\ end' = [end EXCEPT ![c] = 0]
  /\ UNCHANGED <<queueVars, workerVars, before, ownerVars, killed>>

ReadActive(c) ==
  /\ \/ ClientAt(c, "readActive", "idle")   /\ active = 0
     \/ ClientAt(c, "readActive", "asleep") /\ active # 0
  /\ UNCHANGED <<queueVars, workerVars, end, before, ownerVars, killed>>

WaitWakesSpuriously(c) ==
  /\ ClientAt(c, "asleep", "awake")
  /\ UNCHANGED <<queueVars, workerVars, end, before, ownerVars, killed>>

\* wait_cv.wait takes wait_mutex again before it tests.
WaitResumes(c) ==
  /\ ClientAt(c, "awake", "test")
  /\ WaitMutexFree
  /\ UNCHANGED <<queueVars, workerVars, end, before, ownerVars, killed>>

SchedulerStep(c) == Push(c) \/ NotifyOne(c)

WaiterStep(c) ==
  ReadEnd(c) \/ FoundEmpty(c) \/ FoundMore(c) \/ ReadActive(c)

-----------------------------------------------------------------------------
(* Start and Stop, called by the one thread that owns the manager.         *)

Start ==
  /\ ~killed /\ ownerPc = "idle" /\ ~running
  /\ starts < MaxStarts
  /\ starts' = starts + 1
  /\ running' = TRUE /\ stopping' = FALSE
  /\ workerPc' = [w \in Worker |-> "awake"]
  /\ UNCHANGED <<queueVars, active, job, calledBack, clientVars, ownerPc, killed>>

StopBegins ==
  /\ ~killed /\ ownerPc = "idle" /\ running
  /\ stopping' = TRUE
  /\ ownerPc' = "notify"
  /\ UNCHANGED <<queueVars, workerVars, clientVars, running, starts, killed>>

\* Mutant of StopNotifies: nobody is woken.
StopSilently ==
  /\ ~killed /\ ownerPc = "notify"
  /\ ownerPc' = "join"
  /\ UNCHANGED <<queueVars, workerVars, clientVars, running, stopping, starts, killed>>

StopNotifies ==
  /\ ~killed /\ ownerPc = "notify"
  /\ workerPc' = [w \in Worker |->
                    IF workerPc[w] = "asleep" THEN "awake" ELSE workerPc[w]]
  /\ ownerPc' = "join"
  /\ UNCHANGED <<queueVars, active, job, calledBack, clientVars, running, stopping,
                 starts, killed>>

StopJoins ==
  /\ ~killed /\ ownerPc = "join"
  /\ \A w \in Worker : workerPc[w] = "exited"
  /\ workerPc' = [w \in Worker |-> "off"]
  /\ running' = FALSE
  /\ ownerPc' = "idle"
  /\ UNCHANGED <<queueVars, active, job, calledBack, clientVars, stopping, starts, killed>>

Stop == StopBegins \/ StopNotifies \/ StopJoins

-----------------------------------------------------------------------------
Next ==
  \/ \E w \in Worker : WorkerStep(w) \/ NotifyWaiters(w) \/ WakeSpuriously(w)
  \/ \E c \in Scheduler : Schedule(c) \/ SchedulerStep(c)
  \/ \E c \in Waiter :
       \/ WaitForFlushes(c) \/ WaiterStep(c)
       \/ WaitResumes(c) \/ WaitWakesSpuriously(c)
  \/ Start \/ Stop

Spec == Init /\ [][Next]_vars

\* Threads keep running; a mutex that is free again and again is obtained
\* (SF), however often a spurious wake-up takes it first.  Nobody has to call
\* anything, and Stop, once called, goes on.
FairSpec ==
  /\ Spec
  /\ \A w \in Worker : WF_vars(WorkerStep(w)) /\ SF_vars(NotifyWaiters(w))
  /\ \A c \in Scheduler : WF_vars(SchedulerStep(c))
  /\ \A c \in Waiter : WF_vars(WaiterStep(c)) /\ SF_vars(WaitResumes(c))
  /\ WF_vars(StopNotifies \/ StopJoins)

-----------------------------------------------------------------------------
(* Properties.                                                             *)

Holding == {"taken", "flushing", "flushed"}

\* Types of the manager's state (flush.cpp 13-25, flush.h 77-81).
FlushTypeOK ==
  /\ running \in BOOLEAN /\ stopping \in BOOLEAN /\ killed \in BOOLEAN
  /\ pushed \in Nat /\ popped \in 0..pushed
  /\ active \in Nat
  /\ workerPc \in [Worker -> Holding \cup {"off", "awake", "asleep", "notify", "exited"}]
  /\ job \in [Worker -> Nat]
  /\ calledBack \subseteq 1..popped
  /\ clientPc \in [Client -> Testing \cup {"idle", "push", "notify", "asleep", "awake"}]
  /\ end \in [Waiter -> Nat] /\ before \in [Waiter -> Nat]
  /\ ownerPc \in {"idle", "notify", "join"}
  /\ starts \in Nat

\* A job is in the queue, in one worker's hands, or has been called back:
\* none is lost on the way, taken twice, or reported before it is flushed
\* (flush.cpp 29-57).
JobsHandledOnce ==
  \A j \in 1..pushed :
    LET holders == {w \in Worker : job[w] = j} IN
    /\ j > popped => holders = {} /\ j \notin calledBack
    /\ j \in calledBack => \A w \in holders : workerPc[w] = "flushed"
    /\ j <= popped /\ j \notin calledBack =>
         \E w \in Worker :
           holders = {w} /\ workerPc[w] \in {"taken", "flushing"}

\* WaitForFlushes returns only when every job accepted before the call has
\* been called back, or is in the hands of a worker that has not counted it
\* yet (flush.cpp 44-46, 204-209): that window is all the code lets through,
\* although flush_queue is read while others change it.
WaitLeavesOnlyTaken ==
  [][\A c \in Waiter :
       (clientPc[c] \in Testing /\ clientPc'[c] = "idle") =>
         \A j \in 1..before[c] :
           j \in calledBack \/ \E w \in Worker : job[w] = j /\ workerPc[w] = "taken"]_vars

Alive == \E w \in Worker : workerPc[w] \notin {"off", "exited"}

\* A job in the queue while a worker is still there is flushed and called
\* back, even when Stop has begun: the last worker leaves an empty queue
\* (flush.cpp 36-38).  Only a job pushed after that is left behind.
JobsFinish ==
  \A j \in 1..MaxJobs :
    (popped < j /\ j <= pushed /\ Alive) ~> (j \in calledBack \/ killed)

\* Stop returns; WaitForFlushes returns unless a Stop has left jobs behind:
\* no wake-up is lost (flush.cpp 59-63, 157-175, 200, 204-209).
CallsEnd ==
  /\ (ownerPc # "idle") ~> (ownerPc = "idle" \/ killed)
  /\ \A c \in Waiter :
       (clientPc[c] \in Testing \cup {"asleep", "awake"})
         ~> (clientPc[c] = "idle" \/ killed \/ (~QueueEmpty /\ ~Alive))
=============================================================================
