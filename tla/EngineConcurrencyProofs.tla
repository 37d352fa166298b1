---------------------- MODULE EngineConcurrencyProofs ----------------------
(***************************************************************************)
(* Any number of threads making any calls keep the two mutexes as their    *)
(* places in the code say, so no thread reads the tree's nodes while       *)
(* another rewrites them, and mutations pass through log and tree singly.  *)
(* So their calls act as if each took effect at one instant: the engine    *)
(* implements AtomicMap.  What needs an argument there is the scan, whose  *)
(* answer is collected after its instant.                                  *)
(***************************************************************************)
EXTENDS EngineConcurrency, FoldProofs, SequenceTheorems, FiniteSetTheorems,
        WellFoundedInduction

-----------------------------------------------------------------------------
(* The inductive invariant.                                                *)

\* Which places in the code hold which mutex.
OwnsTree(t)    == pc[t] \in {"update", "finish"}
SharesTree(t)  == pc[t] \in ReadingNodes
OwnsEngine(t)  ==
  pc[t] \in {"log", "tree", "update", "finish", "leave"} /\ Exclusive(request[t])
SharesEngine(t) ==
  \/ pc[t] \in {"walstats", "read", "first", "opened"}
  \/ pc[t] = "tree" /\ request[t].op \in {"get", "scan"}
  \/ pc[t] = "leave" /\ ~Exclusive(request[t])

TreeMutexHeld ==
  /\ \A t \in Thread : OwnsTree(t) <=> treeMutex.owner = t
  /\ \A t \in Thread : SharesTree(t) <=> t \in treeMutex.readers
  /\ treeMutex.owner # NoThread => treeMutex.readers = {}

EngineMutexHeld ==
  /\ \A t \in Thread : OwnsEngine(t) <=> engineMutex.owner = t
  /\ \A t \in Thread : SharesEngine(t) <=> t \in engineMutex.readers
  /\ engineMutex.owner # NoThread => engineMutex.readers = {}

\* What a place says about the call that is there.
CallsInPlace ==
  \A t \in Thread :
    /\ pc[t] # "idle" => request[t] \in Requests
    /\ pc[t] = "log" => Exclusive(request[t])
    /\ pc[t] \in {"update", "finish"} => Mutates(request[t])
    /\ pc[t] \in {"tree", "update", "finish"} => request[t].op # "sync"
    /\ pc[t] \in {"walstats", "read", "first", "opened", "scan", "counters", "memory"}
         => ~Exclusive(request[t])
    /\ pc[t] = "read" => request[t].op = "get"
    /\ pc[t] \in {"walstats", "counters", "memory"} => request[t].op = "stats"
    /\ pc[t] \in {"first", "opened", "scan"} => request[t].op = "scan"

UpdatingHeld == updating => \E t \in Thread : pc[t] = "finish"

ConcInv ==
  /\ ConcTypeOK
  /\ CallsInPlace
  /\ TreeMutexHeld
  /\ EngineMutexHeld
  /\ UpdatingHeld

-----------------------------------------------------------------------------
(* It holds initially, and every step keeps each part of it.               *)

\* What a request can be.
LEMMA RequestKinds ==
  ASSUME NEW r \in Requests
  PROVE  /\ r.op \in {"put", "delete", "get", "scan", "sync", "stats"}
         /\ Mutates(r) => r \in Mutations /\ Exclusive(r)
  BY CallsAssumption DEF Mutations, Gets, Scans, WalCalls, Stats, Mutates, Exclusive

\* With no call made the mutexes are free and nothing is being updated.
LEMMA InitConcInv == Init => ConcInv
<1> SUFFICES ASSUME Init PROVE ConcInv
  OBVIOUS
<1>1. ConcTypeOK
  <2>1. log \in Seq(Entries)
    BY DEF Init
  <2>2. Free \in [owner : Thread \cup {NoThread}, readers : SUBSET Thread]
    BY DEF Free
  <2>3. tree \in [Key -> Value \cup {NoValue}]
    BY DEF Init, EmptyMap
  <2> QED
    BY <2>1, <2>2, <2>3 DEF Init, ConcTypeOK
<1>2. CallsInPlace /\ UpdatingHeld
  BY DEF Init, CallsInPlace, UpdatingHeld
<1>3. TreeMutexHeld /\ EngineMutexHeld
  BY CallsAssumption DEF Init, Free, TreeMutexHeld, EngineMutexHeld, OwnsTree, SharesTree,
                         OwnsEngine, SharesEngine, ReadingNodes
<1> QED
  BY <1>1, <1>2, <1>3 DEF ConcInv

\* Every step of a thread keeps the types.
LEMMA TypesStep ==
  ASSUME ConcInv, NEW t \in Thread, Invoke(t) \/ Step(t)
  PROVE  ConcTypeOK'
<1> USE RequestKinds
    DEF Goto, ConcInv, ConcTypeOK, CallsInPlace, lockVars, dataVars,
        Owned, Shared, Released
<1>0. request[t] \in Requests \cup {NoValue} /\ (pc[t] # "idle" => request[t] \in Requests)
  OBVIOUS
<1>1. CASE Invoke(t)
  BY <1>0, <1>1 DEF Invoke
<1>2. CASE EnterExclusive(t)
  BY <1>0, <1>2 DEF EnterExclusive
<1>3. CASE EnterShared(t)
  BY <1>0, <1>3 DEF EnterShared
<1>4. CASE Leave(t)
  BY <1>0, <1>4 DEF Leave
<1>5. CASE Return(t)
  BY <1>0, <1>5 DEF Return
<1>6. CASE WriteLog(t) \/ WriteLogFails(t)
  <2>1. request[t] \in Mutations
    BY <1>0, <1>6 DEF WriteLog, WriteLogFails
  <2>2. log' \in Seq(Entries)
    <3>1. \A refused \in BOOLEAN : [call |-> request[t], refused |-> refused] \in Entries
      BY <2>1 DEF Entries
    <3>2. \E refused \in BOOLEAN : log' = Append(log, [call |-> request[t], refused |-> refused])
      BY <1>6 DEF WriteLog, WriteLogFails, Logged, Refused
    <3>3. log \in Seq(Entries)
      OBVIOUS
    <3> QED
      BY ONLY <3>1, <3>2, <3>3, AppendProperties
  <2>3. CASE WriteLog(t)
    BY <2>2, <2>3 DEF WriteLog
  <2>4. CASE WriteLogFails(t)
    BY <2>2, <2>4 DEF WriteLogFails
  <2> QED
    BY <1>6, <2>3, <2>4
<1>7. CASE CallWal(t)
  BY <1>0, <1>7 DEF CallWal
<1>8. CASE ReadWalStats(t)
  BY <1>0, <1>8 DEF ReadWalStats
<1>9. CASE LockTreeExclusive(t)
  BY <1>0, <1>9 DEF LockTreeExclusive
<1>10. CASE LockTreeShared(t)
  BY <1>0, <1>10 DEF LockTreeShared
<1>11. CASE BeginUpdate(t)
  BY <1>0, <1>11 DEF BeginUpdate
<1>12. CASE FinishUpdate(t)
  <2>1. request[t] \in Mutations
    BY <1>0, <1>12 DEF FinishUpdate
  <2>2. ApplyToTree(tree, request[t]) \in [Key -> Value \cup {NoValue}]
    BY <2>1 DEF ApplyToTree, With, Without, Mutations
  <2> QED
    BY <1>12, <2>2 DEF FinishUpdate
<1>13. CASE ReadKey(t)
  BY <1>0, <1>13 DEF ReadKey
<1>14. CASE FindFirst(t)
  BY <1>0, <1>14 DEF FindFirst
<1>15. CASE LeaveOpened(t)
  BY <1>0, <1>15 DEF LeaveOpened
<1>16. CASE ScanNext(t)
  BY <1>0, <1>16 DEF ScanNext
<1>17. CASE CloseIterator(t)
  BY <1>0, <1>17 DEF CloseIterator
<1>18. CASE ReadCounters(t)
  BY <1>0, <1>18 DEF ReadCounters
<1>19. CASE ReadMemory(t)
  BY <1>0, <1>19 DEF ReadMemory
<1> QED
  BY <1>1, <1>2, <1>3, <1>4, <1>5, <1>6, <1>7, <1>8, <1>9, <1>10, <1>11, <1>12,
     <1>13, <1>14, <1>15, <1>16, <1>17, <1>18, <1>19 DEF Step

\* A call goes from place to place as its kind of request must.
LEMMA CallsStep ==
  ASSUME ConcInv, NEW t \in Thread, Invoke(t) \/ Step(t)
  PROVE  CallsInPlace'
<1> USE RequestKinds
    DEF Goto, ConcInv, ConcTypeOK, CallsInPlace, lockVars, dataVars,
        Mutates, Exclusive
<1>0. request[t] \in Requests \cup {NoValue} /\ (pc[t] # "idle" => request[t] \in Requests)
  OBVIOUS
<1>1. CASE Invoke(t)
  BY <1>0, <1>1 DEF Invoke
<1>2. CASE EnterExclusive(t)
  BY <1>0, <1>2 DEF EnterExclusive
<1>3. CASE EnterShared(t)
  BY <1>0, <1>3 DEF EnterShared
<1>4. CASE Leave(t)
  BY <1>0, <1>4 DEF Leave
<1>5. CASE Return(t)
  BY <1>0, <1>5 DEF Return
<1>6. CASE WriteLog(t) \/ WriteLogFails(t)
  BY <1>0, <1>6 DEF WriteLog, WriteLogFails
<1>7. CASE CallWal(t)
  BY <1>0, <1>7 DEF CallWal
<1>8. CASE ReadWalStats(t)
  BY <1>0, <1>8 DEF ReadWalStats
<1>9. CASE LockTreeExclusive(t)
  BY <1>0, <1>9 DEF LockTreeExclusive
<1>10. CASE LockTreeShared(t)
  BY <1>0, <1>10 DEF LockTreeShared
<1>11. CASE BeginUpdate(t)
  BY <1>0, <1>11 DEF BeginUpdate
<1>12. CASE FinishUpdate(t)
  BY <1>0, <1>12 DEF FinishUpdate
<1>13. CASE ReadKey(t)
  BY <1>0, <1>13 DEF ReadKey
<1>14. CASE FindFirst(t)
  BY <1>0, <1>14 DEF FindFirst
<1>15. CASE LeaveOpened(t)
  BY <1>0, <1>15 DEF LeaveOpened
<1>16. CASE ScanNext(t)
  BY <1>0, <1>16 DEF ScanNext
<1>17. CASE CloseIterator(t)
  BY <1>0, <1>17 DEF CloseIterator
<1>18. CASE ReadCounters(t)
  BY <1>0, <1>18 DEF ReadCounters
<1>19. CASE ReadMemory(t)
  BY <1>0, <1>19 DEF ReadMemory
<1> QED
  BY <1>1, <1>2, <1>3, <1>4, <1>5, <1>6, <1>7, <1>8, <1>9, <1>10, <1>11, <1>12,
     <1>13, <1>14, <1>15, <1>16, <1>17, <1>18, <1>19 DEF Step

\* The tree's mutex is held exactly where the code holds it.
LEMMA TreeMutexStep ==
  ASSUME ConcInv, NEW t \in Thread, Invoke(t) \/ Step(t)
  PROVE  TreeMutexHeld'
<1> USE RequestKinds, CallsAssumption
    DEF Goto, ConcInv, ConcTypeOK, CallsInPlace, lockVars, dataVars,
        TreeMutexHeld, OwnsTree, SharesTree, ReadingNodes, Owned, Shared, Released,
        CanOwn, CanShare
<1>0. request[t] \in Requests \cup {NoValue} /\ (pc[t] # "idle" => request[t] \in Requests)
  OBVIOUS
<1>1. CASE Invoke(t)
  BY <1>0, <1>1 DEF Invoke
<1>2. CASE EnterExclusive(t)
  BY <1>0, <1>2 DEF EnterExclusive
<1>3. CASE EnterShared(t)
  BY <1>0, <1>3 DEF EnterShared
<1>4. CASE Leave(t)
  BY <1>0, <1>4 DEF Leave
<1>5. CASE Return(t)
  BY <1>0, <1>5 DEF Return
<1>6. CASE WriteLog(t) \/ WriteLogFails(t)
  BY <1>0, <1>6 DEF WriteLog, WriteLogFails
<1>7. CASE CallWal(t)
  BY <1>0, <1>7 DEF CallWal
<1>8. CASE ReadWalStats(t)
  BY <1>0, <1>8 DEF ReadWalStats
<1>9. CASE LockTreeExclusive(t)
  BY <1>0, <1>9 DEF LockTreeExclusive
<1>10. CASE LockTreeShared(t)
  BY <1>0, <1>10 DEF LockTreeShared
<1>11. CASE BeginUpdate(t)
  BY <1>0, <1>11 DEF BeginUpdate
<1>12. CASE FinishUpdate(t)
  BY <1>0, <1>12 DEF FinishUpdate
<1>13. CASE ReadKey(t)
  BY <1>0, <1>13 DEF ReadKey
<1>14. CASE FindFirst(t)
  BY <1>0, <1>14 DEF FindFirst
<1>15. CASE LeaveOpened(t)
  BY <1>0, <1>15 DEF LeaveOpened
<1>16. CASE ScanNext(t)
  BY <1>0, <1>16 DEF ScanNext
<1>17. CASE CloseIterator(t)
  BY <1>0, <1>17 DEF CloseIterator
<1>18. CASE ReadCounters(t)
  BY <1>0, <1>18 DEF ReadCounters
<1>19. CASE ReadMemory(t)
  BY <1>0, <1>19 DEF ReadMemory
<1> QED
  BY <1>1, <1>2, <1>3, <1>4, <1>5, <1>6, <1>7, <1>8, <1>9, <1>10, <1>11, <1>12,
     <1>13, <1>14, <1>15, <1>16, <1>17, <1>18, <1>19 DEF Step

\* So is the engine's, which a scan gives up long before the tree's.
LEMMA EngineMutexStep ==
  ASSUME ConcInv, NEW t \in Thread, Invoke(t) \/ Step(t)
  PROVE  EngineMutexHeld'
<1> USE RequestKinds, CallsAssumption
    DEF Goto, ConcInv, ConcTypeOK, CallsInPlace, lockVars, dataVars,
        EngineMutexHeld, OwnsEngine, SharesEngine, Owned, Shared, Released,
        CanOwn, CanShare, Exclusive, Mutates
<1>0. request[t] \in Requests \cup {NoValue} /\ (pc[t] # "idle" => request[t] \in Requests)
  OBVIOUS
<1>1. CASE Invoke(t)
  BY <1>0, <1>1 DEF Invoke
<1>2. CASE EnterExclusive(t)
  BY <1>0, <1>2 DEF EnterExclusive
<1>3. CASE EnterShared(t)
  BY <1>0, <1>3 DEF EnterShared
<1>4. CASE Leave(t)
  BY <1>0, <1>4 DEF Leave
<1>5. CASE Return(t)
  BY <1>0, <1>5 DEF Return
<1>6. CASE WriteLog(t) \/ WriteLogFails(t)
  BY <1>0, <1>6 DEF WriteLog, WriteLogFails
<1>7. CASE CallWal(t)
  BY <1>0, <1>7 DEF CallWal
<1>8. CASE ReadWalStats(t)
  BY <1>0, <1>8 DEF ReadWalStats
<1>9. CASE LockTreeExclusive(t)
  BY <1>0, <1>9 DEF LockTreeExclusive
<1>10. CASE LockTreeShared(t)
  BY <1>0, <1>10 DEF LockTreeShared
<1>11. CASE BeginUpdate(t)
  BY <1>0, <1>11 DEF BeginUpdate
<1>12. CASE FinishUpdate(t)
  BY <1>0, <1>12 DEF FinishUpdate
<1>13. CASE ReadKey(t)
  BY <1>0, <1>13 DEF ReadKey
<1>14. CASE FindFirst(t)
  BY <1>0, <1>14 DEF FindFirst
<1>15. CASE LeaveOpened(t)
  BY <1>0, <1>15 DEF LeaveOpened
<1>16. CASE ScanNext(t)
  BY <1>0, <1>16 DEF ScanNext
<1>17. CASE CloseIterator(t)
  BY <1>0, <1>17 DEF CloseIterator
<1>18. CASE ReadCounters(t)
  BY <1>0, <1>18 DEF ReadCounters
<1>19. CASE ReadMemory(t)
  BY <1>0, <1>19 DEF ReadMemory
<1> QED
  BY <1>1, <1>2, <1>3, <1>4, <1>5, <1>6, <1>7, <1>8, <1>9, <1>10, <1>11, <1>12,
     <1>13, <1>14, <1>15, <1>16, <1>17, <1>18, <1>19 DEF Step

\* Nodes are being rewritten only while a thread is at it.
LEMMA UpdatingStep ==
  ASSUME ConcInv, NEW t \in Thread, Invoke(t) \/ Step(t)
  PROVE  UpdatingHeld'
<1> USE RequestKinds
    DEF Goto, ConcInv, ConcTypeOK, CallsInPlace, lockVars, dataVars, UpdatingHeld,
        TreeMutexHeld, OwnsTree
<1>0. request[t] \in Requests \cup {NoValue} /\ (pc[t] # "idle" => request[t] \in Requests)
  OBVIOUS
<1>1. CASE Invoke(t)
  BY <1>0, <1>1 DEF Invoke
<1>2. CASE EnterExclusive(t)
  BY <1>0, <1>2 DEF EnterExclusive
<1>3. CASE EnterShared(t)
  BY <1>0, <1>3 DEF EnterShared
<1>4. CASE Leave(t)
  BY <1>0, <1>4 DEF Leave
<1>5. CASE Return(t)
  BY <1>0, <1>5 DEF Return
<1>6. CASE WriteLog(t) \/ WriteLogFails(t)
  BY <1>0, <1>6 DEF WriteLog, WriteLogFails
<1>7. CASE CallWal(t)
  BY <1>0, <1>7 DEF CallWal
<1>8. CASE ReadWalStats(t)
  BY <1>0, <1>8 DEF ReadWalStats
<1>9. CASE LockTreeExclusive(t)
  BY <1>0, <1>9 DEF LockTreeExclusive
<1>10. CASE LockTreeShared(t)
  BY <1>0, <1>10 DEF LockTreeShared
<1>11. CASE BeginUpdate(t)
  BY <1>0, <1>11 DEF BeginUpdate
<1>12. CASE FinishUpdate(t)
  BY <1>0, <1>12 DEF FinishUpdate
<1>13. CASE ReadKey(t)
  BY <1>0, <1>13 DEF ReadKey
<1>14. CASE FindFirst(t)
  BY <1>0, <1>14 DEF FindFirst
<1>15. CASE LeaveOpened(t)
  BY <1>0, <1>15 DEF LeaveOpened
<1>16. CASE ScanNext(t)
  BY <1>0, <1>16 DEF ScanNext
<1>17. CASE CloseIterator(t)
  BY <1>0, <1>17 DEF CloseIterator
<1>18. CASE ReadCounters(t)
  BY <1>0, <1>18 DEF ReadCounters
<1>19. CASE ReadMemory(t)
  BY <1>0, <1>19 DEF ReadMemory
<1> QED
  BY <1>1, <1>2, <1>3, <1>4, <1>5, <1>6, <1>7, <1>8, <1>9, <1>10, <1>11, <1>12,
     <1>13, <1>14, <1>15, <1>16, <1>17, <1>18, <1>19 DEF Step

\* Together: no step of any thread breaks the invariant.
LEMMA NextConcInv == ConcInv /\ [Next]_vars => ConcInv'
<1> SUFFICES ASSUME ConcInv, [Next]_vars PROVE ConcInv'
  OBVIOUS
<1>1. ASSUME NEW t \in Thread, Invoke(t) \/ Step(t) PROVE ConcInv'
  BY <1>1, TypesStep, CallsStep, TreeMutexStep, EngineMutexStep, UpdatingStep DEF ConcInv
<1>2. CASE UNCHANGED vars
  <2>1. ConcTypeOK' /\ CallsInPlace' /\ UpdatingHeld'
    BY <1>2 DEF vars, lockVars, dataVars, ConcInv, ConcTypeOK, CallsInPlace, UpdatingHeld
  <2>2. TreeMutexHeld' /\ EngineMutexHeld'
    BY <1>2 DEF vars, lockVars, dataVars, ConcInv, TreeMutexHeld, EngineMutexHeld,
                OwnsTree, SharesTree, OwnsEngine, SharesEngine
  <2> QED
    BY <2>1, <2>2 DEF ConcInv
<1> QED
  BY <1>1, <1>2 DEF Next

-----------------------------------------------------------------------------
(* Theorems.                                                               *)

\* So it holds throughout.
LEMMA ConcInvariant == Spec => []ConcInv
  BY InitConcInv, NextConcInv, PTL DEF Spec

\* The mutexes, the tree, the log and the places keep their types for any
\* number of threads and calls (kv_engine.h 65-69).
THEOREM ConcTypes == Spec => []ConcTypeOK
<1>1. ConcInv => ConcTypeOK
  BY DEF ConcInv
<1> QED
  BY <1>1, ConcInvariant, PTL

\* No thread follows pointers between nodes while Put or Delete rewrites
\* them: Get, open iterators and MemoryUsage all hold the tree's mutex
\* (btree.cpp 184, 269, 282, 499, 608).
THEOREM NodesAreReadAtRest == Spec => []NodesReadAtRest
<1>1. ConcInv => NodesReadAtRest
  <2> SUFFICES ASSUME ConcInv, updating, NEW t \in Thread
               PROVE  pc[t] \notin ReadingNodes
    BY DEF NodesReadAtRest
  <2>1. PICK u \in Thread : pc[u] = "finish"
    BY DEF ConcInv, UpdatingHeld
  <2>2. treeMutex.owner = u /\ u # NoThread
    BY <2>1, CallsAssumption DEF ConcInv, TreeMutexHeld, OwnsTree
  <2>3. t \notin treeMutex.readers
    BY <2>2 DEF ConcInv, TreeMutexHeld
  <2> QED
    BY <2>3 DEF ConcInv, TreeMutexHeld, SharesTree
<1> QED
  BY <1>1, ConcInvariant, PTL

\* From the log to the end of its change of the tree a mutation has the
\* engine to itself, so two can never swap between log and tree
\* (kv_engine.cpp 39-57, 64-82).
THEOREM MutationsOneAtATime == Spec => []OneMutationAtATime
<1>1. ConcInv => OneMutationAtATime
  BY DEF ConcInv, OneMutationAtATime, InFlight, EngineMutexHeld, OwnsEngine, Exclusive
<1> QED
  BY <1>1, ConcInvariant, PTL

-----------------------------------------------------------------------------
(* What Replay computes.                                                   *)

Maps == [Key -> Value \cup {NoValue}]

\* One step of a replay of s, as a function of the map and the position.
ReplayStep(s) ==
  [p \in Maps \X (Nat \ {0}) |->
     IF p[2] \in DOMAIN s THEN ApplyEntry(p[1], s[p[2]]) ELSE p[1]]

\* A step of a replay is a map again (btree.cpp 178-262).
LEMMA ReplayStepType ==
  ASSUME NEW s \in Seq(Entries)
  PROVE  ReplayStep(s) \in [Maps \X (Nat \ {0}) -> Maps]
<1>1. ASSUME NEW p \in Maps \X (Nat \ {0})
      PROVE  (IF p[2] \in DOMAIN s THEN ApplyEntry(p[1], s[p[2]]) ELSE p[1]) \in Maps
  <2>1. p[1] \in Maps
    OBVIOUS
  <2>2. CASE p[2] \in DOMAIN s
    <3>1. s[p[2]] \in Entries
      BY <2>2, ElementOfSeq, LenProperties
    <3>2. ApplyEntry(p[1], s[p[2]]) \in Maps
      BY <2>1, <3>1 DEF ApplyEntry, ApplyToTree, With, Without, Maps, Mutations, Entries
    <3> QED
      BY <2>2, <3>2
  <2>3. CASE p[2] \notin DOMAIN s
    BY <2>1, <2>3
  <2> QED
    BY <2>2, <2>3
<1> QED
  BY <1>1, Zenon DEF ReplayStep

\* Replay computes the accumulation of these steps.
LEMMA ReplayAccumulates ==
  ASSUME NEW s \in Seq(Entries)
  PROVE  \E acc : Accumulates(acc, EmptyMap, ReplayStep(s), Len(s)) /\ Replay(s) = acc[Len(s)]
<1> DEFINE step == ReplayStep(s)
           Body(iter) == [u \in SUBSET (DOMAIN s) |->
                            IF u = {} THEN EmptyMap
                            ELSE ApplyEntry(iter[u \ {Max(u)}], s[Max(u)])]
           It == CHOOSE iter : iter = Body(iter)
<1>1. Replay(s) = It[DOMAIN s]
  BY DEF Replay, FoldLeft, MapThenFoldSet
<1>2. /\ s \in Seq(Entries) /\ Len(s) \in Nat /\ DOMAIN s = 1..Len(s)
      /\ \A i \in DOMAIN s : s[i] \in Entries
  BY LenProperties, ElementOfSeq
<1>3. EmptyMap \in Maps
  BY DEF EmptyMap, Maps
<1>4. step \in [Maps \X (Nat \ {0}) -> Maps]
  BY ReplayStepType
<1> HIDE DEF step
<1>5. ASSUME NEW u \in SUBSET (1..Len(s)), u # {}, NEW f, f[u \ {Max(u)}] \in Maps
      PROVE  step[<<f[u \ {Max(u)}], Max(u)>>] = Body(f)[u]
  <2>1. Len(s) \in Nat /\ u # {}
    BY <1>2, <1>5
  <2>2. Max(u) \in u
    BY <2>1, MaxOfPositions
  <2>5. Max(u) \in 1..Len(s) /\ Max(u) \in DOMAIN s /\ u \in SUBSET (DOMAIN s)
    BY <1>2, <2>2
  <2>3. /\ Max(u) \in 1..Len(s) /\ Max(u) \in DOMAIN s /\ Max(u) \in Nat \ {0}
        /\ u \in SUBSET (DOMAIN s)
    BY <1>2, <2>5
  <2> DEFINE t == f[u \ {Max(u)}]
  <2>4. step[<<t, Max(u)>>] = ApplyEntry(t, s[Max(u)])
    BY <1>5, <2>3 DEF step, ReplayStep
  <2> QED
    BY <1>5, <2>3, <2>4
<1>6. ASSUME NEW f, f = Body(f)
      PROVE  FoldsFrom(Maps, f, EmptyMap, step, Len(s))
  <2>1. ASSUME NEW u \in SUBSET (1..Len(s)), u # {}, f[u \ {Max(u)}] \in Maps
        PROVE  f[u] = step[<<f[u \ {Max(u)}], Max(u)>>]
    BY <1>5, <1>6, <2>1
  <2>2. f[{}] = EmptyMap
    BY <1>2, <1>6
  <2> QED
    BY <2>1, <2>2 DEF FoldsFrom
<1>7. PICK it \in [SUBSET (1..Len(s)) -> Maps] : Folds(it, EmptyMap, step, Len(s))
  BY <1>2, <1>3, <1>4, FoldsExist
<1>8. it = Body(it)
  <2>1. ASSUME NEW u \in SUBSET (1..Len(s)) PROVE it[u] = Body(it)[u]
    <3>1. CASE u = {}
      BY <1>2, <1>7, <3>1 DEF Folds
    <3>2. CASE u # {}
      <4>1. it[u \ {Max(u)}] \in Maps
        OBVIOUS
      <4>2. it[u] = step[<<it[u \ {Max(u)}], Max(u)>>]
        BY <1>7, <3>2 DEF Folds
      <4> QED
        BY <1>5, <3>2, <4>1, <4>2
    <3> QED
      BY <3>1, <3>2
  <2> QED
    BY <1>2, <2>1
<1> HIDE DEF Body
<1>9. It = Body(It)
  BY <1>8
<1> HIDE DEF It
<1>10. FoldsFrom(Maps, It, EmptyMap, step, Len(s))
  BY <1>6, <1>9
<1> DEFINE acc == [m \in 0..Len(s) |-> It[1..m]]
<1>11. Replay(s) = acc[Len(s)]
  BY <1>1, <1>2
<1>12. acc = [m \in 0..Len(s) |-> It[1..m]] /\ Len(s) \in Nat
  BY <1>2
<1> HIDE DEF acc
<1>13. Accumulates(acc, EmptyMap, step, Len(s))
  BY <1>3, <1>4, <1>10, <1>12, FoldsAccumulate
<1>14. Accumulates(acc, EmptyMap, ReplayStep(s), Len(s))
  BY <1>13 DEF step
<1> QED
  BY <1>11, <1>14

\* The replay of no record, and of one record more.
LEMMA ReplayNothing == Replay(<< >>) = EmptyMap
<1>1. << >> \in Seq(Entries) /\ Len(<< >>) = 0
  BY EmptySeq
<1>2. PICK acc : /\ Accumulates(acc, EmptyMap, ReplayStep(<< >>), Len(<< >>))
                 /\ Replay(<< >>) = acc[Len(<< >>)]
  BY <1>1, ReplayAccumulates
<1> QED
  BY <1>1, <1>2 DEF Accumulates

\* The tree that one more record builds.
LEMMA ReplayAppend ==
  ASSUME NEW s \in Seq(Entries), NEW r \in Entries
  PROVE  Replay(Append(s, r)) = ApplyEntry(Replay(s), r)
<1> DEFINE g == Append(s, r)
           n == Len(s)
           f == ReplayStep(s)
           k == ReplayStep(g)
<1>1. /\ n \in Nat /\ DOMAIN s = 1..n /\ g \in Seq(Entries) /\ Len(g) = n + 1
      /\ \A i \in 1..n : g[i] = s[i]
      /\ g[n + 1] = r /\ DOMAIN g = 1..(n + 1)
  BY LenProperties, AppendProperties
<1> HIDE DEF g
<1>2. PICK acc : Accumulates(acc, EmptyMap, k, n + 1) /\ Replay(g) = acc[n + 1]
  BY <1>1, ReplayAccumulates
<1>3. PICK own : Accumulates(own, EmptyMap, f, n) /\ Replay(s) = own[n]
  BY ReplayAccumulates
<1> HIDE DEF n
<1>4. EmptyMap \in Maps
  BY DEF EmptyMap, Maps
<1>5. f \in [Maps \X (Nat \ {0}) -> Maps] /\ k \in [Maps \X (Nat \ {0}) -> Maps]
  BY <1>1, ReplayStepType
<1>6. SameSteps(Maps, f, k, n)
  <2>1. ASSUME NEW t \in Maps, NEW m \in 1..n PROVE f[<<t, m>>] = k[<<t, m>>]
    <3>1. <<t, m>> \in Maps \X (Nat \ {0}) /\ m \in DOMAIN s /\ m \in DOMAIN g
      BY <1>1
    <3>2. f[<<t, m>>] = ApplyEntry(t, s[m]) /\ k[<<t, m>>] = ApplyEntry(t, g[m])
      BY <3>1 DEF ReplayStep
    <3> QED
      BY <1>1, <3>2
  <2> HIDE DEF f, k
  <2> QED
    BY <2>1 DEF SameSteps
<1>7. acc[n + 1] = k[<<acc[n], n + 1>>] /\ Accumulates(acc, EmptyMap, k, n)
  BY <1>1, <1>2 DEF Accumulates
<1>8. acc[n] = own[n] /\ acc[n] \in Maps
  <2> HIDE DEF f, k
  <2>1. n \in Nat
    BY <1>1
  <2>2. \A m \in 0..n : own[m] = acc[m] /\ own[m] \in Maps
    BY <1>3, <1>4, <1>5, <1>6, <1>7, <2>1, AccumulationUnique
  <2> QED
    BY <2>1, <2>2
<1>9. <<acc[n], n + 1>> \in Maps \X (Nat \ {0}) /\ n + 1 \in DOMAIN g
  BY <1>1, <1>8
<1>10. k[<<acc[n], n + 1>>] = ApplyEntry(acc[n], g[n + 1])
  BY <1>9 DEF ReplayStep
<1> QED
  BY <1>1, <1>2, <1>3, <1>7, <1>8, <1>10 DEF g

-----------------------------------------------------------------------------
(* The tree follows the log.                                               *)

Entry(r) == [call |-> r, refused |-> FALSE]

\* The mutation between log and tree is the last one logged, and the tree is
\* the replay of the others; with none between them, of the whole log.
FollowInv ==
  /\ \A t \in Thread : InFlight(t) =>
       \E s \in Seq(Entries) : log = Append(s, Entry(request[t])) /\ tree = Replay(s)
  /\ (\A t \in Thread : ~InFlight(t)) => tree = Replay(log)

\* All but the last of a sequence with one element more.
LEMMA FrontOfAppend ==
  ASSUME NEW T, NEW s \in Seq(T), NEW r \in T
  PROVE  Front(Append(s, r)) = s
<1> DEFINE g == Append(s, r)
           n == Len(s)
<1>1. /\ n \in Nat /\ DOMAIN s = 1..n /\ s = [i \in 1..n |-> s[i]]
      /\ g \in Seq(T) /\ Len(g) = n + 1 /\ \A i \in 1..n : g[i] = s[i]
  BY LenProperties, AppendProperties
<1>2. Front(g) = [i \in 1..n |-> g[i]]
  BY <1>1 DEF Front
<1> QED
  BY <1>1, <1>2

\* Only WriteLog, WriteLogFails and FinishUpdate change the log, the tree or which mutations
\* are between them.
LEMMA SameInFlight ==
  ASSUME ConcInv, NEW t \in Thread, Invoke(t) \/ Step(t), ~WriteLog(t), ~WriteLogFails(t),
         ~FinishUpdate(t)
  PROVE  /\ log' = log /\ tree' = tree
         /\ \A u \in Thread : InFlight(u)' <=> InFlight(u)
         /\ \A u \in Thread : InFlight(u) => request'[u] = request[u]
<1> USE RequestKinds
    DEF Goto, ConcInv, ConcTypeOK, CallsInPlace, lockVars, dataVars, InFlight, Mutates,
        Exclusive
<1>0. request[t] \in Requests \cup {NoValue} /\ (pc[t] # "idle" => request[t] \in Requests)
  OBVIOUS
<1>1. CASE Invoke(t)
  BY <1>0, <1>1 DEF Invoke
<1>2. CASE EnterExclusive(t)
  BY <1>0, <1>2 DEF EnterExclusive
<1>3. CASE EnterShared(t)
  BY <1>0, <1>3 DEF EnterShared
<1>4. CASE Leave(t)
  BY <1>0, <1>4 DEF Leave
<1>5. CASE Return(t)
  BY <1>0, <1>5 DEF Return
<1>6. CASE CallWal(t)
  BY <1>0, <1>6 DEF CallWal
<1>7. CASE ReadWalStats(t)
  BY <1>0, <1>7 DEF ReadWalStats
<1>8. CASE LockTreeExclusive(t)
  BY <1>0, <1>8 DEF LockTreeExclusive
<1>9. CASE LockTreeShared(t)
  BY <1>0, <1>9 DEF LockTreeShared
<1>10. CASE BeginUpdate(t)
  BY <1>0, <1>10 DEF BeginUpdate
<1>11. CASE ReadKey(t)
  BY <1>0, <1>11 DEF ReadKey
<1>12. CASE FindFirst(t)
  BY <1>0, <1>12 DEF FindFirst
<1>13. CASE LeaveOpened(t)
  BY <1>0, <1>13 DEF LeaveOpened
<1>14. CASE ScanNext(t)
  BY <1>0, <1>14 DEF ScanNext
<1>15. CASE CloseIterator(t)
  BY <1>0, <1>15 DEF CloseIterator
<1>16. CASE ReadCounters(t)
  BY <1>0, <1>16 DEF ReadCounters
<1>17. CASE ReadMemory(t)
  BY <1>0, <1>17 DEF ReadMemory
<1> QED
  BY <1>1, <1>2, <1>3, <1>4, <1>5, <1>6, <1>7, <1>8, <1>9, <1>10, <1>11, <1>12,
     <1>13, <1>14, <1>15, <1>16, <1>17 DEF Step

\* Every step keeps it.
LEMMA FollowStep ==
  ASSUME FollowInv, ConcInv, NEW t \in Thread, Invoke(t) \/ Step(t)
  PROVE  FollowInv'
<1>1. CASE WriteLog(t)
  <2>1. /\ pc[t] = "log" /\ pc'[t] = "tree" /\ Mutates(request[t])
        /\ \A u \in Thread \ {t} : pc'[u] = pc[u]
        /\ log' = Append(log, Entry(request[t])) /\ tree' = tree /\ request' = request
        /\ log \in Seq(Entries)
    BY <1>1 DEF WriteLog, Logged, Entry, Goto, ConcInv, ConcTypeOK
  <2>2. ASSUME NEW u \in Thread, InFlight(u) PROVE FALSE
    BY <2>1, <2>2, CallsAssumption
    DEF InFlight, ConcInv, EngineMutexHeld, OwnsEngine, Exclusive
  <2>3. ASSUME NEW u \in Thread, InFlight(u)' PROVE u = t
    BY <2>1, <2>2, <2>3 DEF InFlight
  <2>4. tree = Replay(log) /\ InFlight(t)'
    BY <2>1, <2>2 DEF FollowInv, InFlight
  <2> QED
    BY <2>1, <2>3, <2>4 DEF FollowInv
<1>2. CASE FinishUpdate(t)
  <2>1. /\ pc[t] = "finish" /\ pc'[t] = "leave"
        /\ \A u \in Thread \ {t} : pc'[u] = pc[u]
        /\ tree' = ApplyToTree(tree, request[t]) /\ log' = log /\ request' = request
        /\ log \in Seq(Entries)
    BY <1>2 DEF FinishUpdate, Goto, ConcInv, ConcTypeOK
  <2>2. InFlight(t) /\ request[t] \in Requests /\ Mutates(request[t])
    BY <2>1 DEF InFlight, ConcInv, CallsInPlace
  <2>3. ASSUME NEW u \in Thread, InFlight(u) PROVE u = t
    BY <2>2, <2>3 DEF InFlight, ConcInv, EngineMutexHeld, OwnsEngine, Exclusive
  <2>4. ASSUME NEW u \in Thread, InFlight(u)' PROVE FALSE
    BY <2>1, <2>3, <2>4 DEF InFlight
  <2>5. PICK s \in Seq(Entries) : log = Append(s, Entry(request[t])) /\ tree = Replay(s)
    BY <2>2 DEF FollowInv
  <2>6. request[t] \in Mutations
    BY <2>2, CallsAssumption DEF Mutates, Gets, Scans, WalCalls, Stats
  <2>7. Replay(log) = ApplyToTree(Replay(s), request[t])
    <3>1. Entry(request[t]) \in Entries /\ ~Entry(request[t]).refused
          /\ Entry(request[t]).call = request[t]
      BY <2>6 DEF Entry, Entries
    <3>2. Replay(log) = ApplyEntry(Replay(s), Entry(request[t]))
      BY <2>5, <3>1, ReplayAppend
    <3> QED
      BY <3>1, <3>2 DEF ApplyEntry
  <2>8. tree' = Replay(log)
    BY <2>1, <2>5, <2>7
  <2> QED
    BY <2>1, <2>4, <2>8 DEF FollowInv
<1>3. CASE WriteLogFails(t)
  <2>1. /\ pc[t] = "log" /\ pc'[t] = "leave" /\ Mutates(request[t])
        /\ \A u \in Thread \ {t} : pc'[u] = pc[u]
        /\ tree' = tree /\ request' = request /\ log \in Seq(Entries)
        /\ log' = Append(log, [call |-> request[t], refused |-> TRUE])
    BY <1>3 DEF WriteLogFails, Refused, Goto, ConcInv, ConcTypeOK
  <2>2. request[t] \in Mutations
    BY <2>1, CallsAssumption
    DEF ConcInv, CallsInPlace, Mutates, Gets, Scans, WalCalls, Stats
  <2>3. ASSUME NEW u \in Thread, InFlight(u) PROVE FALSE
    BY <2>1, <2>3, CallsAssumption
    DEF InFlight, ConcInv, EngineMutexHeld, OwnsEngine, Exclusive
  <2>4. ASSUME NEW u \in Thread, InFlight(u)' PROVE FALSE
    BY <2>1, <2>3, <2>4 DEF InFlight
  <2>5. [call |-> request[t], refused |-> TRUE] \in Entries
    BY <2>2 DEF Entries
  <2>6. Replay(log') = ApplyEntry(Replay(log), [call |-> request[t], refused |-> TRUE])
    BY <2>1, <2>5, ReplayAppend
  <2>7. tree' = Replay(log')
    BY <2>1, <2>3, <2>6 DEF ApplyEntry, FollowInv
  <2> QED
    BY <2>4, <2>7 DEF FollowInv, Replay
<1>4. CASE ~WriteLog(t) /\ ~WriteLogFails(t) /\ ~FinishUpdate(t)
  <2>1. /\ log' = log /\ tree' = tree
        /\ \A u \in Thread : InFlight(u)' <=> InFlight(u)
        /\ \A u \in Thread : InFlight(u) => request'[u] = request[u]
    BY <1>4, SameInFlight
  <2> QED
    BY <2>1 DEF FollowInv
<1> QED
  BY <1>1, <1>2, <1>3, <1>4

\* Mutations reach the tree in the order they were logged, one at a time, but
\* for those whose Sync failed: however calls interleave, what recovery would
\* rebuild from the other records is what callers have seen (kv_engine.cpp
\* 39-57, 64-82).
THEOREM TreeAlwaysFollowsLog == Spec => []TreeFollowsLog
<1>1. Init => FollowInv
  BY ReplayNothing DEF Init, FollowInv, InFlight
<1>2. FollowInv /\ ConcInv /\ [Next]_vars => FollowInv'
  <2> SUFFICES ASSUME FollowInv, ConcInv, [Next]_vars PROVE FollowInv'
    OBVIOUS
  <2>1. ASSUME NEW t \in Thread, Invoke(t) \/ Step(t) PROVE FollowInv'
    BY <2>1, FollowStep
  <2>2. CASE UNCHANGED vars
    BY <2>2 DEF vars, dataVars, FollowInv, InFlight
  <2> QED
    BY <2>1, <2>2 DEF Next
<1>3. FollowInv /\ ConcInv /\ OneMutationAtATime => TreeFollowsLog
  <2> SUFFICES ASSUME FollowInv, ConcInv, OneMutationAtATime PROVE TreeFollowsLog
    OBVIOUS
  <2>1. CASE \E t \in Thread : InFlight(t)
    <3>1. PICK t \in Thread : InFlight(t)
      BY <2>1
    <3>2. PICK s \in Seq(Entries) : log = Append(s, Entry(request[t])) /\ tree = Replay(s)
      BY <3>1 DEF FollowInv
    <3>3. request[t] \in Mutations
      BY <3>1, CallsAssumption DEF InFlight, ConcInv, CallsInPlace, Mutates, Gets, Scans,
                                   WalCalls, Stats
    <3>4. Front(log) = s
      <4>1. Entry(request[t]) \in Entries
        BY <3>3 DEF Entry, Entries
      <4> QED
        BY <3>2, <4>1, FrontOfAppend
    <3> QED
      BY <2>1, <3>2, <3>4 DEF TreeFollowsLog
  <2>2. CASE \A t \in Thread : ~InFlight(t)
    BY <2>2 DEF FollowInv, TreeFollowsLog
  <2> QED
    BY <2>1, <2>2
<1> QED
  BY <1>1, <1>2, <1>3, ConcInvariant, MutationsOneAtATime, PTL DEF Spec

-----------------------------------------------------------------------------
(* Ordered maps.                                                           *)

\* A finite set of integers has a least element.
LEMMA LeastOfInts ==
  ASSUME NEW S \in SUBSET Int, S # {}, IsFiniteSet(S)
  PROVE  \E j \in S : \A i \in S : j <= i
<1> DEFINE UpTo(k) == {j \in S : j <= k}
           T == {UpTo(k) : k \in S}
           R == StrictSubsetOrdering(S)
<1>1. IsWellFoundedOn(R, FiniteSubsetsOf(S))
  BY FS_StrictSubsetOrderingWellFounded
<1>2. T \subseteq FiniteSubsetsOf(S) /\ T # {}
  <2>1. \A k \in S : UpTo(k) \in SUBSET S /\ IsFiniteSet(UpTo(k))
    BY FS_Subset
  <2> QED
    BY <2>1 DEF FiniteSubsetsOf
<1>3. PICK x \in T : \A y \in T : ~(<<y, x>> \in R)
  <2> HIDE DEF T, R
  <2> QED
    BY <1>1, <1>2, WFMin
<1>4. PICK j \in S : x = UpTo(j)
  OBVIOUS
<1>5. ASSUME NEW i \in S PROVE j <= i
  <2>1. SUFFICES ASSUME i < j PROVE FALSE
    OBVIOUS
  <2>2. i \in Int /\ j \in Int
    OBVIOUS
  <2>3. UpTo(i) \in SUBSET S /\ UpTo(j) \in SUBSET S /\ UpTo(i) \subseteq UpTo(j)
    <3>1. \A k \in S : k \in Int /\ (k <= i => k <= j)
      BY <2>1, <2>2
    <3> QED
      BY <3>1
  <2>4. j \in UpTo(j) /\ j \notin UpTo(i)
    BY <2>1, <2>2
  <2>5. <<UpTo(i), UpTo(j)>> \in R
    <3>1. UpTo(i) # UpTo(j)
      BY <2>4
    <3> HIDE DEF UpTo
    <3> QED
      BY <2>3, <3>1 DEF StrictSubsetOrdering
  <2> QED
    BY <1>3, <1>4, <2>5
<1> QED
  BY <1>5

\* The instance AM has definitions of its own for what it extends; they say
\* the same as those of this module.
LEMMA SameCardinality == ASSUME NEW S PROVE AM!Cardinality(S) = Cardinality(S)
  BY DEF AM!Cardinality, Cardinality

\* The key after i others is the same in both.
LEMMA SameKeyAfter ==
  ASSUME NEW ks, NEW i
  PROVE  AM!KeyAfter(ks, i) = KeyAfter(ks, i)
<1>1. {k \in ks : AM!Cardinality({j \in ks : j < k}) = i}
      = {k \in ks : Cardinality({j \in ks : j < k}) = i}
  BY SameCardinality
<1> QED
  BY <1>1 DEF AM!KeyAfter, KeyAfter, AM!OneOf, OneOf

\* So a scan of the map has the same pairs in both.
LEMMA SameItems ==
  ASSUME NEW m, NEW f, NEW l
  PROVE  AM!Items(m, f, l) = Items(m, f, l)
<1>1. AM!KeysIn(m, f, l) = KeysIn(m, f, l)
  BY DEF AM!KeysIn, KeysIn, AM!Stored, Stored
<1> DEFINE ks == KeysIn(m, f, l)
<1>2. AM!Cardinality(ks) = Cardinality(ks)
  BY SameCardinality
<1>3. \A i : AM!KeyAfter(ks, i) = KeyAfter(ks, i)
  BY SameKeyAfter
<1> QED
  BY <1>1, <1>2, <1>3 DEF AM!Items, Items

\* The pairs up to d are those up to c and c's own when no key is between.
LEMMA ItemsExtend ==
  ASSUME NEW m, NEW f \in Int, NEW c \in Stored(m), f <= c, NEW d \in Int, c < d,
         Key \subseteq Int,
         \A k \in Stored(m) : ~(c < k /\ k < d)
  PROVE  Items(m, f, d) = Append(Items(m, f, c), <<c, m[c]>>)
<1> DEFINE A == KeysIn(m, f, c)
           B == KeysIn(m, f, d)
           n == Cardinality(A)
<1>1. B = A \cup {c} /\ c \notin A /\ A \subseteq Int /\ c \in Int
  <2>1. Stored(m) \subseteq Int
    BY DEF Stored
  <2>2. c \in Int /\ c \in B /\ c \notin A /\ A \subseteq Int
    BY <2>1 DEF KeysIn
  <2>3. A \subseteq B
    BY <2>1 DEF KeysIn
  <2>4. ASSUME NEW k \in B PROVE k \in A \cup {c}
    BY <2>1, <2>4 DEF KeysIn
  <2> QED
    BY <2>2, <2>3, <2>4
<1>2. IsFiniteSet(A) /\ n \in Nat
  <2>1. A \subseteq f..(c-1)
    BY <1>1 DEF KeysIn
  <2>2. IsFiniteSet(f..(c-1))
    BY <1>1, FS_Interval
  <2> QED
    BY <2>1, <2>2, FS_Subset, FS_CardinalityType
<1>3. IsFiniteSet(B) /\ Cardinality(B) = n + 1
  BY <1>1, <1>2, FS_AddElement
<1> HIDE DEF n
<1>4. \A k \in A : Cardinality({j \in B : j < k}) = Cardinality({j \in A : j < k})
                   /\ Cardinality({j \in A : j < k}) # n
  <2> SUFFICES ASSUME NEW k \in A PROVE {j \in B : j < k} = {j \in A : j < k}
                                        /\ Cardinality({j \in A : j < k}) # n
    OBVIOUS
  <2>1. k < c /\ k \in Int
    BY <1>1 DEF KeysIn
  <2>2. {j \in B : j < k} = {j \in A : j < k}
    BY <1>1, <2>1
  <2>3. {j \in A : j < k} \subseteq A /\ k \notin {j \in A : j < k}
    BY <2>1
  <2>4. Cardinality({j \in A : j < k}) # n
    BY <1>2, <2>3, FS_Subset DEF n
  <2> QED
    BY <1>2, <2>2, <2>4
<1>5. Cardinality({j \in B : j < c}) = n
  <2>1. {j \in B : j < c} = A
    BY <1>1 DEF KeysIn
  <2> QED
    BY <2>1 DEF n
<1>6. \A i \in 0..(n-1) : KeyAfter(B, i) = KeyAfter(A, i)
  <2> SUFFICES ASSUME NEW i \in 0..(n-1) PROVE KeyAfter(B, i) = KeyAfter(A, i)
    OBVIOUS
  <2>1. {k \in B : Cardinality({j \in B : j < k}) = i}
        = {k \in A : Cardinality({j \in A : j < k}) = i}
    BY <1>1, <1>2, <1>4, <1>5
  <2> QED
    BY <2>1 DEF KeyAfter
<1>7. KeyAfter(B, n) = c
  <2>1. {k \in B : Cardinality({j \in B : j < k}) = n} = {c}
    BY <1>1, <1>4, <1>5
  <2> QED
    BY <2>1 DEF KeyAfter, OneOf
<1> HIDE DEF A, B
<1>8. Items(m, f, d) = [i \in 1..(n+1) |-> <<KeyAfter(B, i - 1), m[KeyAfter(B, i - 1)]>>]
  BY <1>3 DEF Items, B
<1>9. Items(m, f, c) = [i \in 1..n |-> <<KeyAfter(A, i - 1), m[KeyAfter(A, i - 1)]>>]
  BY DEF Items, A, n
<1> QED
  BY <1>2, <1>6, <1>7, <1>8, <1>9

\* There are none when no key is in the interval.
LEMMA ItemsNone ==
  ASSUME NEW m, NEW f, NEW d, KeysIn(m, f, d) = {}
  PROVE  Items(m, f, d) = << >>
<1>1. Cardinality(KeysIn(m, f, d)) = 0
  BY FS_EmptySet
<1> QED
  BY <1>1 DEF Items

\* An iterator's next position is the next key, or the end of the scan.
LEMMA NextKeyIsNext ==
  ASSUME NEW k \in Int, NEW limit \in Int, NEW d, d = NextKey(k, limit)
  PROVE  /\ \A j \in Stored(tree) : ~(k <= j /\ j < d)
         /\ d = limit \/ (d \in Stored(tree) /\ k <= d /\ d < limit)
<1> DEFINE ks == {j \in Stored(tree) : j >= k /\ j < limit}
<1>1. Stored(tree) \subseteq Int
  BY CallsAssumption DEF Stored
<1>2. CASE ks = {}
  BY <1>1, <1>2 DEF NextKey
<1>3. CASE ks # {}
  <2>1. IsFiniteSet(ks) /\ ks \subseteq Int
    <3>1. ks \subseteq k..(limit - 1)
      BY <1>1
    <3>2. IsFiniteSet(k..(limit - 1))
      BY FS_Interval
    <3> QED
      BY <1>1, <3>1, <3>2, FS_Subset
  <2>2. \E j \in ks : \A i \in ks : j <= i
    <3> HIDE DEF ks
    <3> QED
      BY <1>3, <2>1, LeastOfInts
  <2>3. d = CHOOSE j \in ks : \A i \in ks : j <= i
    BY <1>3 DEF NextKey
  <2>4. d \in ks /\ \A i \in ks : d <= i
    <3> HIDE DEF ks
    <3> QED
      BY <2>2, <2>3
  <2> QED
    BY <1>1, <2>4
<1> QED
  BY <1>2, <1>3

-----------------------------------------------------------------------------
(* What an open iterator has collected.                                    *)

\* A scan holds every pair before its iterator's key, and that key is one the
\* tree stores, or the end.
ScanHolds(t) ==
  /\ cursor[t] = request[t].limit
     \/ (/\ cursor[t] \in Stored(tree)
         /\ request[t].first <= cursor[t]
         /\ cursor[t] < request[t].limit)
  /\ answer[t] = Items(tree, request[t].first, cursor[t])

ScansHold ==
  /\ answer = [t \in Thread |-> answer[t]]
  /\ cursor = [t \in Thread |-> cursor[t]]
  /\ \A t \in Thread : pc[t] \in {"opened", "scan"} => ScanHolds(t)

\* A step of t leaves every other thread's call where it is, and the tree too
\* while that thread has an iterator: its lock keeps FinishUpdate out.
LEMMA OthersStay ==
  ASSUME ConcInv, ScansHold, NEW t \in Thread, Invoke(t) \/ Step(t),
         NEW u \in Thread, u # t
  PROVE  /\ pc'[u] = pc[u] /\ request'[u] = request[u]
         /\ answer'[u] = answer[u] /\ cursor'[u] = cursor[u]
         /\ pc[u] \in {"opened", "scan"} => tree' = tree
<1> USE DEF ConcInv, ConcTypeOK, ScansHold, Goto, dataVars, lockVars
<1>1. CASE FinishUpdate(t)
  <2>1. pc'[u] = pc[u] /\ request'[u] = request[u]
        /\ answer'[u] = answer[u] /\ cursor'[u] = cursor[u]
    BY <1>1 DEF FinishUpdate
  <2>2. treeMutex.owner = t /\ t # NoThread
    BY <1>1, CallsAssumption DEF FinishUpdate, TreeMutexHeld, OwnsTree
  <2>3. pc[u] \notin {"opened", "scan"}
    BY <2>2 DEF TreeMutexHeld, SharesTree, ReadingNodes
  <2> QED
    BY <2>1, <2>3
<1>2. CASE Invoke(t) \/ EnterExclusive(t) \/ EnterShared(t) \/ Leave(t) \/ Return(t)
  BY <1>2 DEF Invoke, EnterExclusive, EnterShared, Leave, Return
<1>3. CASE WriteLog(t) \/ WriteLogFails(t) \/ CallWal(t) \/ ReadWalStats(t)
  BY <1>3 DEF WriteLog, WriteLogFails, CallWal, ReadWalStats
<1>4. CASE LockTreeExclusive(t) \/ LockTreeShared(t) \/ BeginUpdate(t) \/ ReadKey(t)
  BY <1>4 DEF LockTreeExclusive, LockTreeShared, BeginUpdate, ReadKey
<1>5. CASE FindFirst(t) \/ LeaveOpened(t) \/ ScanNext(t) \/ CloseIterator(t)
  BY <1>5 DEF FindFirst, LeaveOpened, ScanNext, CloseIterator
<1>6. CASE ReadCounters(t) \/ ReadMemory(t)
  BY <1>6 DEF ReadCounters, ReadMemory
<1> QED
  BY <1>1, <1>2, <1>3, <1>4, <1>5, <1>6 DEF Step

\* The iterator's own steps keep what it has collected.
LEMMA ScanHoldsStep ==
  ASSUME ConcInv, ScansHold, NEW t \in Thread, Invoke(t) \/ Step(t),
         pc'[t] \in {"opened", "scan"}
  PROVE  ScanHolds(t)'
<1> USE DEF ConcInv, ConcTypeOK, ScansHold, Goto, dataVars, lockVars
<1>1. FindFirst(t) \/ LeaveOpened(t) \/ ScanNext(t)
  <2>1. ~(Invoke(t) \/ EnterExclusive(t) \/ EnterShared(t) \/ Leave(t) \/ Return(t))
    BY DEF Invoke, EnterExclusive, EnterShared, Leave, Return
  <2>2. ~(WriteLog(t) \/ WriteLogFails(t) \/ CallWal(t) \/ ReadWalStats(t))
    BY DEF WriteLog, WriteLogFails, CallWal, ReadWalStats
  <2>3. ~(LockTreeExclusive(t) \/ LockTreeShared(t) \/ BeginUpdate(t))
    BY DEF LockTreeExclusive, LockTreeShared, BeginUpdate
  <2>4. ~(ReadKey(t) \/ FinishUpdate(t) \/ CloseIterator(t))
    BY DEF ReadKey, FinishUpdate, CloseIterator
  <2>5. ~(ReadCounters(t) \/ ReadMemory(t))
    BY DEF ReadCounters, ReadMemory
  <2> QED
    BY <2>1, <2>2, <2>3, <2>4, <2>5 DEF Step
<1> DEFINE first == request[t].first
           limit == request[t].limit
<1>2. tree' = tree /\ request' = request
  BY <1>1 DEF FindFirst, LeaveOpened, ScanNext
<1>3. first \in Int /\ limit \in Int
  <2>1. request[t] \in Requests /\ request[t].op = "scan"
    BY <1>1 DEF FindFirst, LeaveOpened, ScanNext, CallsInPlace
  <2> QED
    BY <2>1, CallsAssumption DEF Mutations, Gets, Scans, WalCalls, Stats
<1>4. Stored(tree) \subseteq Int
  BY CallsAssumption DEF Stored
<1>5. CASE FindFirst(t)
  <2>1. cursor'[t] = NextKey(first, limit) /\ answer'[t] = << >>
    BY <1>5 DEF FindFirst
  <2>2. KeysIn(tree, first, cursor'[t]) = {}
    BY <1>3, <1>4, <2>1, NextKeyIsNext DEF KeysIn
  <2>3. Items(tree, first, cursor'[t]) = << >>
    BY <2>2, ItemsNone
  <2>4. cursor'[t] = limit
        \/ (cursor'[t] \in Stored(tree) /\ first <= cursor'[t] /\ cursor'[t] < limit)
    BY <1>3, <2>1, NextKeyIsNext
  <2> QED
    BY <1>2, <2>1, <2>3, <2>4 DEF ScanHolds, Stored
<1>6. CASE LeaveOpened(t)
  BY <1>2, <1>6 DEF LeaveOpened, ScanHolds, Stored
<1>7. CASE ScanNext(t)
  <2> DEFINE c == cursor[t]
             d == NextKey(c + 1, limit)
  <2>1. ScanHolds(t)
    BY <1>7 DEF ScanNext
  <2>2. c \in Stored(tree) /\ first <= c /\ c < limit /\ c \in Int
    BY <1>3, <1>4, <1>7, <2>1 DEF ScanNext, AtEnd, ScanHolds
  <2>3. cursor'[t] = d /\ answer'[t] = Append(answer[t], <<c, tree[c]>>)
    BY <1>7 DEF ScanNext
  <2> HIDE DEF d
  <2>4. /\ \A j \in Stored(tree) : ~(c + 1 <= j /\ j < d)
        /\ d = limit \/ (d \in Stored(tree) /\ c + 1 <= d /\ d < limit)
    <3>1. c + 1 \in Int
      BY <2>2
    <3> HIDE DEF c, limit
    <3> QED
      BY <1>3, <3>1, NextKeyIsNext DEF d
  <2>5. d \in Int /\ c < d
    BY <1>3, <1>4, <2>2, <2>4
  <2>6. \A j \in Stored(tree) : ~(c < j /\ j < d)
    BY <1>4, <2>2, <2>4, <2>5
  <2>7. Items(tree, first, d) = Append(Items(tree, first, c), <<c, tree[c]>>)
    BY <1>3, <2>2, <2>5, <2>6, CallsAssumption, ItemsExtend
  <2>8. d = limit \/ (d \in Stored(tree) /\ first <= d /\ d < limit)
    BY <1>3, <1>4, <2>2, <2>4, <2>5
  <2> QED
    BY <1>2, <2>1, <2>3, <2>7, <2>8 DEF ScanHolds, Stored
<1> QED
  BY <1>1, <1>5, <1>6, <1>7

\* Every step keeps what the open iterators have collected.
LEMMA ScansHoldStep ==
  ASSUME ConcInv, ScansHold, [Next]_vars
  PROVE  ScansHold'
<1>1. ASSUME NEW t \in Thread, Invoke(t) \/ Step(t)
      PROVE  ScansHold'
  <2>1. answer' = [u \in Thread |-> answer'[u]] /\ cursor' = [u \in Thread |-> cursor'[u]]
    <3>1. /\ answer' = answer \/ \E x : answer' = [answer EXCEPT ![t] = x]
          /\ cursor' = cursor \/ \E x : cursor' = [cursor EXCEPT ![t] = x]
      <4>1. CASE Invoke(t) \/ EnterExclusive(t) \/ EnterShared(t) \/ Leave(t) \/ Return(t)
        BY <4>1 DEF Invoke, EnterExclusive, EnterShared, Leave, Return
      <4>2. CASE WriteLog(t) \/ WriteLogFails(t) \/ CallWal(t) \/ ReadWalStats(t)
        BY <4>2 DEF WriteLog, WriteLogFails, CallWal, ReadWalStats
      <4>3. CASE LockTreeExclusive(t) \/ LockTreeShared(t) \/ BeginUpdate(t)
        BY <4>3 DEF LockTreeExclusive, LockTreeShared, BeginUpdate
      <4>4. CASE FinishUpdate(t) \/ ReadKey(t) \/ CloseIterator(t)
        BY <4>4 DEF FinishUpdate, ReadKey, CloseIterator
      <4>5. CASE FindFirst(t) \/ LeaveOpened(t) \/ ScanNext(t)
        BY <4>5 DEF FindFirst, LeaveOpened, ScanNext
      <4>6. CASE ReadCounters(t) \/ ReadMemory(t)
        BY <4>6 DEF ReadCounters, ReadMemory
      <4> QED
        BY <1>1, <4>1, <4>2, <4>3, <4>4, <4>5, <4>6 DEF Step
    <3>2. answer = [u \in Thread |-> answer[u]] /\ cursor = [u \in Thread |-> cursor[u]]
      BY DEF ScansHold
    <3>3. \A x : LET f == [answer EXCEPT ![t] = x] IN f = [u \in Thread |-> f[u]]
      BY <3>2
    <3>4. \A x : LET f == [cursor EXCEPT ![t] = x] IN f = [u \in Thread |-> f[u]]
      BY <3>2
    <3> QED
      BY <3>1, <3>2, <3>3, <3>4
  <2>2. ASSUME NEW u \in Thread, u # t, pc'[u] \in {"opened", "scan"}
        PROVE  ScanHolds(u)'
    BY <1>1, <2>2, OthersStay DEF ScansHold, ScanHolds, Stored
  <2>3. ASSUME pc'[t] \in {"opened", "scan"} PROVE ScanHolds(t)'
    BY <1>1, <2>3, ScanHoldsStep
  <2> QED
    BY <2>1, <2>2, <2>3 DEF ScansHold
<1>2. CASE UNCHANGED vars
  BY <1>2 DEF vars, dataVars, ScansHold, ScanHolds, Stored
<1> QED
  BY <1>1, <1>2 DEF Next

-----------------------------------------------------------------------------
(* The steps of AtomicMap.                                                 *)

phaseBar  == [t \in Thread |-> PhaseOf(t)]
answerBar == [t \in Thread |-> AnswerOf(t)]

\* A step of t moves nobody else's call in AtomicMap.
LEMMA OthersSeen ==
  ASSUME ConcInv, ScansHold, NEW t \in Thread, Invoke(t) \/ Step(t),
         NEW u \in Thread, u # t
  PROVE  PhaseOf(u)' = PhaseOf(u) /\ AnswerOf(u)' = AnswerOf(u)
  BY OthersStay DEF PhaseOf, AnswerOf, Done

\* So what becomes of t says what becomes of the mapped variables.
LEMMA MovedOnly ==
  ASSUME ConcInv, ScansHold, NEW t \in Thread, Invoke(t) \/ Step(t)
  PROVE  /\ phaseBar' = [phaseBar EXCEPT ![t] = PhaseOf(t)']
         /\ answerBar' = [answerBar EXCEPT ![t] = AnswerOf(t)']
  BY OthersSeen DEF phaseBar, answerBar

\* A step that changes neither the map nor what AtomicMap sees of t stutters
\* there ...
LEMMA SeenUnchanged ==
  ASSUME ConcInv, ScansHold, NEW t \in Thread, Invoke(t) \/ Step(t),
         tree' = tree, request' = request,
         PhaseOf(t)' = PhaseOf(t), AnswerOf(t)' = AnswerOf(t)
  PROVE  UNCHANGED AM!amVars
<1>1. phaseBar' = phaseBar /\ answerBar' = answerBar
  BY MovedOnly DEF phaseBar, answerBar
<1> QED
  BY <1>1 DEF AM!amVars, phaseBar, answerBar

\* ... and one that ends the wait of t with the promised answer is TakeEffect.
LEMMA SeenEffect ==
  ASSUME ConcInv, ScansHold, NEW t \in Thread, Invoke(t) \/ Step(t),
         request' = request, tree' = AM!Effect(tree, request[t]),
         PhaseOf(t) = "pending", PhaseOf(t)' = "done",
         AnswerOf(t)' = AM!Answer(tree, request[t])
  PROVE  AM!TakeEffect(t)
<1>1. /\ phaseBar[t] = "pending"
      /\ phaseBar' = [phaseBar EXCEPT ![t] = "done"]
      /\ answerBar' = [answerBar EXCEPT ![t] = AM!Answer(tree, request[t])]
  BY MovedOnly DEF phaseBar
<1> QED
  BY <1>1 DEF AM!TakeEffect, phaseBar, answerBar

\* A call that ends its wait with an I/O error, and no change, fails there.
LEMMA SeenFailure ==
  ASSUME ConcInv, ScansHold, NEW t \in Thread, Invoke(t) \/ Step(t),
         request' = request, tree' = tree, request[t].op \in {"put", "delete", "sync"},
         PhaseOf(t) = "pending", PhaseOf(t)' = "done", AnswerOf(t)' = "IOError"
  PROVE  AM!Fail(t)
<1>1. /\ phaseBar[t] = "pending"
      /\ phaseBar' = [phaseBar EXCEPT ![t] = "done"]
      /\ answerBar' = [answerBar EXCEPT ![t] = "IOError"]
  BY MovedOnly DEF phaseBar
<1> QED
  BY <1>1 DEF AM!Fail, phaseBar, answerBar

\* What AtomicMap does for each kind of call.
LEMMA EffectsOfCalls ==
  ASSUME NEW m, NEW r \in Requests
  PROVE  /\ Mutates(r) => AM!Effect(m, r) = ApplyToTree(m, r)
                          /\ AM!Answer(m, r) = StatusOf(m, r)
         /\ ~Mutates(r) => AM!Effect(m, r) = m
         /\ r.op = "get" => AM!Answer(m, r) = m[r.key]
         /\ r.op = "scan" => AM!Answer(m, r) = Items(m, r.first, r.limit)
         /\ r.op \in {"sync", "stats"} => AM!Answer(m, r) = "OK"
<1>1. r.op \in {"put", "delete", "get", "scan", "sync", "stats"}
  BY RequestKinds
<1>2. /\ Mutates(r) => AM!Effect(m, r) = ApplyToTree(m, r)
      /\ ~Mutates(r) => AM!Effect(m, r) = m
  BY <1>1 DEF Mutates, AM!Effect, ApplyToTree, AM!With, With, AM!Without, Without
<1>3. /\ Mutates(r) => AM!Answer(m, r) = StatusOf(m, r)
      /\ r.op = "get" => AM!Answer(m, r) = m[r.key]
      /\ r.op = "scan" => AM!Answer(m, r) = AM!Items(m, r.first, r.limit)
      /\ r.op \in {"sync", "stats"} => AM!Answer(m, r) = "OK"
  BY <1>1 DEF Mutates, AM!Answer, StatusOf
<1> QED
  BY <1>2, <1>3, SameItems

\* Calls, the steps at which they take effect, and returns are steps of
\* AtomicMap.
LEMMA AtomicSteps ==
  ASSUME ConcInv, ScansHold, NEW t \in Thread,
         \/ Invoke(t) \/ Return(t) \/ WriteLogFails(t)
         \/ CallWal(t) \/ ReadWalStats(t) \/ FinishUpdate(t) \/ ReadKey(t) \/ FindFirst(t)
  PROVE  AM!AMNext
<1> USE DEF Goto, ConcInv, ConcTypeOK, lockVars, dataVars
<1>1. Invoke(t) \/ Step(t)
  BY DEF Step
<1>2. CASE Invoke(t)
  <2>1. /\ PhaseOf(t) = "idle" /\ PhaseOf(t)' = "pending"
        /\ AnswerOf(t)' = NoValue /\ AnswerOf(t) = NoValue
    BY <1>2 DEF Invoke, PhaseOf, AnswerOf, Done
  <2>2. phaseBar[t] = "idle" /\ phaseBar' = [phaseBar EXCEPT ![t] = "pending"]
    BY <1>1, <2>1, MovedOnly DEF phaseBar
  <2>3. answerBar' = answerBar
    <3>1. answerBar' = [answerBar EXCEPT ![t] = NoValue] /\ answerBar[t] = NoValue
      BY <1>1, <2>1, MovedOnly DEF answerBar
    <3>2. answerBar = [u \in Thread |-> answerBar[u]]
      BY DEF answerBar
    <3> QED
      BY ONLY <3>1, <3>2
  <2>4. tree' = tree /\ \E r \in Requests : request' = [request EXCEPT ![t] = r]
    BY <1>2 DEF Invoke
  <2>5. AM!Call(t)
    BY <2>2, <2>3, <2>4 DEF AM!Call, phaseBar, answerBar
  <2> QED
    BY <2>5 DEF AM!AMNext
<1>3. CASE Return(t)
  <2>1. PhaseOf(t) = "done" /\ PhaseOf(t)' = "idle" /\ AnswerOf(t)' = NoValue
    BY <1>3 DEF Return, PhaseOf, AnswerOf, Done
  <2>2. phaseBar[t] = "done" /\ phaseBar' = [phaseBar EXCEPT ![t] = "idle"]
        /\ answerBar' = [answerBar EXCEPT ![t] = NoValue]
    BY <1>1, <2>1, MovedOnly DEF phaseBar
  <2>3. tree' = tree /\ request' = [request EXCEPT ![t] = NoValue]
    BY <1>3 DEF Return
  <2>4. AM!Reply(t)
    BY <2>2, <2>3 DEF AM!Reply, phaseBar, answerBar
  <2> QED
    BY <2>4 DEF AM!AMNext
<1>4. ASSUME \/ CallWal(t) /\ answer'[t] = "OK"
             \/ ReadWalStats(t) \/ FinishUpdate(t) \/ ReadKey(t) \/ FindFirst(t)
      PROVE  AM!TakeEffect(t)
  <2>1. request[t] \in Requests /\ request' = request
    BY <1>4 DEF CallsInPlace, CallWal, ReadWalStats, FinishUpdate, ReadKey, FindFirst
  <2>2. PhaseOf(t) = "pending" /\ PhaseOf(t)' = "done"
    BY <1>4 DEF CallsInPlace, CallWal, ReadWalStats, FinishUpdate, ReadKey, FindFirst,
                PhaseOf, Done
  <2>3. tree' = AM!Effect(tree, request[t]) /\ AnswerOf(t)' = AM!Answer(tree, request[t])
    <3> USE EffectsOfCalls DEF CallsInPlace, AnswerOf, Done
    <3>1. CASE CallWal(t) /\ answer'[t] = "OK"
      <4>1. ~Mutates(request[t]) /\ request[t].op = "sync"
        BY <2>1, <3>1, RequestKinds DEF CallWal, Exclusive
      <4>2. AnswerOf(t)' = "OK" /\ tree' = tree
        BY <2>1, <3>1, <4>1 DEF CallWal, ScansHold
      <4> QED
        BY <2>1, <4>1, <4>2
    <3>2. CASE ReadWalStats(t)
      <4>1. ~Mutates(request[t]) /\ request[t].op = "stats"
        BY <2>1, <3>2 DEF ReadWalStats, Mutates
      <4>2. AnswerOf(t)' = "OK" /\ tree' = tree
        BY <2>1, <3>2, <4>1 DEF ReadWalStats
      <4> QED
        BY <2>1, <4>1, <4>2
    <3>3. CASE FinishUpdate(t)
      <4>1. Mutates(request[t]) /\ request[t].op # "stats"
        BY <3>3 DEF FinishUpdate, Mutates
      <4>2. AnswerOf(t)' = answer'[t]
        BY <2>1, <3>3, <4>1 DEF FinishUpdate
      <4>3. answer'[t] = StatusOf(tree, request[t]) /\ tree' = ApplyToTree(tree, request[t])
        BY <3>3 DEF FinishUpdate, ScansHold
      <4> QED
        BY <2>1, <4>1, <4>2, <4>3
    <3>4. CASE ReadKey(t)
      <4>1. ~Mutates(request[t]) /\ request[t].op = "get"
        BY <2>1, <3>4 DEF ReadKey, Mutates
      <4>2. AnswerOf(t)' = tree[request[t].key] /\ tree' = tree
        BY <2>1, <3>4, <4>1 DEF ReadKey, ScansHold
      <4> QED
        BY <2>1, <4>1, <4>2
    <3>5. CASE FindFirst(t)
      <4>1. ~Mutates(request[t]) /\ request[t].op = "scan"
        BY <2>1, <3>5 DEF FindFirst, Mutates
      <4>2. AnswerOf(t)' = Items(tree, request[t].first, request[t].limit) /\ tree' = tree
        BY <2>1, <3>5, <4>1 DEF FindFirst
      <4> QED
        BY <2>1, <4>1, <4>2
    <3> QED
      BY <1>4, <3>1, <3>2, <3>3, <3>4, <3>5
  <2> QED
    BY <1>1, <2>1, <2>2, <2>3, SeenEffect
<1>5. ASSUME WriteLogFails(t) \/ (CallWal(t) /\ answer'[t] # "OK")
      PROVE  AM!Fail(t)
  <2>1. request[t] \in Requests /\ request' = request /\ tree' = tree
    BY <1>5 DEF CallsInPlace, CallWal, WriteLogFails
  <2>2. request[t].op \in {"put", "delete", "sync"}
    BY <1>5, <2>1, RequestKinds DEF CallsInPlace, CallWal, WriteLogFails, Exclusive, Mutates
  <2>3. answer'[t] = "IOError"
    BY <1>5 DEF CallWal, WriteLogFails, ScansHold
  <2>4. PhaseOf(t) = "pending" /\ PhaseOf(t)' = "done" /\ AnswerOf(t)' = "IOError"
    BY <1>5, <2>1, <2>2, <2>3 DEF CallWal, WriteLogFails, PhaseOf, AnswerOf, Done
  <2> QED
    BY <1>1, <2>1, <2>2, <2>4, SeenFailure
<1> QED
  BY <1>2, <1>3, <1>4, <1>5 DEF AM!AMNext

\* Every other step is invisible there: the scan's answer was promised when
\* its iterator opened, and what it collected by its end is that answer.
LEMMA HiddenSteps ==
  ASSUME ConcInv, ScansHold, NEW t \in Thread,
         \/ EnterExclusive(t) \/ EnterShared(t) \/ Leave(t) \/ WriteLog(t)
         \/ LockTreeExclusive(t) \/ LockTreeShared(t) \/ BeginUpdate(t)
         \/ LeaveOpened(t) \/ ScanNext(t) \/ CloseIterator(t)
         \/ ReadCounters(t) \/ ReadMemory(t)
  PROVE  UNCHANGED AM!amVars
<1> USE DEF Goto, ConcInv, ConcTypeOK, CallsInPlace, lockVars, dataVars, PhaseOf, AnswerOf, Done
<1>1. Invoke(t) \/ Step(t)
  BY DEF Step
<1>2. tree' = tree /\ request' = request
  BY DEF EnterExclusive, EnterShared, Leave, WriteLog, LockTreeExclusive, LockTreeShared,
         BeginUpdate, LeaveOpened, ScanNext, CloseIterator, ReadCounters, ReadMemory
<1>3. PhaseOf(t)' = PhaseOf(t) /\ AnswerOf(t)' = AnswerOf(t)
  <2>1. CASE EnterExclusive(t) \/ EnterShared(t)
    BY <1>2, <2>1 DEF EnterExclusive, EnterShared, Exclusive, Mutates
  <2>2. CASE Leave(t) \/ ReadCounters(t) \/ ReadMemory(t)
    BY <1>2, <2>2 DEF Leave, ReadCounters, ReadMemory
  <2>3. CASE WriteLog(t) \/ BeginUpdate(t) \/ LockTreeExclusive(t)
    BY <1>2, <2>3 DEF WriteLog, BeginUpdate, LockTreeExclusive, Mutates
  <2>4. CASE LockTreeShared(t)
    <3>1. request[t].op \in {"get", "scan", "stats"}
      BY <2>4, RequestKinds DEF LockTreeShared, Mutates
    <3> QED
      BY <1>2, <2>4, <3>1 DEF LockTreeShared
  <2>5. CASE LeaveOpened(t) \/ ScanNext(t)
    BY <1>2, <2>5 DEF LeaveOpened, ScanNext
  <2>6. CASE CloseIterator(t)
    <3>1. ScanHolds(t) /\ request[t].op = "scan" /\ request[t] \in Requests
      BY <2>6 DEF CloseIterator, ScansHold
    <3>2. request[t].limit \in Int
      BY <3>1, CallsAssumption DEF Mutations, Gets, Scans, WalCalls, Stats
    <3>3. cursor[t] >= request[t].limit
      BY <2>6 DEF CloseIterator, AtEnd
    <3>4. cursor[t] \in Stored(tree) => cursor[t] \in Int
      BY CallsAssumption DEF Stored
    <3>5. cursor[t] = request[t].limit
      BY ONLY <3>1, <3>2, <3>3, <3>4 DEF ScanHolds
    <3>6. answer[t] = Items(tree, request[t].first, request[t].limit)
      BY <3>1, <3>5 DEF ScanHolds
    <3> QED
      BY <1>2, <2>6, <3>1, <3>6 DEF CloseIterator
  <2> QED
    BY <2>1, <2>2, <2>3, <2>4, <2>5, <2>6
<1> QED
  BY <1>1, <1>2, <1>3, SeenUnchanged

-----------------------------------------------------------------------------
(* Theorem.                                                                *)

AtomicInv == ConcInv /\ ScansHold

\* The inductive invariant: places and mutexes, and what scans hold.
LEMMA AtomicInvariant == Spec => []AtomicInv
<1>1. Init => AtomicInv
  <2> SUFFICES ASSUME Init PROVE ScansHold
    BY InitConcInv DEF AtomicInv
  <2> QED
    BY DEF Init, ScansHold
<1>2. AtomicInv /\ [Next]_vars => AtomicInv'
  BY NextConcInv, ScansHoldStep DEF AtomicInv
<1> QED
  BY <1>1, <1>2, PTL DEF Spec

\* Every call of the engine acts on the map at one instant of its duration, a
\* range scan of an iterator that outlives the engine's lock included
\* (kv_engine.cpp 39-121, btree.cpp 184-620): for any number of threads.
THEOREM EngineIsAtomic == Spec => ImplementsAtomicMap
<1>1. Init => AM!AMInit
  BY DEF Init, AM!AMInit, PhaseOf, AnswerOf, Done, AM!EmptyMap, EmptyMap
<1>2. AtomicInv /\ [Next]_vars => [AM!AMNext]_AM!amVars
  <2> SUFFICES ASSUME AtomicInv, [Next]_vars PROVE AM!AMNext \/ UNCHANGED AM!amVars
    OBVIOUS
  <2>1. ASSUME NEW t \in Thread, Invoke(t) \/ Step(t)
        PROVE  AM!AMNext \/ UNCHANGED AM!amVars
    BY <2>1, AtomicSteps, HiddenSteps DEF AtomicInv, Step
  <2>2. CASE UNCHANGED vars
    BY <2>2 DEF vars, dataVars, AM!amVars, PhaseOf, AnswerOf, Done
  <2> QED
    BY <2>1, <2>2 DEF Next
<1> QED
  BY <1>1, <1>2, AtomicInvariant, PTL DEF Spec, ImplementsAtomicMap, AM!AMSpec
=============================================================================
