------------------------- MODULE EngineConcurrency -------------------------
(***************************************************************************)
(* Concurrent calls of KVEngine (src/kv_engine.cpp): the engine's          *)
(* shared_mutex, taken for every call, and the tree's own shared_mutex     *)
(* (src/btree/btree.cpp), taken inside it and kept by an open iterator     *)
(* after the engine's has been released.                                   *)
(*                                                                         *)
(* A step is what happens between two points where another thread can tell *)
(* the difference.  The tree is the map it stores, with a flag while its   *)
(* nodes are being rewritten; the log is the sequence of logged mutations, *)
(* each with what became of the Sync after it.                             *)
(***************************************************************************)
EXTENDS OrderedMap

CONSTANTS
  Thread,
  NoThread,         \* the owner of a mutex nobody owns
  Requests,         \* the calls threads make
  MaxCalls          \* bound: calls made in a behaviour

Mutations == [op : {"put"}, key : Key, val : Value] \cup [op : {"delete"}, key : Key]
Gets      == [op : {"get"}, key : Key]
Scans     == [op : {"scan"}, first : Int, limit : Int]
WalCalls  == [op : {"sync"}]     \* Flush and Sync
Stats     == [op : {"stats"}]    \* StatsJson of the REST server, HandleStats

\* A record in the log, and whether the Sync after it failed, so that its
\* mutation returned an error without reaching the tree.
Entries == [call : Mutations, refused : BOOLEAN]

ASSUME CallsAssumption ==
  /\ NoThread \notin Thread
  /\ Key \subseteq Int
  /\ NoValue \notin Value
  /\ Requests \subseteq Mutations \cup Gets \cup Scans \cup WalCalls \cup Stats
  /\ MaxCalls \in Nat

VARIABLES
  engineMutex,      \* mutex_ of KVEngine: its owner and its readers
  treeMutex,        \* mutex_ of BPlusTree
  writersFirst,     \* does this platform's shared_mutex let waiting writers
                    \* hold back new readers?  The standard leaves it open.
  tree,             \* the contents of tree_
  updating,         \* is a Put or Delete rewriting nodes of the tree?
  log,              \* mutations in the write-ahead log
  pc,               \* where each thread's call is
  request,          \* each thread's call
  answer,           \* what each thread's call has found so far
  cursor,           \* the key each thread's iterator is at
  calls             \* calls made so far

lockVars == <<engineMutex, treeMutex>>
dataVars == <<tree, updating, log>>
vars == <<lockVars, dataVars, writersFirst, pc, request, answer, cursor, calls>>

Free == [owner |-> NoThread, readers |-> {}]

Mutates(r)   == r.op \in {"put", "delete"}
Exclusive(r) == Mutates(r) \/ r.op = "sync"

ApplyToTree(t, r) ==
  IF r.op = "put" THEN With(t, r.key, r.val) ELSE Without(t, r.key)

\* What a record does to the tree.
ApplyEntry(t, e) == IF e.refused THEN t ELSE ApplyToTree(t, e.call)

\* What the tree's Put and Delete return.
StatusOf(t, r) == IF r.op = "delete" /\ t[r.key] = NoValue THEN "NotFound" ELSE "OK"

Init ==
  /\ engineMutex = Free
  /\ treeMutex = Free
  /\ writersFirst \in BOOLEAN
  /\ tree = EmptyMap
  /\ updating = FALSE
  /\ log = << >>
  /\ pc = [t \in Thread |-> "idle"]
  /\ request = [t \in Thread |-> NoValue]
  /\ answer = [t \in Thread |-> NoValue]
  /\ cursor = [t \in Thread |-> NoValue]
  /\ calls = 0

-----------------------------------------------------------------------------
(* shared_mutex.                                                           *)

AtLock(t, place) == pc[t] = place

EngineWriterWaits == \E u \in Thread : AtLock(u, "enter") /\ Exclusive(request[u])
TreeWriterWaits   == \E u \in Thread : AtLock(u, "tree") /\ Mutates(request[u])

CanOwn(mutex) == mutex.owner = NoThread /\ mutex.readers = {}
CanShare(mutex, writerWaits) == mutex.owner = NoThread /\ ~(writersFirst /\ writerWaits)

Owned(mutex, t)    == [mutex EXCEPT !.owner = t]
Shared(mutex, t)   == [mutex EXCEPT !.readers = @ \cup {t}]
Released(mutex, t) ==
  [owner   |-> IF mutex.owner = t THEN NoThread ELSE mutex.owner,
   readers |-> mutex.readers \ {t}]

Goto(t, from, to) == pc[t] = from /\ pc' = [pc EXCEPT ![t] = to]

-----------------------------------------------------------------------------
(* Calls and the engine's mutex.                                           *)

Invoke(t) ==
  /\ calls < MaxCalls
  /\ Goto(t, "idle", "enter")
  /\ \E r \in Requests : request' = [request EXCEPT ![t] = r]
  /\ calls' = calls + 1
  /\ UNCHANGED <<lockVars, dataVars, writersFirst, answer, cursor>>

\* unique_lock in Put, Delete, Flush and Sync.
EnterExclusive(t) ==
  /\ Goto(t, "enter", "log")
  /\ Exclusive(request[t])
  /\ CanOwn(engineMutex)
  /\ engineMutex' = Owned(engineMutex, t)
  /\ UNCHANGED <<treeMutex, dataVars, writersFirst, request, answer, cursor, calls>>

\* shared_lock in Get, NewIterator and GetWalStats.
EnterShared(t) ==
  /\ pc[t] = "enter"
  /\ pc' = [pc EXCEPT ![t] = IF request[t].op = "stats" THEN "walstats" ELSE "tree"]
  /\ ~Exclusive(request[t])
  /\ CanShare(engineMutex, EngineWriterWaits)
  /\ engineMutex' = Shared(engineMutex, t)
  /\ UNCHANGED <<treeMutex, dataVars, writersFirst, request, answer, cursor, calls>>

\* The engine's lock goes out of scope; stats still have the tree to ask.
Leave(t) ==
  /\ pc[t] = "leave"
  /\ pc' = [pc EXCEPT ![t] = IF request[t].op = "stats" THEN "counters" ELSE "return"]
  /\ engineMutex' = Released(engineMutex, t)
  /\ UNCHANGED <<treeMutex, dataVars, writersFirst, request, answer, cursor, calls>>

Return(t) ==
  /\ Goto(t, "return", "idle")
  /\ request' = [request EXCEPT ![t] = NoValue]
  /\ answer' = [answer EXCEPT ![t] = NoValue]
  /\ cursor' = [cursor EXCEPT ![t] = NoValue]
  /\ UNCHANGED <<lockVars, dataVars, writersFirst, calls>>

-----------------------------------------------------------------------------
(* The write-ahead log.                                                    *)

Logged(r)  == Append(log, [call |-> r, refused |-> FALSE])
Refused(r) == Append(log, [call |-> r, refused |-> TRUE])

\* Mutants of WriteLog: Sync writes a record; the engine's lock protects the
\* log only.
WriteLogAlways(t) ==
  /\ Goto(t, "log", "tree")
  /\ log' = Logged(request[t])
  /\ UNCHANGED <<lockVars, tree, updating, writersFirst, request, answer, cursor, calls>>

WriteLogAndUnlock(t) ==
  /\ Goto(t, "log", "tree")
  /\ Mutates(request[t])
  /\ log' = Logged(request[t])
  /\ engineMutex' = Released(engineMutex, t)
  /\ UNCHANGED <<treeMutex, tree, updating, writersFirst, request, answer, cursor, calls>>

\* sequence_number_.fetch_add, wal_->Put or wal_->Delete and, with
\* sync_on_write, wal_->Sync.
WriteLog(t) ==
  /\ Goto(t, "log", "tree")
  /\ Mutates(request[t])
  /\ log' = Logged(request[t])
  /\ UNCHANGED <<lockVars, tree, updating, writersFirst, request, answer, cursor, calls>>

\* That Sync fails: the mutation returns its error, and its record stays in
\* the log.
WriteLogFails(t) ==
  /\ Goto(t, "log", "leave")
  /\ Mutates(request[t])
  /\ log' = Refused(request[t])
  /\ answer' = [answer EXCEPT ![t] = "IOError"]
  /\ UNCHANGED <<lockVars, tree, updating, writersFirst, request, cursor, calls>>

\* wal_->Flush() or wal_->Sync(), which no reader of the map can see.
CallWal(t) ==
  /\ Goto(t, "log", "leave")
  /\ ~Mutates(request[t])
  /\ \E status \in {"OK", "IOError"} : answer' = [answer EXCEPT ![t] = status]
  /\ UNCHANGED <<lockVars, dataVars, writersFirst, request, cursor, calls>>

\* wal_->GetStats(): total_writes.
ReadWalStats(t) ==
  /\ Goto(t, "walstats", "leave")
  /\ answer' = [answer EXCEPT ![t] = Len(log)]
  /\ UNCHANGED <<lockVars, dataVars, writersFirst, request, cursor, calls>>

-----------------------------------------------------------------------------
(* The tree and its mutex.                                                 *)

\* unique_lock in BPlusTree::Put and Delete.
LockTreeExclusive(t) ==
  /\ Goto(t, "tree", "update")
  /\ Mutates(request[t])
  /\ CanOwn(treeMutex)
  /\ treeMutex' = Owned(treeMutex, t)
  /\ UNCHANGED <<engineMutex, dataVars, writersFirst, request, answer, cursor, calls>>

\* Mutant of LockTreeShared: MemoryUsage walks the nodes without the lock.
LockTreeUnlessStats(t) ==
  /\ pc[t] = "tree"
  /\ ~Mutates(request[t])
  /\ pc' = [pc EXCEPT ![t] = CASE request[t].op = "get"  -> "read"
                               [] request[t].op = "scan" -> "first"
                               [] OTHER                  -> "memory"]
  /\ CanShare(treeMutex, TreeWriterWaits)
  /\ treeMutex' = IF request[t].op = "stats" THEN treeMutex ELSE Shared(treeMutex, t)
  /\ UNCHANGED <<engineMutex, dataVars, writersFirst, request, answer, cursor, calls>>

\* shared_lock in BPlusTree::Get, in MemoryUsage and in an iterator's Impl.
LockTreeShared(t) ==
  /\ pc[t] = "tree"
  /\ ~Mutates(request[t])
  /\ pc' = [pc EXCEPT ![t] = CASE request[t].op = "get"  -> "read"
                               [] request[t].op = "scan" -> "first"
                               [] OTHER                  -> "memory"]
  /\ CanShare(treeMutex, TreeWriterWaits)
  /\ treeMutex' = Shared(treeMutex, t)
  /\ UNCHANGED <<engineMutex, dataVars, writersFirst, request, answer, cursor, calls>>

BeginUpdate(t) ==
  /\ Goto(t, "update", "finish")
  /\ updating' = TRUE
  /\ UNCHANGED <<lockVars, tree, log, writersFirst, request, answer, cursor, calls>>

\* The end of BPlusTree::Put or Delete, where the tree's lock is released.
FinishUpdate(t) ==
  /\ Goto(t, "finish", "leave")
  /\ tree' = ApplyToTree(tree, request[t])
  /\ answer' = [answer EXCEPT ![t] = StatusOf(tree, request[t])]
  /\ updating' = FALSE
  /\ treeMutex' = Released(treeMutex, t)
  /\ UNCHANGED <<engineMutex, log, writersFirst, request, cursor, calls>>

ReadKey(t) ==
  /\ Goto(t, "read", "leave")
  /\ answer' = [answer EXCEPT ![t] = tree[request[t].key]]
  /\ treeMutex' = Released(treeMutex, t)
  /\ UNCHANGED <<engineMutex, dataVars, writersFirst, request, cursor, calls>>

-----------------------------------------------------------------------------
(* Range scans: RangeScanJson, HandleScan and the iterator they use.       *)

\* Position of the first key at or after k and before limit; limit if none.
NextKey(k, limit) ==
  LET ks == {j \in Stored(tree) : j >= k /\ j < limit}
  IN  IF ks = {} THEN limit ELSE CHOOSE j \in ks : \A i \in ks : j <= i

\* FindFirst, in the iterator's constructor.
FindFirst(t) ==
  /\ Goto(t, "first", "opened")
  /\ cursor' = [cursor EXCEPT ![t] = NextKey(request[t].first, request[t].limit)]
  /\ answer' = [answer EXCEPT ![t] = << >>]
  /\ UNCHANGED <<lockVars, dataVars, writersFirst, request, calls>>

\* Mutant of LeaveOpened: the iterator does not keep the tree's lock.
LeaveOpenedUnlocked(t) ==
  /\ Goto(t, "opened", "scan")
  /\ engineMutex' = Released(engineMutex, t)
  /\ treeMutex' = Released(treeMutex, t)
  /\ UNCHANGED <<dataVars, writersFirst, request, answer, cursor, calls>>

\* NewIterator returns: the engine's lock is released, the tree's is not.
LeaveOpened(t) ==
  /\ Goto(t, "opened", "scan")
  /\ engineMutex' = Released(engineMutex, t)
  /\ UNCHANGED <<treeMutex, dataVars, writersFirst, request, answer, cursor, calls>>

AtEnd(t) == cursor[t] >= request[t].limit

\* One round of the caller's loop: key(), value(), Next().
ScanNext(t) ==
  /\ pc[t] = "scan"
  /\ ~AtEnd(t)
  /\ answer' = [answer EXCEPT ![t] = Append(@, <<cursor[t], tree[cursor[t]]>>)]
  /\ cursor' = [cursor EXCEPT ![t] = NextKey(@ + 1, request[t].limit)]
  /\ UNCHANGED <<lockVars, dataVars, writersFirst, pc, request, calls>>

\* Mutant of CloseIterator: the caller forgets to delete the iterator.
LeakIterator(t) ==
  /\ Goto(t, "scan", "return")
  /\ AtEnd(t)
  /\ UNCHANGED <<lockVars, dataVars, writersFirst, request, answer, cursor, calls>>

\* The caller deletes the iterator.
CloseIterator(t) ==
  /\ Goto(t, "scan", "return")
  /\ AtEnd(t)
  /\ treeMutex' = Released(treeMutex, t)
  /\ UNCHANGED <<engineMutex, dataVars, writersFirst, request, answer, cursor, calls>>

-----------------------------------------------------------------------------
(* Statistics after GetWalStats.                                           *)

\* Size, NodeCount and Height: plain members, read with no lock.
ReadCounters(t) ==
  /\ Goto(t, "counters", "tree")
  /\ UNCHANGED <<lockVars, dataVars, writersFirst, request, answer, cursor, calls>>

\* MemoryUsage, a walk over every node.
ReadMemory(t) ==
  /\ Goto(t, "memory", "return")
  /\ treeMutex' = Released(treeMutex, t)
  /\ UNCHANGED <<engineMutex, dataVars, writersFirst, request, answer, cursor, calls>>

-----------------------------------------------------------------------------
Step(t) ==
  \/ EnterExclusive(t) \/ EnterShared(t) \/ Leave(t) \/ Return(t)
  \/ WriteLog(t) \/ WriteLogFails(t) \/ CallWal(t) \/ ReadWalStats(t)
  \/ LockTreeExclusive(t) \/ LockTreeShared(t)
  \/ BeginUpdate(t) \/ FinishUpdate(t) \/ ReadKey(t)
  \/ FindFirst(t) \/ LeaveOpened(t) \/ ScanNext(t) \/ CloseIterator(t)
  \/ ReadCounters(t) \/ ReadMemory(t)

Next == \E t \in Thread : Invoke(t) \/ Step(t)

Spec == Init /\ [][Next]_vars

\* Threads keep running; no lock is fair, and no thread has to make calls.
FairSpec == Spec /\ \A t \in Thread : WF_vars(Step(t))

-----------------------------------------------------------------------------
(* Properties.                                                             *)

\* Types of the two mutexes, the tree, the log and each call's place.
ConcTypeOK ==
  /\ engineMutex \in [owner : Thread \cup {NoThread}, readers : SUBSET Thread]
  /\ treeMutex \in [owner : Thread \cup {NoThread}, readers : SUBSET Thread]
  /\ writersFirst \in BOOLEAN
  /\ tree \in [Key -> Value \cup {NoValue}]
  /\ updating \in BOOLEAN
  /\ log \in Seq(Entries)
  /\ pc \in [Thread ->
       {"idle", "enter", "log", "tree", "update", "finish", "read", "first",
        "opened", "scan", "leave", "walstats", "counters", "memory", "return"}]
  /\ request \in [Thread -> Requests \cup {NoValue}]
  /\ calls \in Nat

\* Places where a call follows pointers between nodes of the tree.
ReadingNodes == {"read", "first", "opened", "scan", "memory"}

\* Nobody looks at the nodes of the tree while Put or Delete rewrites them:
\* not Get, not an iterator left open by its caller, not MemoryUsage, which
\* comes without the engine's lock (btree.cpp 184, 269, 282, 499, 608).
NodesReadAtRest ==
  updating => \A t \in Thread : pc[t] \notin ReadingNodes

\* The tree its records ask for, but for those that were refused.
Replay(s) == FoldLeft(ApplyEntry, EmptyMap, s)

\* From the log to the end of its change of the tree a mutation has the
\* engine to itself, so two can never swap between log and tree.
InFlight(t) == pc[t] \in {"tree", "update", "finish"} /\ Mutates(request[t])

OneMutationAtATime == \A t, u \in Thread : InFlight(t) /\ InFlight(u) => t = u

\* Mutations reach the tree in the order they were logged, one at a time, and
\* exactly those whose Sync did not fail: what recovery would rebuild from the
\* records that were not refused is what callers have seen, whatever has been
\* refused in between (kv_engine.cpp 39-57, 64-82).
TreeFollowsLog ==
  /\ OneMutationAtATime
  /\ tree = Replay(IF \E t \in Thread : InFlight(t) THEN Front(log) ELSE log)

\* A call has taken effect: a mutation when its lock of the tree is released,
\* a scan when its iterator is at the first key, statistics when the log's
\* have been read.
Done(t) ==
  \/ pc[t] \in {"opened", "scan", "leave", "return", "counters"}
  \/ pc[t] \in {"tree", "memory"} /\ request[t].op = "stats"

PhaseOf(t) == IF pc[t] = "idle" THEN "idle" ELSE IF Done(t) THEN "done" ELSE "pending"

\* A scan is promised its whole answer before it has collected it.
AnswerOf(t) ==
  IF ~Done(t) THEN NoValue
  ELSE IF request[t].op = "stats" THEN "OK"
  ELSE IF pc[t] \in {"opened", "scan"} THEN Items(tree, request[t].first, request[t].limit)
  ELSE answer[t]

\* Every call, a scan with its open iterator included, acts on the map at one
\* instant of its duration.
AM == INSTANCE AtomicMap WITH
  map    <- tree,
  phase  <- [t \in Thread |-> PhaseOf(t)],
  answer <- [t \in Thread |-> AnswerOf(t)]

ImplementsAtomicMap == AM!AMSpec

\* Every call returns: no circle of waiting among the two mutexes, open
\* iterators included, whether or not waiting writers hold readers back.
CallsReturn == \A t \in Thread : (pc[t] # "idle") ~> (pc[t] = "idle")

\* "multiple readers while writes require exclusive access" (README.md:924):
\* nobody reads the tree's counters while a mutation changes them.
CountersReadAtRest ==
  updating => \A t \in Thread : pc[t] # "counters"
=============================================================================
