# A verification development for the persistent B+ tree key-value engine

The repository is a key-value store in C++17: an in-memory B+ tree made
persistent by a write-ahead log, wrapped in an engine that is used by an
interactive CLI, a benchmark and a small REST server. This directory holds
TLA+ modules that model it, the TLC configurations that check them on small
instances, and TLAPS proofs of the results that hold for every instance.

Paths below are relative to the repository. `PROJECT.json` maps every
definition to the lines it translates.

1. [The system](#1-the-system)
2. [The modules](#2-the-modules)
3. [The runs](#3-the-runs)
4. [Bounds](#4-bounds)
5. [Fairness](#5-fairness)
6. [What is proved](#6-what-is-proved)
7. [Where the code and its documents disagree](#7-where-the-code-and-its-documents-disagree)
8. [Only model-checked, and not modelled](#8-only-model-checked-and-not-modelled)
9. [Plan](#9-plan)

## 1. The system

| Component | State | Operations | Correct when |
|---|---|---|---|
| **Write-ahead log** `src/wal/wal.cpp` | files `wal_N.log`; a `std::ofstream` on the newest; `write_buffer`, `buffer_offset`; `current_file_size` | append (`WriteRecord`), `RotateLog`, `Flush`, `Sync`, open, close, `Recover` | copies stay inside the buffer; files stay within their limit; no record is lost, repeated or reordered on its way to the files; what was synced survives; a torn tail is ignored |
| **KV engine** `src/kv_engine.cpp` | the tree, the log, `sequence_number_`, one `shared_mutex` | `Put`, `Delete`, `Get`, `NewIterator`, `Flush`, `Sync`, `Recover`, statistics | it is a map; the tree is the replay of the log; a restart brings back a prefix of the mutations with everything a `Sync` covered; numbers are not used twice |
| **B+ tree** `src/btree/btree.cpp` | nodes by id, a free list, the root, `size_`, `height_`, the chain of leaves, its own `shared_mutex` | `Put`, `Delete`, `Get`, iterators with start and limit, `Verify`, counters | it is an ordered map after any sequence of calls; `Verify` holds; counts are exact; scans return exactly the range |
| **REST server** `src/api/rest_server.cpp` | `running_`, `server_socket_`, the accept thread, one detached thread per connection | `Start`, `Stop`, accept, receive, route, answer, close | everyone gets the answer to their own request; what it says of a mutation is true; only whole requests reach the engine; `Stop` returns |
| **CLI** `src/cli/cli.cpp` | none of its own | commands | (a caller of the engine; `scan` holds an iterator open) |
| **Flush manager** `src/flush/flush.cpp` | a queue of memtables, worker threads, `active_flushes`, `stopping`, two mutexes with a condition variable each | `Start`, `Stop`, `ScheduleFlush`, `WaitForFlushes`, `FlushAll`, `PerformFlush` | every accepted job is flushed and called back once; waiting waits for all of them; no wake-up is lost |
| **MemTable** `src/memtable/memtable.cpp` | a skip list with tombstones, `size_`, `memory_usage_`, `max_sequence_` | `Put`, `Delete`, `Get`, iterators, `Verify` | an ordered map of newest writes; counters agree with the list |
| **SSTable** `src/sstable/sstable.cpp` | a block under construction, restart points, an index, a file | `Add`, `Finish`, `Abandon`; open, `Get`, iterate | what was added is what is read |
| **Flush scheduler** `src/flush/flush.cpp` | four atomic counters | add, subtract, compare | (no caller) |
| **Benchmark**, **status and value types** | none | | |

Flush manager and scheduler, memtable and SSTable are experimental: `KVEngine`
does not use them. A worker of the flush manager takes a memtable from the queue,
walks it with an iterator, hands every entry to an SSTable builder, finishes the
file and calls back.

How the parts interact:

* A mutation holds the engine's mutex exclusively, takes a sequence number,
  writes its record to the log, perhaps syncs the log, and then changes the
  tree under the tree's own mutex. If the sync fails the client gets the error
  and the tree is left alone, although the record is in the log. The log itself
  looks at the status of nothing it does below `Sync`: not of a write, not of
  opening the next file, and not of the `Sync` at the end of `WriteRecord`.
* `Get` and `NewIterator` hold the engine's mutex shared. An iterator keeps the
  *tree's* mutex shared after `NewIterator` has released the engine's, until its
  caller deletes it.
* `Size`, `NodeCount` and `Height` take no lock; `MemoryUsage` takes the tree's
  only.
* The constructor opens the newest log file for appending and then recovers:
  it reads every file in numeric order and applies each record to the tree. A
  failed recovery prints a warning and the engine serves what it has read.
* A REST connection has a thread of its own that nobody waits for. It shares
  the engine and the process's table of descriptors with every other thread;
  `Stop` shares `server_socket_` with the accept loop without synchronisation.

The hard behaviours, which `PROJECT.json` lists as hazards at their lines:
crashes and power losses between any two steps of a mutation, records torn by
them, refused opens and writes and failing fsyncs, rotation between a write and its sync,
callers interleaved under two mutexes one of which is kept past its call, long
sequences of insertions and deletions that split, borrow and merge, recycled
node ids, peers that stall, leave or reset, descriptors closed and handed out
again, stopping while connections or flush jobs arrive, a queue read under the
wrong mutex, and keys shortened against a block that is closed in the meantime.

## 2. The modules

```
  OrderedMap  (maps with ordered keys; range scans as sequences)
   |-- AtomicMap            promise of concurrent calls: each takes effect at an instant
   |-- SequentialMap        promise of the tree: a map, call after call
   |-- EngineConcurrency    the two mutexes       --implements-->  AtomicMap
   |     `-- EngineConcurrencyProofs   (with the refinement, proved; uses FoldProofs)
   |-- BPlusTree            the nodes             --implements-->  SequentialMap
   |     |-- TreeReads        range scans and Verify
   |     `-- BPlusTreeProofs  (uses FoldProofs)
   `-- RestServer           connections and Stop, over the atomic map
         `-- RestServerProofs

  DurableMap                promise of the engine over its log: survives as a prefix
  WriteAheadLog             the log
   |-- WriteAheadLogProofs
   `-- KVEngine             the engine over it    --implements-->  DurableMap, WalSpec
         `-- KVEngineProofs                (with the refinement to DurableMap, proved;
                                            uses WriteAheadLogProofs and FoldProofs)
  FoldProofs                induction over Nat; what a fold computes, step by step

  FlushManager              queue, workers, waiters
   `-- FlushManagerProofs

  TombstoneMap              promise of the memtable: the map of newest writes
  MemTable                  the skip list        --implements-->  TombstoneMap
   `-- SSTableBuilder       blocks, index and file
         `-- TableFlush     PerformFlush: a memtable into a builder; a builder on its own
               `-- TableFlushProofs        (with the refinement, proved; uses FoldProofs)
```

`MC*` modules give the constants their values for TLC. The layers meet at maps:
`KVEngine` and `EngineConcurrency` take the tree to be the map it stores, which
is what `BPlusTree` implements; `RestServer` takes the engine to be an atomic
map, which is what `EngineConcurrency` implements. `FlushManager` takes
`PerformFlush` to be a step that succeeds, fails or ends the process;
`TableFlush` is what happens inside it.

### WriteAheadLog

A byte string is a sequence of cells `[rec, off]`: cell `off` of the encoding of
record `rec`. Contents and checksums are thereby abstracted to "these bytes are
those of that record", while sizes, buffer positions and torn writes are kept.
Two volatile layers lie above the files: `buffer` is
`write_buffer[0..buffer_offset)`, `stream` the bytes the `std::ofstream` holds.
`isOpen` is `current_file.is_open()`; while it is false the last of `files` is only
the place of the next file.

| Action | Code |
|---|---|
| `AppendToCurrent` | `WriteRecord` into the current file: the size test, the three copies each after its own test for room, the advance of `current_file_size`; `syncPending` says that the `Sync` at the end of `WriteRecord` is still to come |
| `RotateAndAppend`, `ReopenAndAppend` | `WriteRecord` through `RotateLog`, with a file to flush and close, and without one. On a disk that refuses things the close may write only part of what was pending, and the open may fail; nobody looks at either |
| `Overrun` | `WriteRecord` when one of its copies runs past the end of `write_buffer`, because the piece is longer than the buffer or because `FlushBuffer` has no file to empty it into. `overrun` keeps the record; what follows is undefined behaviour, and the model ends |
| `Flush` | `FlushBuffer`: the buffer goes to the stream and no further, and nowhere without a file |
| `SyncSucceeds`, `SyncFails` | `Sync`: buffer, stream, then `fsync` of the *current* file. It fails without a file, with a bad stream, when the write of what is pending is refused, or in the `fsync` |
| `StreamWriteFails` | the OS refuses part of a write; the stream goes bad and ignores writes until another file is opened |
| `CloseAndReopen`, `CrashAndReopen` | destructor or crash, then the constructor, whose open may fail too. A killed process loses the buffer and any suffix of the stream; a power loss also takes any unsynced suffix of any file |

### KVEngine

The engine's steps under its exclusive mutex: `LogMutation` (number and record),
`WalSyncOnWrite` (the log's own sync, whose status is dropped), `SyncMutation`
(the engine's sync, whose failure is returned at once), `ApplyMutation`; and
`MutationOverruns`, where `WriteRecord` overruns its buffer. Between
them the disk may fail and the process may crash. Recovery is one action per
iteration of the loop in `Recover`: `RecoverRecord`, `RecoverNextFile` (a short
header, a short body, or a header that asks for more than there is),
`RecoverDone` and `RecoverCorrupt`. A header stitched together from the bytes of two records
has unpredictable sizes, so both outcomes are possible. `history`, `refused`,
`stable` and `replayed` are ghosts.

`DurableMap` is what clients may rely on. A mutation is accepted, then applied;
the engine may stop at any time and comes back as the replay of a prefix of the
accepted mutations, no shorter than what the last successful `Sync` covered.

### EngineConcurrency

Every thread is one caller; a step is the code between two points where another
thread can tell the difference. `std::shared_mutex` is an owner and a set of
readers. Whether waiting writers hold back new readers is left open by the
standard, and by the model: `writersFirst` is chosen once, in `Init`. Changing
the tree takes two steps, `BeginUpdate` and `FinishUpdate`, with `updating` true
in between, so that a reader of half-changed nodes would be seen. `WriteLog` is the
record and the `Sync` after it; `WriteLogFails` is the same when that `Sync` fails: the
record stays in the log, marked as refused, and the call returns its error with the
tree untouched. (A record is refused before it is written only for a key or value of
4 GB and more, which no `Key` or `Value` is.) A range scan
is the loop of `RangeScanJson` and `HandleScan`: it opens an iterator, reads key
by key and deletes the iterator. Statistics are those of `StatsJson` and
`HandleStats`: log counters, tree counters without a lock, memory.

`AtomicMap` has calls that are pending, take effect in one step, or fail with an I/O
error and no effect (`Fail`), and return.
The refinement mapping says where each effect lies: at `FinishUpdate` for a
mutation, at the read for `Get`, and at `FindFirst` for a whole scan. That a
scan read step by step equals `Items` of the map at that one moment is the
content of the refinement.

### BPlusTree, TreeReads

The recursive insertion and deletion of `btree.cpp` on a heap of nodes:
`InsertIntoLeaf`, `SplitLeaf`, `SplitInternal`, `LinkRight`, root growth in
`AfterPut`; `EraseFromLeaf`, `SetSeparator`, `BorrowFromLeft`, `BorrowFromRight`,
`Merge`, `Rebalanced`, `Refreshed`, `Collapsed` in `AfterDelete`; node ids with
the code's last-in first-out free list. `Put` and `Delete` are one step each,
since they hold the tree's mutex throughout. The lambdas of the code that call
themselves (`insert`, `erase`, `first_key_of_subtree`) and the loop of `FindLeaf`
are recursive functions of the node id over `Ids`, so that they can be reasoned
about; what happens at a node on the way back is `InsertUnder` and `EraseUnder`.
The binary searches are one function, `Bisect`. `request` is the last call. It is there
for `SequentialMap`, whose every step is the call recorded in it: the key and value
that change are those of the call, a key that is stored is not reported missing, and
the empty key is refused. That `BPlusTree` implements it says what each `Put` and
`Delete` does and what it returns.

`TreeReads` adds what looks at the whole tree: the iterator's `Seek`,
`LeftmostLeaf` and `NextPosition` with start and limit, whose recursion follows
the chain of leaves, and `Verify`, a translation of `BPlusTree::Verify`.

### RestServer

| State | Code |
|---|---|
| `running`, `serverSocket` | `running_`, `server_socket_` |
| `acceptPc`, `acceptArg` | where `AcceptLoop` is, and the descriptor it has passed to `accept` |
| `stopPc` | `Stop`: exchange, close, forget, join |
| `handler`, `fd`, `got`, `contentLength`, `code` | each connection's `HandleClient`: where it is and its locals |
| `descriptors` | the kernel's table: free, the listener's, or a connection's; the lowest free one is handed out |
| `peer`, `request`, `sent`, `inbox` | the other end: open, closed or reset; what it asks, has sent, has been told |
| `map`, `applied` | the engine, and whose mutation it took |

`Receive` takes the stream in pieces of any size up to `Chunk`, in both loops of
`ReceiveRequest`; the step that completes the header sets `contentLength`. A request
whose request line is followed by no header line (`fields` is FALSE) makes
`header_end - header_start` wrap around, and `ParseContentLength` then searches the
body and the memory behind the buffer. `Lengths` is any length it might find there,
`ParseRunsAway` the search that leaves the process's memory. `CheckRunning` is the
test of `running_` and `ReadSocket` the reading of `server_socket_` for `accept`,
which `Stop` may come between. `Outcomes` is the table of routes with every status the engine
can give. A failed call leaves the served map as it was. (A mutation refused by
its sync is nevertheless logged and returns with the next restart; that is
`KVEngine`'s subject.) `send` reaches whoever owns the descriptor *now*, so that
an answer sent on a stale descriptor would arrive at a stranger. A connection
closed with bytes unread may be reset before its peer has seen the answer.

Two things the platforms differ in are left open: whether closing a listening
socket ends an `accept` that waits on it (`closeWakes`; on Linux it does not),
and whether a `send` to a peer that has reset raises a signal that ends the
process (`killed`, which also stands for a read out of bounds; on POSIX it does).

### FlushManager

Jobs are numbered as they are pushed, so the queue is the interval
`popped+1 .. pushed` and two counters stand for it. A worker goes from its test
of the queue (`Pop`, `Exit`, `Sleep`) through `CountActive`, `FlushAndCall` and
`Uncount` to `NotifyWaiters`; between `Pop` and `CountActive` it holds a job that
no counter shows. `queue_mutex` covers the test and the sleep, so each of the
three is one step. `WaitForFlushes` tests `flush_queue.empty()` under
`wait_mutex`, which does not protect the queue: the two ends are read in two
steps, in either order (`ReadEnd`, then `FoundEmpty` or `FoundMore`), and
`active_flushes` in a third. Both condition variables wake spuriously. `Start`
and `Stop` belong to the one thread that owns the manager; `ScheduleFlush` reads
`running_` and pushes in separate steps, so that it may push after the last
worker has left.

### MemTable, SSTableBuilder, TableFlush

`MemTable` is the list itself: nodes with one forward pointer per level,
`FindGreaterOrEqual` going down the levels with its `prev`, insertion, updates in
place, counters of `SizeModulus` values (2^64 in the code). `RandomLevel` is a
choice of any level. Strings are sequences of letters because both the order and
the shared prefixes of keys matter. `TombstoneMap` is its abstract
specification; the mapping reads the list along level 0.

`SSTableBuilder` has the builder as a record of its fields and each method as a
function of it. A block is a sequence of entries with the length of the prefix
each shares with the key before it; `closed` keeps all blocks as a ghost, `file`
those written while the file was open. `DecodeNext` is a reader that goes through
the blocks in order and carries the last key from one block to the next.

`TableFlush` starts in one of two ways: a memtable is filled by any calls and
then goes through `PerformFlush` (`StartScan`, `ScanStep`, `FinishScan`, or
`FlushNothing` when `size_` is 0), or a caller drives a builder with `CallAdd`,
`CallFinish` and `CallAbandon` in any order. `Finish` may fail to open its file,
and ends the process when the index has an entry (section 7).

## 3. The runs

| Run | Question | Properties |
|---|---|---|
| `engine_process_crash` | Is anything lost or reordered between client and file, over four mutations and up to three restarts? | `KVTypeOK`, `LogHoldsHistory`, `ImplementsDurableMap` |
| `engine_power_loss` | With the log syncing each write, does what returned survive a power loss, across rotations? | `ImplementsDurableMap`, `StableSurvives` |
| `engine_disk_faults` | When opens, writes and fsyncs fail, a value is longer than `write_buffer`, and two killed processes or power losses tear records: what is on the medium when a mutation returns, does recovery end with the right tree and fresh numbers, do files keep their limit, and what can overrun the buffer? | `TreeIsReplay`, `SequenceFresh`, `FilesWithinLimit`, `BufferFits`, `ReturnsDurable`, `RecoveryTerminates` |
| `conc_calls` | Are concurrent calls atomic, refused ones included, and does every one return? | `ConcTypeOK`, `NodesReadAtRest`, `TreeFollowsLog`, `ImplementsAtomicMap`, `CallsReturn` |
| `tree_calls` | Is the tree an ordered map, well formed, with exact counts and scans, after any calls? | `TreeTypeOK`, `AlwaysVerified`, `BookkeepingExact`, `ScansAreExact`, `ImplementsSequentialMap` |
| `rest_clients` | With connections, `Stop`, reused descriptors and bad peers interleaved, does each get its own answer, and does everything end? | `OwnAnswers`, `OneLateClient`, `Answered`, `StopReturns` |
| `rest_routes` | On every route, with requests cut up or cut off anywhere, are answers true and requests whole? | `RestTypeOK`, `AnswersAreTrue`, `WholeRequestsOnly` |
| `flush_jobs` | Is each job handled once, what can `WaitForFlushes` miss, and does everybody get on? | `FlushTypeOK`, `JobsHandledOnce`, `WaitLeavesOnlyTaken`, `JobsFinish`, `CallsEnd` |
| `table_flush` | Is the skip list the map of newest writes, are its counters right, and do the blocks hold what was flushed? | `TableTypeOK`, `LookupsFindEntries`, `CountersExact`, `FlushTakesTable`, `BlocksHoldEntries`, `ImplementsTombstoneMap` |
| `engine_torn_tail` | (violation) Is a torn tail always ignored? | `TornTailIgnored` |
| `engine_sync_after_rotation` | (violation) Does `Sync` make the log durable after a rotation? | `StableSurvives` |
| `conc_counters` | (violation) Do reads of the counters exclude writers? | `CountersReadAtRest` |

What the passing runs say, beyond "no error":

* `LogHoldsHistory` compares the records whose last byte is in the files, the
  stream and the buffer, file after file, with the mutations accepted: every
  path through the three copies, the flushes between them and the rotations is
  covered.
* `BufferFits` names the two ways in which a copy leaves `write_buffer`, and says that
  there is no third. The code tests for neither: a header, key or value longer than the
  whole buffer, and a file that could not be opened. The run reaches both.
* `ReturnsDurable` looks at the bytes: when a mutation returns OK, what is on the medium
  of the current file ends with its record. It holds on the faulty disk when the engine
  syncs. With the log's own `sync_on_write` it holds only where no fsync fails, since
  `WriteRecord` drops the status of its `Sync`; the property's condition says so.
* `FilesWithinLimit` allows a file on a faulty disk what was waiting in `write_buffer`
  when it was opened late (`Leftover`), which `current_file_size` does not count.
* `TreeIsReplay` leaves out of the replay exactly the mutations that returned an
  error from `Sync`; after a restart they count. The engine thus may make a
  mutation visible after telling its client that it failed, and only then.
* `StableSurvives` holds with `WalOptions::sync_on_write`, the REST server's
  setting, because each record is synced before the next one can rotate the
  file. It fails without that setting (section 7).
* `SequenceFresh` is conditional on no recovery having failed. After a failed
  one `sequence_number_` stays 1 and old numbers are issued again.
* `CallsReturn` includes scans that hold the tree's mutex while writers that
  hold the engine's wait for it. It rests on a fact about the callers: neither
  `RangeScanJson` nor `HandleScan` calls the engine while its iterator is open.
  A caller that did could wait for itself.
* `StopReturns` has an exception, and needs it: on a platform where close does not wake a
  waiting `accept`, and only there, `Stop` waits for one more connection.
* `WholeRequestsOnly` bounds the header of a request that reaches the engine by
  `MaxHeader + Chunk`: the limit is tested before `recv`, not after. Of requests with no
  header line it claims nothing but that they are the only ones whose stored value may
  not be their body.
* `TreeFollowsLog` counts records whose `Sync` failed as logged and not applied, in
  whatever order they fall between others.
* `OneLateClient`: one connection may be accepted after `Stop` has begun, since
  the loop looks at `running_` only between two accepts; never two.
* `WaitLeavesOnlyTaken` states exactly what `WaitForFlushes` lets through: jobs a
  worker has taken and not yet counted. The unprotected reads of the queue's two
  ends let nothing else through, because `popped` never overtakes `pushed`.
* `JobsFinish` is about jobs that are in the queue while a worker is still there.
  A job pushed after the last worker has left stays in the queue, and a caller
  that waits for it waits until the next `Start`; `CallsEnd` names that exception.
* `CountersExact` says how far `size_` is off: by one for every `Put` that revived
  a deleted key. `FlushTakesTable` has the same condition: with `revived = 0` a
  flush that returns OK dropped nothing but tombstones.
* `BlocksHoldEntries` holds for a reader that keeps the last key across blocks.
  The code's own reader does not (section 7).

Each property of a passing run has a mutant in `PROJECT.json`: a form of one of
the code's definitions with a plausible mistake (a flush that forgets to reset
the buffer, a recovery that skips deletes, an iterator that drops its lock, a
split that forgets the values, a close without a return), under which TLC finds
the property violated. The mutated forms stand in the modules next to the
definitions, with a comment that starts "Mutant of".

`CHECK_DEADLOCK FALSE` is set throughout: each model stops when its bound on
calls, connections or restarts is used up, and the system itself may sit idle.
Being stuck is instead a violation of the liveness properties.

## 4. Bounds

**Log and engine.** Sizes are in cells: header 2, key 1 or 0 (the empty key),
value 1 or 2, buffer 3, file 9. Records have 2 to 5 cells, so that a record can
be larger than the buffer, a copy can fill the buffer exactly or miss by one,
two records share a file and a third rotates, by one cell or exactly not.
`MaxSequence` is 4 in the runs of killed processes and of power losses: three
mutations reach a second file and the fourth follows the rotation.
`engine_disk_faults` has one key and two values, so a put has 4 cells and a
delete 3, a buffer of 2 that every record outgrows and that the second value, of 3,
outgrows alone, a file of 8 that two puts
fill exactly and that a torn record followed by two whole ones rotates, two
mutations and two crashes of either kind: one record torn, one behind it, and a
recovery of both. Any open may fail, and with the first of two records in a buffer that
has no file the second runs past its end. The three passing runs have 1,033,740, 182,245
and 850,732 states. `MaxRestarts` is 1 to 3; `CrashKinds`, `TornWrites` and
`Faults` choose the environment.

**Concurrent calls.** Three threads and three calls, of any kinds, on two keys:
a writer inside, a scan holding the tree, and a third thread waiting for either
mutex. A put and a delete of one key show the order of writes. The proofs in section 6
lift the safety results and the refinement to any number of threads and calls.

**Tree.** Up to 3 or 4 keys a node (`NodeSizes` 2, which the constructor raises
to 3, and 4): even and odd splits. Any four calls on the empty tree, on trees of
ten keys inserted upwards and downwards, which have three levels, and on the same
trees thinned until any deletion can merge up to the root. The scans start and
end before, at, between and past the keys, with and without limits. The run's `VIEW`,
`CurrentTree`, tells states apart by everything but `request`, the record of the last
call: no action reads it and no invariant does, and each step is checked against
`SequentialMap` when it is taken.

**REST server.** Two connections and two descriptors, one of which the listener
needs: connections compete for the other, and it is reused at once. Or one
connection and eighteen requests, one for every kind of route and refusal, a body
longer than declared, a header beyond `MaxHeader` that fits if it comes in
one piece, one that never fits, and two requests with no header line. `Chunk` is 2, `MaxHeader` and `MaxBody` 1, so that pieces straddle
the end of the header and of the body. `Start` may follow `Stop` any number of
times.

**Flush manager.** Two workers, two callers that schedule two jobs between them,
one that waits any number of times, and two calls of `Start`: a job can be taken
by one worker while the other leaves, two jobs can be in different hands, and a
job can be pushed while `Stop` is under way and be met by the next `Start`. The
proofs lift the safety properties to any number of each.

**Tables.** Three keys, the empty one and two that share a prefix; the empty value
and one of two letters; two sequence numbers, in any order; levels 1 and 2.
`SizeModulus` is 4, so that `size_` and `memory_usage_` wrap, and calls are
unbounded: the state space is finite without a bound on them. A block of 6 cells
takes one or two entries, so blocks close in the middle of a flush;
`RestartInterval` 2 puts a restart point into a block; `SeqModulus` 2 cuts
sequence numbers. A caller adds up to `MaxAdds` = 3 entries of its own and calls
`Finish` again until the offset has passed `MaxOffset` = 24.

## 5. Fairness

* `KVEngine`: weak fairness of `Recovery`. The constructor calls `Recover`,
  which runs its loop to the end before anything else happens. Crashes are
  bounded by `MaxRestarts`, as a machine that never stays up recovers nothing.
* `EngineConcurrency`: weak fairness of each thread's `Step`: the scheduler runs
  every thread that can run. `Invoke` is not fair, as no caller has to call,
  and the mutexes are not fair either. Starvation by an endless stream of other
  callers is outside a model with `MaxCalls`.
* `RestServer`: weak fairness of the accept loop, of a `Stop` that has begun and
  of each `HandleClient`, while the process is alive. Peers need not send, read
  or leave, and nobody has to call `Stop`. An accept loop that spins because no
  descriptor is left still takes steps, and `StopReturns` holds in spite of it.
* `FlushManager`: weak fairness of each thread's own steps, of a `ScheduleFlush`
  or `WaitForFlushes` under way, and of a `Stop` that has begun; strong fairness
  where a thread needs `wait_mutex`, which others take and release again and
  again, spurious wake-ups included: a thread that asks for a mutex that is free
  again and again obtains it in the end. Nobody has to call anything, and wake-ups
  are not assumed to be spurious.

## 6. What is proved

All for every value of the constants that satisfies the named assumptions:
`SizesAssumption`, `FlagsAssumption` (types; a tombstone is not a value; the buffer has
at least one byte, as the constructor's `std::max` sees to),
`EngineAssumption`
(types; no tree is the mark for "not serving"), `CallsAssumption`, `TreeAssumption`, `ServerAssumption` and the `FlushAssumption`
of `FlushManager` (types and distinct model values), `TableAssumption` (types; the
empty string is a value and 0 no sequence number) and `BuilderAssumption` (types; a
block can hold the header of an entry). TLC evaluates each of them in the runs.

| Theorem | Says |
|---|---|
| `WriteAheadLogProofs!LogInvariant` | the log keeps `LogInv` |
| `OnlyTwoWaysToOverrun`, `FilesNeverOutgrowLimit` | `BufferFits` and `FilesWithinLimit`, for every mix of sizes, failures and crashes |
| `SizeAlwaysCoversFile` | `current_file_size` is never less than what file, stream and buffer hold, less what a file opened late found in the buffer |
| `KVEngineProofs!EngineTypes` | `KVTypeOK` |
| `EngineUsesLog` | the engine implements the log's specification: it uses the log in no other way than `WalSpec` allows |
| `EngineBufferFits`, `EngineFilesWithinLimit` | the same two, for the engine |
| `ReturnsAreDurable` | `ReturnsDurable`: a mutation that returns OK has its record at the end of what is on the medium, if the engine syncs, or if the log does and the disk refuses nothing |
| `TreeIsAlwaysReplay` | `TreeIsReplay`, whatever crashes, torn records and refused writes came before |
| `SequenceNumbersStayFresh` | `SequenceFresh`, under the same conditions as the run: as long as no recovery has failed, no number is used twice |
| `EngineIsDurable` | `ImplementsDurableMap` under `RecoverySound` (below): the engine over its log is a `DurableMap` |
| `StableAlwaysSurvives`, `TornTailAlwaysIgnored`, `LogAlwaysHoldsHistory` | `StableSurvives`, `TornTailIgnored` and `LogHoldsHistory` under `RecoverySound` |
| `EngineConcurrencyProofs!ConcTypes` | `ConcTypeOK` |
| `NodesAreReadAtRest` | for any number of threads, nobody reads nodes while they are rewritten |
| `MutationsOneAtATime` | at most one mutation is between its log record and the end of its change |
| `TreeAlwaysFollowsLog` | `TreeFollowsLog`: for any number of threads the tree is the replay of the records not refused, up to the one mutation logged and not yet applied |
| `EngineIsAtomic` | `ImplementsAtomicMap`: every call, a range scan included, takes effect at one instant or fails without any, for any number of threads |
| `RestServerProofs!ServerInvariant`, `ServerTypes` | the server keeps `ServerInv`, of which `RestTypeOK` is a part |
| `AnswersAreOwn`, `AnswersTellTheTruth`, `RequestsAreWhole`, `AtMostOneLateClient` | the server's four safety properties, for any number of connections and descriptors and any requests |
| `FlushManagerProofs!FlushInvariant`, `FlushTypes` | the manager keeps `FlushInv`, of which `FlushTypeOK` is a part |
| `JobsAreHandledOnce`, `WaitMissesOnlyTaken` | `JobsHandledOnce` and `WaitLeavesOnlyTaken`, for any number of workers, callers and jobs |
| `TableFlushProofs!TableInvariant`, `TableTypeCorrect` | the memtable keeps `TableInv`, from which `TableTypeOK` follows |
| `TableLookups` | `LookupsFindEntries`: for any keys and any writes, each search ends where the list says, and the list is in order |
| `TableCountersExact` | `CountersExact`: both counters are right modulo any `SizeModulus`, so for 2^64 |
| `TableImplementsMap` | `ImplementsTombstoneMap`: the memtable is a `TombstoneMap` |
| `TableFlushInvariant`, `FlushTakesEntries` | the flush keeps `FlushInv`; `FlushTakesTable`, for any table with no more nodes than `size_` can count |
| `FlushBlocksHold` | `BlocksHoldEntries`, for any block size, restart interval and header, any entries and any calls of `Add`, `Finish` and `Abandon` |
| `BPlusTreeProofs!TreeInvariant`, `TreeTypeCorrect` | the tree keeps `TreeInv`, from which `TreeTypeOK` follows; so no `Put` or `Delete` meets an invalid node or child index and returns `InternalError` |
| `TreeBookkeeping` | `BookkeepingExact`: whatever is split, borrowed, merged, grown or collapsed, no node leaks, is freed twice or is shared, and `node_count_`, `height_` and `root_is_leaf_` describe the tree under the root |

**The log.** None of the bounds is inductive alone. A file stays within its
limit because `currentFileSize` bounds it *together with* what stream and buffer
still hold, and because rotation tests that number; the number in turn is right
after a restart because a crash only shortens files. `LogInv` is therefore
types; the bound of `buffer` and `BufferFits`; that without a file nothing is in the
stream or in the place of the next file (`ClosedEmpty`) and that a disk that refuses
nothing keeps the file open and the stream good (`Healthy`); `SizeCoversFile`; that
no more of a file is synced than it holds; and, if every record
fits a file, the limit on every file, and on the current one together with what may still
go into it (`Total`). `BufferFits` holds because with a file open a copy
that finds no room finds an empty buffer (`MadeRoom`), which only an oversized piece overruns. The copies of one record are looked at one by one (`Copies`), as the
room for the second depends on the first. All operations
that move bytes downwards are instances of one lemma (`MovePreservesLogInv`).

**The engine.** Every action of `KVEngine` is an action of `WalNext` or leaves
`walVars` alone (`EngineStepsLog`); with `EngineTypeOK` that gives
`Spec => WalSpec`, and the log's theorems carry over. The records recovery finds
are records because cells in files are (`FoundIsRecord`).

`ReturnsAreDurable` rests on `SyncedInv`: while a mutation is in progress
and the stream is good, the bytes of the current file, the stream and the buffer end
with its record, so that a `Sync` that succeeds leaves that record on the medium; and
at `"apply"` it is there, or the log's own `Sync` is still to come and cannot fail.
`SyncsBeforeApply`, the condition inside the property, cannot be dropped:
with the log syncing and a disk that refuses writes, `WriteRecord` drops the
status of its `Sync` and the mutation returns OK all the same (a hazard in
`PROJECT.json`).

**Replays.** `Replayed` and `Replay` are folds, and the library's induction takes
an operator the provers cannot instantiate. `FoldProofs` goes another way. From
the well-ordering of Nat it derives induction for *sets* of numbers
(`SetInduction`), and with it that a fold exists, is unique and takes the
intended steps (`FoldsExist`, `AccumulationUnique`, `FoldsAccumulate`), where the
step is a function and so an ordinary value. What follows about a replay is then
one equation: a record appended to the sequence is applied to the result, or
passed over when it is among those refused (`ReplayedAppend`). `ReplayInv` adds what the tree is in the middle
of a call (the replay without the mutation in hand) and of a recovery (the
replay of what has been read).

**What recovery reads.** The bytes of a file and those on their way to it are its
*pipe*: `files[i]`, followed for the current file by the stream and, unless the
stream has gone bad with its file open, the buffer (`Carries`; with no file open the
buffer waits for the next one). Flushes, syncs and destructors move bytes inside a
pipe (`SamePipes`), `WriteRecord` adds one encoding to the current one or starts a new one,
and refused writes and crashes cut off an end (`PipesCut`); a restart may besides add an
empty pipe, or drop one whose file was never opened (`PipesReopened`). A pipe is `Parsed`
into a list of records at known positions, after which comes nothing or a
record of which a proper prefix is there, followed by nothing or by the first
byte of another. `ReadsNext` and `ReadsNoMore` say that `Recover` delivers
exactly that list, and that it goes to the next file without an error if nothing
follows the torn record (`CleanEnd`). Cutting a pipe shortens its list and
leaves such an end (`ParsedCut`); appending extends the list, or, behind a torn
record, leaves it as it is (`ParsedAppend`).

`SequenceFresh` follows from `FreshInv`: the lists of all files, one after the
other, carry increasing numbers below `sequenceNumber`; during a recovery
`replayed` is what the files already read and the records before `readPos`
hold, so that the largest number seen bounds them all. It needs no assumption on
the disk: a record that the stream swallowed or a crash took had a number that
is then not in any file, and a smaller next number is still above those that are.

**Durability.** `EngineIsDurable`, `StableAlwaysSurvives`, `TornTailAlwaysIgnored`
and `LogAlwaysHoldsHistory` assume `RecoverySound`:

* the disk refuses nothing (`~Faults`; a refused write is lost and the mutation
  may still return OK, see `ReturnsAreDurable`);
* a power loss meets only an engine that syncs what it applies (`SyncOnWrite` or
  `EngineSyncOnWrite`; without one the run `engine_sync_after_rotation` is the
  counterexample);
* there is at most one restart, or no crash tears a record and crashes are all of
  one kind. Torn records are the run `engine_torn_tail`. Mixed kinds are the same
  loss as the second condition's: a killed process leaves unsynced bytes in a
  file that the restarted engine rotates without syncing, and a power loss then
  takes them from the middle of the log.

The two passing runs that check the refinement, `engine_process_crash` and
`engine_power_loss`, satisfy it. It constrains the environment and the options,
not the sizes, the number of mutations or what is logged.

The inductive invariant is `DurableInv`, on top of the types. `SettledInv` says
when nothing is in flight: at rest and in a recovery no `Sync` is due, and with power
losses ahead everything is on the medium between two calls. `KeepsInv` says, as
long as a crash or a recovery is still to come, that the lists of the files put
together are the start of the history with everything stable (`Holds`, over
`Split`), that no crash can reach anything but the end of the current file and
nothing stable there (`Intact`), and that a recovery has delivered the mutations
before its position and will meet nothing garbled (`Readable`). `ReplayInv`
turns the history into the tree, and `NothingLost` says that no mutation was
refused and no recovery failed. Each was checked with TLC before it was proved.
Every step is then one of `DurableMap` or invisible there (`EngineStepsMap`);
the step that matters is `RecoverDone`, which ends with the prefix `Readable`
promises (`RecoverDoneReturns`).

`LogHoldsHistory` also covers the time after the last restart, when `KeepsInv`
need not hold: torn bytes may then lie before whole records. `HeldInv` therefore
counts the records whose last byte is in a pipe (`RecordedIn`, again a fold). An
appended encoding adds one whatever lies before it (`RecordedMore`), and after a
recovery they are the records that were read (`RecordedParsed`).

**Concurrent calls.** `ConcInv` says which places in the code hold which mutex,
in both directions (`TreeMutexHeld`, `EngineMutexHeld`), which calls can be at
which place (`CallsInPlace`), and that `updating` is true only while some thread
is about to finish. `NodesReadAtRest` follows, as an owner excludes readers.
The direction from mutex to place matters as much as the other, or releasing a
lock would not be known to free it.

**Atomicity.** Most calls take effect in the step that reads or changes the tree.
A scan takes effect when its iterator is opened and collects its answer
afterwards, so the mapping answers it with `Items` of the tree from then on, and
the invariant `ScansHold` says that what has been collected is `Items` up to the
iterator's key, which is a key of the tree or the end. A step of the scan keeps
that because no stored key lies between two positions (`NextKeyIsNext`, from the
least element of a finite set of integers) and because `Items` up to a key and
`Items` up to the one after it differ by that key's pair (`ItemsExtend`). Another
thread's step keeps it because the scan shares the tree's mutex and only the
owner of that mutex reaches `FinishUpdate`. Each action is then a step of
`AtomicMap` (`AtomicSteps`) or invisible there (`HiddenSteps`).

**The server.** `ServerInv` is: a connection's descriptor is its own in the table
exactly while its handler holds it (`DescriptorsHeld`) and the listener's is known
to `Stop` (`ListenerHeld`); an inbox holds at most one answer, its own, and true
(`AnswersHeld`); a handler past receiving has everything its header declares
(`RequestsComplete`); the count of late connections follows the accept loop's
place (`LateHeld`). `OwnAnswers` alone is not inductive: it needs to be known
that the descriptor a handler sends on still leads to its peer.

**The flush manager.** `FlushInv` is the types; where every job is (`JobsHeld`);
`active_flushes` as the number of workers between `CountActive` and `Uncount`
(`ActiveExact`); that workers run only between `Start` and the join (`ThreadsRun`);
and what a waiter knows from the end of the queue it has read (`WaitersKnow`).
The last is why a torn test of the queue is harmless: whichever end is read
first, finding the two equal means that every job pushed before the wait began
had been taken at the second read. `ActiveExact` then leaves only jobs taken
and not yet counted.

**The memtable.** `TableInv` says that there is a sequence `L` of all the nodes
such that level 0 leads from the head through `L` to null, in strictly increasing
order of keys (`Listed`), and that the charges of the nodes of `L` sum up to
`memory_usage_` (`Charged`); that every node but the head has one level, which is
what the null entries of `prev` amount to; and that `size_` counts the live nodes
less `revived`. Its order is the lexicographic one, so the proofs begin with its
being irreflexive, transitive and total (`BeforeIrreflexive`, `BeforeTransitive`,
`BeforeTotal`). A search along `L` stops at the only place where a key can be
(`KeySplits`, `SearchFindsPlace`), so that a write either rewrites the node with
its key or links a new one between two neighbours (`Rewrites`, `Links`); every
step is one of the two, ends the process, or leaves the table alone
(`TableSteps`). The searches and the iterator are recursive functions, and what
they return is shown by induction over the places of `L` with `SetInduction`. The
counters wrap: what is added to one of them is added to the remainder
(`RemainderOfSum`), and `size_` and `revived` wrap together (`BothCount`).

**The builder.** The size of a block, the entries of a sequence of blocks and the
reader are folds, and each gets its equation from `FoldProofs` in the same way (`SizeFolds`,
`EntriesFolds`, `ReadingFolds`): an element more is one step more. `BlocksOK` then
says of a builder and of what it was given that a reader of its closed blocks,
followed by the one in progress, gets it back; that `last_key` is the key of the
last entry, or empty in an empty block; that the index fits the closed blocks;
that restart points are starts of entries; and that the storage is never smaller
than a block may become. The second is the point where shortening a key against a
block about to be closed could go wrong: the prefix is taken from the key that
the reader will have last (`LastKeyShortens`, `ShortenedReadsBack`), whether or
not `FlushBlock` comes in between (`FlushKeepsBlocks`). No header is written
behind its storage because an entry goes into a block that has room for it or is
empty (`EntryGoesIn`). `FlushInv` adds that a scan has taken the first nodes of
`L` and no others, that the key of the last is the builder's `last_key`, which is
why `Add` refuses none, and that a builder that was given anything has an entry in
its block, so that `Finish` ends the process and does not answer OK. The theorem's
condition is on `FlushNothing`: with 2^64 live entries `size_` would be 0 as well.

**The tree.** `BookkeepingExact` speaks of the tree between two calls; in the
middle of one there are several. A split leaves a node that no parent names yet,
and a merge passes children on before their parent is freed. The proofs
therefore see the heap as a forest: `Shape(L, K, lvl, R, top)` says of the ids in
use, `L`, with children `K`, that each is on a level, one below its only parent,
that those without children are on level 0, and that those without a parent are
`R`. The code changes a shape in six ways, each a lemma about sets alone: a root
becomes a child (`Adopts`), a node gives children to a new one (`Divides`), two
share theirs anew (`Shares`), one takes over its sibling's (`Merges`), a new root
is put on top of two (`Roots`), and a root gives way to its only child
(`Uproots`). `Forest` is a shape over a good heap: each node in use is whole (as
many values as keys in a leaf, one child more than keys elsewhere, no child
twice), the free list holds exactly the other ids, once each, and `nodeCount` is
the number of the nodes in use. Allocating and freeing keep it because ids go
from one set to the other and back. `TreeInv` is one forest with one root, on level
`height - 1`, and `maxKeys` at least 3.

Sequences are cut and put together at positions (`Vectors`, `Lists`: a vector
that holds each element of a set once), which is what the edits of keys, values
and children come down to. A bisection ends within the sequence, whatever it
looks for (`BisectionBound`), so that no index is out of range. Of the numbers of
keys only the code's own tests are needed: a node that splits has more than
`maxKeys >= 3` keys, so that both halves keep some, and a node that lends has more
than half as many. Nodes may otherwise be as thin as deletion leaves them and keys
in any order: the bookkeeping does not depend on either.

The recursions (`FindLeaf`, `insert`, `erase`, `first_key_of_subtree`, and
`Depth` and `Subtree` of the property) go down one level at a time, so that each
is defined by what it is one level below, and what it leaves is shown by
induction over levels with `SetInduction`. Going up, `insert` leaves one
root more if it has split (`InsertPost`); `erase` changes nothing at or above
the level of its node but that node (`ErasePost`, `Kept`), which is why the
parent still finds its child where it was. The preloads of `Init` are a fold over
calls, taken step by step with `FoldProofs` (`PreloadKeepsTree`).

## 7. Where the code and its documents disagree

Each has a run whose counterexample shows it, and an entry under `findings`.

1. **Appending behind a torn record** (`engine_torn_tail`). `README.md:396`
   says that a trailing partial record is ignored. It is, once. But the
   constructor reopens that file for appending, the next record is written
   behind the partial one, and the recovery after that reads the two together:
   it reports Corruption, loses every later record, and leaves
   `sequence_number_` at 1.
2. **Sync after rotation** (`engine_sync_after_rotation`). `README.md:82` says
   that `/sync` durably synchronizes the log. `Sync` opens and fsyncs the current
   file only, and `RotateLog` closes the previous one without an fsync.
3. **Counters** (`conc_counters`). `README.md:924` and `REST_API.md:122` say that
   reads and writes are protected by a `shared_mutex`. `Size`, `NodeCount` and
   `Height` read plain members with no lock while other threads change them, a
   data race.

Others are in the models as the code has them, without a run of their own:

* **Flush** (`wal.cpp:371`). `README.md:404-408` says that flush flushes the C++
  stream buffers. `WriteAheadLog::Flush` moves `write_buffer` into the stream and
  stops there (`Flush`).
* **Waiting for flushes** (`flush.cpp:46`). `flush.h:61` says that
  `WaitForFlushes` waits for all pending flushes. A job between the queue and
  `active_flushes` is missed (`WaitLeavesOnlyTaken`).
* **A flush with OK that writes nothing** (`flush.cpp:68`). A table whose `size_`
  is 0 is let go, although it may hold tombstones, or live entries that `size_`
  has lost when a `Put` revived a deleted key (`memtable.cpp:237`).
* **Tall nodes** (`memtable.cpp:106`). A node taller than the list follows null
  entries of `prev` and ends the process, so every list that survives has one
  level.
* **Finish** (`sstable.cpp:288`). `sstable.h:73` says that it finalizes the file.
  With an entry in the index it takes the address of the first byte of an empty
  vector before growing it, and writes there. Blocks that fill up before that are
  lost besides: they are written to a file that only `Finish` opens
  (`sstable.cpp:243`).
* **Reading** (`sstable.cpp:753`, `921`). The reader starts each block with an empty
  last key, while `AddToBlock` may have shortened the block's first key against
  the previous block (`sstable.cpp:198`). The footer's checksum is written as 0
  (`sstable.cpp:490-493`) and compared with the computed one (`sstable.cpp:570`),
  so that no file is opened at all.
* **A moved-from manager** (`flush.cpp:131-133`) keeps `running_` true without an
  implementation behind it.

* **A request with no header line** (`rest_server.cpp:427`). `header_end` is then two less
  than `header_start`, the difference wraps around, and the search for a
  `Content-Length` goes through the body and on behind the buffer. It finds none, or
  whatever stands there, or leaves the process's memory (`Lengths`, `ParseRunsAway`).
* **The status of a `Sync`** (`wal.cpp:187`). `WriteRecord` drops it, so that with
  `sync_on_write` alone a mutation returns OK although its fsync failed.
* **Room in `write_buffer`** (`wal.cpp:157-179`, `193-197`). A piece longer than the buffer, or
  a file that did not open, takes a copy past its end (`Overrun`).

Hazards that no property covers have a note in `PROJECT.json` saying why: a signal or
a null pointer that ends the process, the reset that may overtake a refusal, and the
destruction of an engine under detached threads.

## 8. Only model-checked, and not modelled

Only model-checked:

* liveness (`RecoveryTerminates`, `CallsReturn`, `Answered`, `StopReturns`,
  `JobsFinish`, `CallsEnd`), which needs fairness and ENABLED, out of the prover's
  reach;
* the order of keys in the tree: `AlwaysVerified`, `ScansAreExact` and the
  refinement to `SequentialMap`. The proofs about `BPlusTree` cover the shape of
  the tree and the heap. What is in a node, and thus what `Get` finds, needs an
  invariant that gives every subtree its range of keys, on top of the shape. The scans
  and `Verify` are recursive operators, beyond the prover as they stand;
* what happens outside `RecoverySound`: what a restart behind a torn record, after a
  refused write or after an unsynced rotation recovers. The violating runs show
  what is lost; `TreeIsReplay` and `SequenceFresh` hold there too and are proved.

Not modelled:

* the SSTable reader, the Bloom filter and the footer: no builder completes a file
  with an entry, and `Open` refuses every file (section 7), so that the reader has
  no state it could be in; what a reader of the blocks would find is in
  `BlocksHoldEntries`;
* `FlushScheduler`: four atomic counters without a caller, which nothing relates;
* the CLI's command parsing, printing, the benchmark and JSON text: input and
  output without state;
* in the log: transaction markers and explicit rotation (no caller), what happens after
  `write_buffer` is overrun, keys and values of 4 GB and more, a file that `Recover`
  cannot open and passes over, move operations;
* in the engine: `enable_wal = false`, calling `Recover` again, move operations;
* in the tree: `SeekToLast`, move operations, figures of `MemoryUsage`;
* in the server: destruction while connections run, failing thread creation, and
  partial sends, of which the peer would see a prefix;
* in the memtable: `DeleteNode` and `FindLessThan` (no caller), and `Prev`, which
  only sets an error; in the flush manager: `NeedsFlush` and `PendingFlushes`, which
  change nothing, and the move operations.

## 9. Plan

Written in this order: `WriteAheadLog` and its proofs; `DurableMap` and `KVEngine`,
the heart of the system; `AtomicMap` and `EngineConcurrency`; `SequentialMap` and
`BPlusTree`; `RestServer`; then the experimental storage code, `FlushManager`,
`MemTable`, `SSTableBuilder` and `TableFlush`; then the proofs that the engine is
atomic, that it is durable, that a memtable and its flush keep every entry, and that
the tree's heap is one tree. The order is that of what a failure would cost: durability, then
consistency, then the tree, then the interface, then what nothing uses yet.

What is left, in order of worth:

1. The engine's durability under concurrent callers: `KVEngine` driven by the
   threads of `EngineConcurrency`, so that the order in the log of one is the order
   the other recovers. `MutationsOneAtATime` already says that mutations pass log
   and tree singly.
2. The order of keys in the tree: an invariant that gives every subtree its range of
   keys and every leaf its place in the chain, added to `Forest`, and with it the
   refinement to `SequentialMap`. The six changes of shape and the inductions over
   levels are there to carry it.
3. `Print` and `Verify` as concurrent calls, which take the same locks as
   `MemoryUsage`.
4. The SSTable reader, once `Finish` completes files that `Open` accepts.
