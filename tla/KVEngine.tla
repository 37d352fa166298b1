------------------------------ MODULE KVEngine ------------------------------
(***************************************************************************)
(* KVEngine of src/kv_engine.cpp over its write-ahead log: mutations that  *)
(* are logged, perhaps synced, then applied to the tree; restarts; and the *)
(* recovery that rebuilds the tree from the log.                           *)
(*                                                                         *)
(* Every mutation, Flush and Sync holds the engine's mutex exclusively, so *)
(* at most one is in progress and its steps interleave only with crashes   *)
(* and disk failures.  Readers and the locks are in EngineConcurrency, the *)
(* tree's nodes in BPlusTree; here the tree is the map it stores.          *)
(***************************************************************************)
EXTENDS WriteAheadLog, SequencesExt

CONSTANTS
  EngineSyncOnWrite,  \* KVEngineOptions::sync_on_write
  NoValue,            \* a key without a value, a call that is not there
  Down,               \* see DurableMap
  MaxRestarts         \* bound: crashes and shutdowns in a behaviour

ASSUME EngineAssumption ==
  /\ EngineSyncOnWrite \in BOOLEAN
  /\ NoValue \notin Value
  /\ Down \notin [Key -> Value \cup {NoValue}]
  /\ MaxRestarts \in Nat

VARIABLES
  tree,             \* the contents of tree_
  sequenceNumber,   \* sequence_number_
  pc,               \* where the call holding the engine's mutex is
  op,               \* the record of the mutation in progress
  readFile,         \* Recover: the file being read, and
  readPos,          \*          the bytes of it already consumed
  maxSequence,      \* Recover: max_seq
  recovery,         \* whether any Recover has reported Corruption
  restarts,
  \* Ghosts: what was asked of the engine, for the properties only.
  history,          \* mutations logged, or recovered by the last restart
  refused,          \* indices in history of mutations that returned an error
  stable,           \* length of history when a Sync last returned OK
  replayed          \* records the current Recover has delivered

engineVars ==
  <<tree, sequenceNumber, pc, op, readFile, readPos, maxSequence, recovery,
    restarts, history, refused, stable, replayed>>

vars == <<walVars, engineVars>>

EmptyKeys == {k \in Key : KeySize[k] = 0}

DM == INSTANCE DurableMap WITH
        log     <- history,
        applied <- IF pc \in {"sync", "apply"} THEN Len(history) - 1 ELSE Len(history),
        store   <- IF pc = "recover" THEN Down ELSE tree

EmptyTree == [k \in Key |-> NoValue]

\* Mutant of TreePut: the empty key is not rejected.
TreePutAny(t, k, v) == [t EXCEPT ![k] = v]

\* BPlusTree::Put (which rejects an empty key) and BPlusTree::Delete.
TreePut(t, k, v) == IF KeySize[k] = 0 THEN t ELSE [t EXCEPT ![k] = v]
TreeDelete(t, k) == [t EXCEPT ![k] = NoValue]

\* RecoveryCallback, and the last step of Put and Delete.
ApplyToTree(t, r) ==
  IF r.val = Tombstone THEN TreeDelete(t, r.key) ELSE TreePut(t, r.key, r.val)

NoOp == NoValue     \* no mutation is in progress

Init ==
  /\ WalInit
  /\ tree = EmptyTree
  /\ sequenceNumber = 1
  /\ pc = "idle"
  /\ op = NoOp
  /\ readFile = 1 /\ readPos = 0 /\ maxSequence = 0
  /\ recovery = "ok"
  /\ restarts = 0
  /\ history = << >> /\ refused = {} /\ stable = 0 /\ replayed = << >>

recoverVars == <<readFile, readPos, maxSequence, recovery, restarts, replayed>>

-----------------------------------------------------------------------------
(* Put and Delete.                                                         *)

\* Take a sequence number and write the record; val is Tombstone for Delete.
LogMutation(k, v) ==
  /\ pc = "idle"
  /\ sequenceNumber <= MaxSequence
  /\ LET r == [seq |-> sequenceNumber, key |-> k, val |-> v] IN
       /\ WriteRecord(r)
       /\ op' = r
       /\ history' = Append(history, r)
  /\ sequenceNumber' = sequenceNumber + 1
  /\ pc' = IF EngineSyncOnWrite THEN "sync" ELSE "apply"
  /\ UNCHANGED <<tree, refused, stable, recoverVars>>

\* The same, when WriteRecord runs past write_buffer.
MutationOverruns(k, v) ==
  /\ pc = "idle"
  /\ sequenceNumber <= MaxSequence
  /\ Overrun([seq |-> sequenceNumber, key |-> k, val |-> v])
  /\ UNCHANGED engineVars

\* The Sync at the end of WriteRecord, whose status WriteRecord ignores.
WalSyncOnWrite ==
  /\ syncPending
  /\ \/ SyncSucceeds /\ stable' = Len(history)
     \/ SyncFails    /\ UNCHANGED stable
  /\ UNCHANGED <<tree, sequenceNumber, pc, op, history, refused, recoverVars>>

\* Mutant of SyncMutation: the caller gets the error, the tree the change.
SyncMutationThenApply ==
  /\ pc = "sync"
  /\ ~syncPending
  /\ pc' = "apply"
  /\ \/ SyncSucceeds /\ stable' = Len(history) /\ UNCHANGED refused
     \/ SyncFails /\ refused' = refused \cup {Len(history)} /\ UNCHANGED stable
  /\ UNCHANGED <<tree, sequenceNumber, op, history, recoverVars>>

\* The engine's own Sync: an error is returned to the client at once, with
\* the record logged and the tree unchanged.
SyncMutation ==
  /\ pc = "sync"
  /\ ~syncPending
  /\ \/ /\ SyncSucceeds
        /\ stable' = Len(history)
        /\ pc' = "apply"
        /\ UNCHANGED <<op, refused>>
     \/ /\ SyncFails
        /\ refused' = refused \cup {Len(history)}
        /\ pc' = "idle"
        /\ op' = NoOp
        /\ UNCHANGED stable
  /\ UNCHANGED <<tree, sequenceNumber, history, recoverVars>>

ApplyMutation ==
  /\ pc = "apply"
  /\ ~syncPending
  /\ tree' = ApplyToTree(tree, op)
  /\ pc' = "idle"
  /\ op' = NoOp
  /\ UNCHANGED <<walVars, sequenceNumber, history, refused, stable, recoverVars>>

-----------------------------------------------------------------------------
(* KVEngine::Flush and KVEngine::Sync.                                     *)

EngineFlush ==
  /\ pc = "idle"
  /\ Flush
  /\ UNCHANGED engineVars

EngineSync ==
  /\ pc = "idle"
  /\ \/ SyncSucceeds /\ stable' = Len(history)
     \/ SyncFails    /\ UNCHANGED stable
  /\ UNCHANGED <<tree, sequenceNumber, pc, op, history, refused, recoverVars>>

DiskRefusesWrite == StreamWriteFails /\ UNCHANGED engineVars

-----------------------------------------------------------------------------
(* Stopping, and the constructor of the next run up to its Recover.        *)

StartRecovery ==
  /\ restarts < MaxRestarts
  /\ restarts' = restarts + 1
  /\ tree' = EmptyTree
  /\ sequenceNumber' = 1
  /\ pc' = "recover"
  /\ op' = NoOp
  /\ readFile' = 1 /\ readPos' = 0 /\ maxSequence' = 0
  /\ replayed' = << >>
  /\ UNCHANGED <<recovery, history, refused, stable>>

Shutdown == pc = "idle" /\ StartRecovery /\ CloseAndReopen

Crash == StartRecovery /\ \E kind \in CrashKinds : CrashAndReopen(kind)

-----------------------------------------------------------------------------
(* Recover: one action per iteration of the loop over a file's records.    *)

Unread == SubSeq(files[readFile], readPos + 1, Len(files[readFile]))

\* The record whose first byte is the first unread byte.
Found == Unread[1].rec

ShortHeader  == Len(Unread) < HeaderSize
HeaderIntact == ~ShortHeader /\ SubSeq(Unread, 1, HeaderSize) = HeaderBytes(Found)
ShortBody    == HeaderIntact /\ Len(Unread) < RecordSize(Found)
RecordIntact ==
  /\ HeaderIntact
  /\ ~ShortBody
  /\ SubSeq(Unread, 1, RecordSize(Found)) = Cells(Found, 0, RecordSize(Found))

\* A header stitched together from two records decodes to unpredictable
\* sizes: the body is then too large, too short or fails its checksum.
HeaderGarbled == ~ShortHeader /\ ~HeaderIntact

Reading == pc = "recover"

\* Mutant of RecoverRecord: delete records are skipped.
RecoverPutsOnly ==
  /\ Reading
  /\ RecordIntact
  /\ tree' = IF Found.val = Tombstone THEN tree ELSE ApplyToTree(tree, Found)
  /\ maxSequence' = IF Found.seq > maxSequence THEN Found.seq ELSE maxSequence
  /\ readPos' = readPos + RecordSize(Found)
  /\ replayed' = Append(replayed, Found)
  /\ UNCHANGED <<walVars, sequenceNumber, pc, op, readFile, recovery, restarts,
                 history, refused, stable>>

RecoverRecord ==
  /\ Reading
  /\ RecordIntact
  /\ tree' = ApplyToTree(tree, Found)
  /\ maxSequence' = IF Found.seq > maxSequence THEN Found.seq ELSE maxSequence
  /\ readPos' = readPos + RecordSize(Found)
  /\ replayed' = Append(replayed, Found)
  /\ UNCHANGED <<walVars, sequenceNumber, pc, op, readFile, recovery, restarts,
                 history, refused, stable>>

\* Mutant of LeaveFile: only a short header ends a file.
LeaveAtShortHeader == ShortHeader

LeaveFile == ShortHeader \/ ShortBody \/ HeaderGarbled

\* Mutant of RecoverNextFile: the position in the file is not reset.
RecoverNextFileMidway ==
  /\ Reading
  /\ LeaveFile
  /\ readFile < Len(files)
  /\ readFile' = readFile + 1
  /\ UNCHANGED <<walVars, tree, sequenceNumber, pc, op, readPos, maxSequence, recovery,
                 restarts, history, refused, stable, replayed>>

RecoverNextFile ==
  /\ Reading
  /\ LeaveFile
  /\ readFile < Len(files)
  /\ readFile' = readFile + 1
  /\ readPos' = 0
  /\ UNCHANGED <<walVars, tree, sequenceNumber, pc, op, maxSequence, recovery,
                 restarts, history, refused, stable, replayed>>

ServeRecovered(outcome) ==
  /\ pc' = "idle"
  /\ recovery' = IF recovery = "failed" THEN "failed" ELSE outcome
  /\ history' = replayed
  /\ refused' = {}
  /\ readFile' = 1 /\ readPos' = 0 /\ maxSequence' = 0 /\ replayed' = << >>
  /\ UNCHANGED <<walVars, tree, op, restarts, stable>>

\* Mutants of RecoverDone: the next number is the last one used, or is not
\* restored.
RecoverDoneAtMax ==
  /\ Reading
  /\ LeaveFile
  /\ readFile = Len(files)
  /\ sequenceNumber' = maxSequence
  /\ ServeRecovered("ok")

RecoverDoneFromOne ==
  /\ Reading
  /\ LeaveFile
  /\ readFile = Len(files)
  /\ ServeRecovered("ok")
  /\ UNCHANGED sequenceNumber

RecoverDone ==
  /\ Reading
  /\ LeaveFile
  /\ readFile = Len(files)
  /\ sequenceNumber' = IF maxSequence > 0 THEN maxSequence + 1 ELSE sequenceNumber
  /\ ServeRecovered("ok")

\* Corruption: the constructor prints a warning and serves what it has read.
RecoverCorrupt ==
  /\ Reading
  /\ \/ HeaderGarbled
     \/ HeaderIntact /\ ~ShortBody /\ ~RecordIntact
  /\ ServeRecovered("failed")
  /\ UNCHANGED sequenceNumber

-----------------------------------------------------------------------------
Client ==
  \/ \E k \in Key, v \in Value \cup {Tombstone} : LogMutation(k, v) \/ MutationOverruns(k, v)
  \/ WalSyncOnWrite \/ SyncMutation \/ ApplyMutation
  \/ EngineFlush \/ EngineSync

Recovery == RecoverRecord \/ RecoverNextFile \/ RecoverDone \/ RecoverCorrupt

Next == overrun = {} /\ (Client \/ Recovery \/ DiskRefusesWrite \/ Shutdown \/ Crash)

Spec == Init /\ [][Next]_vars

\* The constructor runs its Recover loop to the end before it returns.
FairSpec == Spec /\ WF_vars(Recovery)

-----------------------------------------------------------------------------
(* Properties.                                                             *)

\* Types of the engine's state (kv_engine.h 65-69) and of Recover's locals.
KVTypeOK ==
  /\ WalTypeOK
  /\ tree \in [Key -> Value \cup {NoValue}]
  /\ sequenceNumber \in Nat \ {0}
  /\ pc \in {"idle", "sync", "apply", "recover"}
  /\ op \in Record \cup {NoOp}
  /\ readFile \in Nat \ {0} /\ readPos \in Nat /\ maxSequence \in Nat
  /\ recovery \in {"ok", "failed"}
  /\ restarts \in Nat
  /\ history \in Seq(Record)
  /\ refused \subseteq DOMAIN history
  /\ stable \in Nat
  /\ replayed \in Seq(Record)

\* The engine is a DurableMap: log before tree, one mutation at a time, and a
\* restart that keeps a prefix with everything a successful Sync covered.
ImplementsDurableMap == DM!DMSpec

\* The tree that mutations h build, without those at the positions skipped.
Replayed(h, skipped) ==
  FoldLeftDomain(LAMBDA t, i : IF i \in skipped THEN t ELSE ApplyToTree(t, h[i]),
                 EmptyTree, h)

\* Whenever no call is in progress the tree is the replay of the logged
\* mutations, less those whose Sync failed and whose caller got an error;
\* after a restart those count again (kv_engine.cpp 49-52).
TreeIsReplay == pc = "idle" => tree = Replayed(history, refused)

\* The records whose last byte is in the data, in order.
RecordedIn(data) ==
  FoldLeft(LAMBDA found, c : IF c.off = RecordSize(c.rec) THEN Append(found, c.rec) ELSE found,
           << >>, data)

\* What a file holds with all that is in the two volatile layers above it.
WithVolatile(i) == IF i = Current THEN Spilled(i) \o buffer ELSE files[i]

\* WriteRecord loses, repeats and reorders nothing on its way through the
\* buffer, the stream and rotated files: the log is the history.
LogHoldsHistory ==
  pc # "recover" =>
    FlattenSeq([i \in DOMAIN files |-> RecordedIn(WithVolatile(i))]) = history

\* Sequence numbers identify mutations across restarts, as long as no
\* recovery failed: numbers in the history increase, and the next is fresh.
SequenceFresh ==
  (recovery = "ok" /\ pc # "recover") =>
    /\ \A i, j \in DOMAIN history : i < j => history[i].seq < history[j].seq
    /\ \A i \in DOMAIN history : history[i].seq < sequenceNumber

\* A Sync stands between the record and the tree that the caller hears of: the
\* engine's own, or that of WriteRecord on a disk that refuses nothing.
SyncsBeforeApply == EngineSyncOnWrite \/ (SyncOnWrite /\ ~Faults)

\* The bytes of the current file that are on the medium end with r.
OnMedium(r) ==
  LET data  == SubSeq(files[Current], 1, synced[Current])
      start == Len(data) - RecordSize(r)
  IN  start >= 0 /\ SubSeq(data, start + 1, Len(data)) = Cells(r, 0, RecordSize(r))

\* A Put or Delete that returns OK has its record on the medium, whatever was
\* refused before it, when the engine syncs (kv_engine.cpp 49-52).  The log's
\* own sync_on_write gives that only on a disk that refuses nothing, because
\* WriteRecord drops the status of its Sync (wal.cpp 185-188).
ReturnsDurable ==
  [][SyncsBeforeApply /\ pc = "apply" /\ pc' = "idle" => OnMedium(op)]_vars

\* A restart brings back, first and in order, every mutation logged before
\* the last successful Sync ("Durably synchronize WAL data", README.md:82).
StableSurvives ==
  [][pc = "recover" /\ pc' = "idle"
       => IsPrefix(SubSeq(history, 1, stable), history')]_vars

\* Crashes leave at most partial records at the end of files, which recovery
\* ignores (README.md:396, wal.cpp:302): it never reports Corruption.
TornTailIgnored == recovery = "ok"

\* Recovery ends, whatever the crash left in the files.
RecoveryTerminates == (pc = "recover") ~> (pc = "idle")
=============================================================================
