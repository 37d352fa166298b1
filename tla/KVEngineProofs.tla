--------------------------- MODULE KVEngineProofs ---------------------------
(***************************************************************************)
(* The engine keeps its types and uses its log the way the log requires,   *)
(* so what WriteAheadLogProofs shows of any client holds of the engine;    *)
(* the tree it serves is the replay of the mutations it has logged.  Then  *)
(* what Recover reads: each file of the log, with the bytes on their way   *)
(* to it, is a run of whole records, perhaps followed by a torn one and by *)
(* bytes Recover never reaches.  From that, sequence numbers stay fresh.   *)
(*                                                                         *)
(* Last, the engine implements DurableMap: what it serves after a restart  *)
(* is a prefix of the mutations it had logged, with all that a successful  *)
(* Sync covered.  The log holds the history, file after file, and no crash *)
(* can take more from it than the end of the current file.                 *)
(***************************************************************************)
EXTENDS KVEngine, WriteAheadLogProofs, FoldProofs

-----------------------------------------------------------------------------
(* The engine as a client of the log.                                      *)

\* Every step of the engine is a step of the log or leaves the log alone.
LEMMA EngineStepsLog ==
  ASSUME KVTypeOK, [Next]_vars
  PROVE  [WalNext]_walVars
<1> SUFFICES ASSUME Next PROVE [WalNext]_walVars
  BY DEF vars
<1>0. overrun = {}
  BY DEF Next
<1>1. ASSUME NEW k \in Key, NEW v \in Value \cup {Tombstone},
             LogMutation(k, v) \/ MutationOverruns(k, v)
      PROVE  WalNext
  <2> DEFINE r == [seq |-> sequenceNumber, key |-> k, val |-> v]
  <2>1. sequenceNumber \in 1..MaxSequence
    BY <1>1, SizesAssumption DEF LogMutation, MutationOverruns, KVTypeOK
  <2>2. r \in RecordsToWrite
    BY <2>1 DEF RecordsToWrite
  <2>3. WriteRecord(r) \/ Overrun(r)
    BY <1>1 DEF LogMutation, MutationOverruns
  <2> QED
    BY <1>0, <2>2, <2>3 DEF WalNext
<1>2. CASE WalSyncOnWrite
  BY <1>0, <1>2 DEF WalSyncOnWrite, WalNext
<1>3. CASE SyncMutation
  BY <1>0, <1>3 DEF SyncMutation, WalNext
<1>4. CASE ApplyMutation
  BY <1>4 DEF ApplyMutation
<1>5. CASE EngineFlush
  BY <1>0, <1>5 DEF EngineFlush, WalNext
<1>6. CASE EngineSync
  BY <1>0, <1>6 DEF EngineSync, WalNext
<1>7. CASE Recovery
  BY <1>7 DEF Recovery, RecoverRecord, RecoverNextFile, RecoverDone, RecoverCorrupt,
              ServeRecovered
<1>8. CASE DiskRefusesWrite
  BY <1>0, <1>8 DEF DiskRefusesWrite, WalNext
<1>9. CASE Shutdown
  BY <1>0, <1>9 DEF Shutdown, WalNext
<1>10. CASE Crash
  BY <1>0, <1>10 DEF Crash, WalNext
<1> QED
  BY <1>1, <1>2, <1>3, <1>4, <1>5, <1>6, <1>7, <1>8, <1>9, <1>10 DEF Next, Client

-----------------------------------------------------------------------------
(* Types.                                                                  *)

\* KVTypeOK without the log's own types, which LogInv covers.
EngineTypeOK ==
  /\ tree \in [Key -> Value \cup {NoValue}]
  /\ sequenceNumber \in Nat \ {0}
  /\ pc \in {"idle", "sync", "apply", "recover"}
  /\ op \in Record \cup {NoOp}
  /\ pc \in {"sync", "apply"} => op \in Record /\ history # << >>
  /\ readFile \in 1..Len(files) /\ readPos \in Nat /\ maxSequence \in Nat
  /\ recovery \in {"ok", "failed"}
  /\ restarts \in Nat
  /\ history \in Seq(Record)
  /\ refused \subseteq DOMAIN history
  /\ stable \in Nat
  /\ replayed \in Seq(Record)

\* Applying a record keeps the tree a map (kv_engine.cpp 117-133).
LEMMA ApplyToTreeType ==
  ASSUME NEW t \in [Key -> Value \cup {NoValue}], NEW r \in Record
  PROVE  ApplyToTree(t, r) \in [Key -> Value \cup {NoValue}]
  BY DEF ApplyToTree, TreePut, TreeDelete, Record

\* An intact record found by Recover is a record.
LEMMA FoundIsRecord ==
  ASSUME LogInv, EngineTypeOK, RecordIntact
  PROVE  Found \in Record
<1>1. files[readFile] \in Seq(Cell) /\ Len(files[readFile]) \in Nat /\ readPos \in Nat
  BY LogSizes DEF LogInv, EngineTypeOK
<1>2. Unread \in Seq(Cell)
  <2>1. \A i \in (readPos + 1)..Len(files[readFile]) : files[readFile][i] \in Cell
    BY <1>1, ElementOfSeq
  <2> QED
    BY <1>1, <2>1, SubSeqProperties DEF Unread
<1>3. Len(Unread) >= HeaderSize /\ Len(Unread) \in Nat
  BY <1>2, LenProperties, SizesAssumption DEF RecordIntact, HeaderIntact, ShortHeader
<1>4. Unread[1] \in Cell
  BY <1>2, <1>3, ElementOfSeq, SizesAssumption
<1> QED
  BY <1>4 DEF Found, Cell

\* The first constructor (kv_engine.cpp 7-18) sets every member to its type.
LEMMA EngineInitType == Init => EngineTypeOK
<1> SUFFICES ASSUME Init PROVE EngineTypeOK
  OBVIOUS
<1>1. tree \in [Key -> Value \cup {NoValue}] /\ 1 \in 1..Len(files)
  BY DEF Init, EmptyTree, WalInit
<1> QED
  BY <1>1 DEF Init, EngineTypeOK

\* What WriteRecord does to the number of files.
LEMMA FilesAfterWrite ==
  ASSUME LogInv, NEW r \in Record, WriteRecord(r)
  PROVE  Len(files) \in Nat \ {0} /\ Len(files') \in {Len(files), Len(files) + 1}
<1>1. Len(files) \in Nat \ {0}
  BY LogSizes DEF LogInv, Current
<1> QED
  BY <1>1, AppendPipes, RotatePipes DEF WriteRecord

\* No file goes away while the engine runs, so Recover's position stays in the
\* log; only a restart forgets the place of a file that was never opened.
LEMMA LogNeverShrinks ==
  ASSUME LogInv, EngineTypeOK, Client \/ Recovery \/ DiskRefusesWrite \/ UNCHANGED vars
  PROVE  Len(files) \in Nat \ {0} /\ Len(files') \in Nat /\ Len(files) <= Len(files')
<1>1. Len(files) \in Nat \ {0}
  BY LogSizes DEF LogInv, Current
<1>2. ASSUME NEW k \in Key, NEW v \in Value \cup {Tombstone}, LogMutation(k, v)
      PROVE  Len(files') \in Nat /\ Len(files) <= Len(files')
  <2> DEFINE r == [seq |-> sequenceNumber, key |-> k, val |-> v]
  <2>1. r \in Record /\ WriteRecord(r)
    BY <1>2 DEF EngineTypeOK, Record, LogMutation
  <2> HIDE DEF r
  <2> QED
    BY <1>1, <2>1, FilesAfterWrite
<1>3. CASE SyncSucceeds \/ SyncFails
  BY <1>1, <1>3, SyncPipes DEF PipesCut
<1>4. CASE StreamWriteFails
  BY <1>1, <1>4, FailPipes DEF PipesCut
<1>5. CASE UNCHANGED files
  BY <1>1, <1>5
<1>6. ASSUME NEW k \in Key, NEW v \in Value \cup {Tombstone}, MutationOverruns(k, v)
      PROVE  UNCHANGED files
  BY <1>6 DEF MutationOverruns, Overrun
<1>7. CASE WalSyncOnWrite \/ SyncMutation \/ EngineSync
  BY <1>3, <1>7 DEF WalSyncOnWrite, SyncMutation, EngineSync
<1>8. CASE ApplyMutation \/ EngineFlush \/ Recovery \/ UNCHANGED vars
  BY <1>5, <1>8 DEF ApplyMutation, EngineFlush, Flush, Recovery, RecoverRecord,
     RecoverNextFile, RecoverDone, RecoverCorrupt, ServeRecovered, vars, walVars
<1>9. CASE DiskRefusesWrite
  BY <1>4, <1>9 DEF DiskRefusesWrite
<1> QED
  BY <1>1, <1>2, <1>5, <1>6, <1>7, <1>8, <1>9 DEF Client

\* Logging a mutation: the history grows by the record of the call.
LEMMA LogMutationTypes ==
  ASSUME LogInv, EngineTypeOK, NEW k \in Key, NEW v \in Value \cup {Tombstone},
         LogMutation(k, v), Len(files) <= Len(files'), Len(files') \in Nat,
         Len(files) \in Nat
  PROVE  EngineTypeOK'
<1> DEFINE r == [seq |-> sequenceNumber, key |-> k, val |-> v]
<1>1. r \in Record
  BY DEF EngineTypeOK, Record
<1>2. op' = r /\ history' = Append(history, r) /\ sequenceNumber' = sequenceNumber + 1
      /\ pc' \in {"sync", "apply"}
  BY DEF LogMutation
<1> HIDE DEF r
<1>3. history \in Seq(Record) /\ refused \subseteq DOMAIN history
  BY DEF EngineTypeOK
<1>4. /\ Append(history, r) \in Seq(Record)
      /\ Append(history, r) # << >>
      /\ Len(Append(history, r)) = Len(history) + 1 /\ Len(history) \in Nat
      /\ DOMAIN history = 1..Len(history)
      /\ DOMAIN Append(history, r) = 1..Len(Append(history, r))
  BY <1>1, <1>3, AppendProperties, LenProperties
<1>5. refused \subseteq DOMAIN Append(history, r)
  BY <1>3, <1>4
<1> QED
  BY <1>1, <1>2, <1>4, <1>5 DEF EngineTypeOK, LogMutation, recoverVars

\* The rest of Put and Delete, and the other calls of a client.
LEMMA ClientTypes ==
  ASSUME LogInv, EngineTypeOK, Len(files) <= Len(files'), Len(files') \in Nat,
         Len(files) \in Nat,
         WalSyncOnWrite \/ SyncMutation \/ ApplyMutation \/ EngineFlush
           \/ EngineSync \/ DiskRefusesWrite
  PROVE  EngineTypeOK'
<1>1. Len(history) \in Nat /\ DOMAIN history = 1..Len(history)
      /\ (history # << >> => Len(history) \in DOMAIN history)
  BY LenProperties, EmptySeq DEF EngineTypeOK
<1>2. CASE WalSyncOnWrite
  BY <1>1, <1>2 DEF EngineTypeOK, WalSyncOnWrite, recoverVars
<1>3. CASE SyncMutation
  BY <1>1, <1>3 DEF EngineTypeOK, SyncMutation, recoverVars
<1>4. CASE ApplyMutation
  <2>1. pc = "apply" /\ op \in Record /\ tree' = ApplyToTree(tree, op)
    BY <1>4 DEF ApplyMutation, EngineTypeOK
  <2>2. tree' \in [Key -> Value \cup {NoValue}]
    BY <2>1, ApplyToTreeType DEF EngineTypeOK
  <2> QED
    BY <1>4, <2>2 DEF EngineTypeOK, ApplyMutation, recoverVars, walVars
<1>5. CASE EngineFlush \/ DiskRefusesWrite
  BY <1>5 DEF EngineTypeOK, EngineFlush, DiskRefusesWrite, engineVars
<1>6. CASE EngineSync
  BY <1>1, <1>6 DEF EngineTypeOK, EngineSync, recoverVars
<1> QED
  BY <1>2, <1>3, <1>4, <1>5, <1>6

\* Recovery: what Recover delivers and where it stands.
LEMMA RecoveryTypes ==
  ASSUME LogInv, EngineTypeOK, Recovery, Len(files) \in Nat \ {0}
  PROVE  EngineTypeOK'
<1>1. UNCHANGED walVars
  BY DEF Recovery, RecoverRecord, RecoverNextFile, RecoverDone, RecoverCorrupt,
         ServeRecovered
<1>2. CASE RecoverRecord
  <2>1. Found \in Record
    BY <1>2, FoundIsRecord DEF RecoverRecord
  <2>2. Found.seq \in Nat /\ RecordSize(Found) \in Nat
    BY <2>1, RecordSizeNat DEF Record
  <2>3. tree' \in [Key -> Value \cup {NoValue}]
    BY <1>2, <2>1, ApplyToTreeType DEF EngineTypeOK, RecoverRecord
  <2>4. replayed' \in Seq(Record)
    BY <1>2, <2>1, AppendProperties DEF EngineTypeOK, RecoverRecord
  <2> HIDE DEF Found
  <2> QED
    BY <1>1, <1>2, <2>2, <2>3, <2>4 DEF EngineTypeOK, RecoverRecord, walVars
<1>3. CASE RecoverNextFile
  BY <1>1, <1>3 DEF EngineTypeOK, RecoverNextFile, walVars
<1>4. << >> \in Seq(Record)
  BY EmptySeq
<1>5. CASE RecoverDone
  BY <1>1, <1>4, <1>5 DEF EngineTypeOK, RecoverDone, ServeRecovered, walVars
<1>6. CASE RecoverCorrupt
  BY <1>1, <1>4, <1>6 DEF EngineTypeOK, RecoverCorrupt, ServeRecovered, walVars
<1> QED
  BY <1>2, <1>3, <1>5, <1>6 DEF Recovery

\* Stopping: the members of the next run's engine.
LEMMA StopTypes ==
  ASSUME LogInv, EngineTypeOK, StartRecovery, Len(files') \in Nat \ {0}
  PROVE  EngineTypeOK'
<1>1. EmptyTree \in [Key -> Value \cup {NoValue}] /\ << >> \in Seq(Record)
  BY EmptySeq DEF EmptyTree
<1> QED
  BY <1>1 DEF EngineTypeOK, StartRecovery

\* Every step keeps the engine's own types.
LEMMA EngineNextType ==
  ASSUME LogInv, EngineTypeOK, [Next]_vars, LogInv'
  PROVE  EngineTypeOK'
<1>1. CASE Client \/ Recovery \/ DiskRefusesWrite \/ UNCHANGED vars
  <2>1. Len(files) \in Nat \ {0} /\ Len(files') \in Nat /\ Len(files) <= Len(files')
    BY <1>1, LogNeverShrinks
  <2>2. ASSUME NEW k \in Key, NEW v \in Value \cup {Tombstone}, LogMutation(k, v)
        PROVE  EngineTypeOK'
    BY <2>1, <2>2, LogMutationTypes
  <2>3. CASE WalSyncOnWrite \/ SyncMutation \/ ApplyMutation \/ EngineFlush
               \/ EngineSync \/ DiskRefusesWrite
    BY <2>1, <2>3, ClientTypes
  <2>4. CASE Recovery
    BY <2>1, <2>4, RecoveryTypes
  <2>5. ASSUME NEW k \in Key, NEW v \in Value \cup {Tombstone}, MutationOverruns(k, v)
        PROVE  EngineTypeOK'
    BY <2>5 DEF MutationOverruns, Overrun, engineVars, EngineTypeOK
  <2>6. CASE UNCHANGED vars
    BY <2>1, <2>6 DEF EngineTypeOK, vars, walVars, engineVars
  <2> QED
    BY <1>1, <2>2, <2>3, <2>4, <2>5, <2>6 DEF Client
<1>2. CASE Shutdown \/ Crash
  <2>1. Len(files') \in Nat \ {0}
    BY LenProperties, EmptySeq DEF LogInv, WalTypeOK
  <2> QED
    BY <1>2, <2>1, StopTypes DEF Shutdown, Crash
<1> QED
  BY <1>1, <1>2 DEF Next

-----------------------------------------------------------------------------
(* Theorems.                                                               *)

EngineInv == LogInv /\ EngineTypeOK

\* The inductive invariant: what the log's proofs keep, and the types above.
LEMMA EngineInvariant == Spec => []EngineInv
<1>1. Init => EngineInv
  BY EngineInitType, InitLogInv DEF Init, EngineInv
<1>2. EngineInv /\ [Next]_vars => EngineInv'
  <2> SUFFICES ASSUME EngineInv, [Next]_vars PROVE EngineInv'
    OBVIOUS
  <2>1. LogInv /\ EngineTypeOK /\ KVTypeOK
    BY DEF EngineInv, KVTypeOK, EngineTypeOK, LogInv
  <2>2. LogInv'
    BY <2>1, EngineStepsLog, NextLogInv
  <2> QED
    BY <2>1, <2>2, EngineNextType DEF EngineInv
<1> QED
  BY <1>1, <1>2, PTL DEF Spec

\* The engine's state and Recover's locals keep their types through calls,
\* failures, crashes and recoveries (kv_engine.h 65-69, wal.cpp 234-332).
THEOREM EngineTypes == Spec => []KVTypeOK
<1>1. EngineInv => KVTypeOK
  BY LogSizes DEF EngineInv, KVTypeOK, EngineTypeOK, LogInv
<1> QED
  BY <1>1, EngineInvariant, PTL

\* The engine is a client of the write-ahead log: every step of Put, Delete,
\* Flush, Sync, Recover or a crash is a step of the log's specification.
THEOREM EngineUsesLog == Spec => WalSpec
<1>1. Init => WalInit
  BY DEF Init
<1>2. KVTypeOK /\ [Next]_vars => [WalNext]_walVars
  BY EngineStepsLog
<1> QED
  BY <1>1, <1>2, EngineTypes, PTL DEF Spec, WalSpec

\* So the engine makes WriteRecord copy past write_buffer in two cases only: a
\* key or value that is longer, and a log file that did not open (wal.cpp
\* 97-111, 156-179), for records of any size and any failure before ...
THEOREM EngineBufferFits == Spec => []BufferFits
  BY EngineUsesLog, OnlyTwoWaysToOverrun, PTL

\* ... and none of its log files outgrows max_file_size, but by what waited in
\* write_buffer for a file opened late (wal.cpp 123-127).
THEOREM EngineFilesWithinLimit == Spec => []FilesWithinLimit
  BY EngineUsesLog, FilesNeverOutgrowLimit, PTL

-----------------------------------------------------------------------------
(* A mutation that returned is on the medium.                              *)

EndsWith(data, r) ==
  LET start == Len(data) - RecordSize(r)
  IN  start >= 0 /\ SubSeq(data, start + 1, Len(data)) = Encoding(r)

\* A string that r's encoding was added to ends with r.
LEMMA EndsWithAdded ==
  ASSUME NEW s \in Seq(Cell), NEW r \in Record
  PROVE  EndsWith(s \o Encoding(r), r)
<1> DEFINE e == Encoding(r)
           d == s \o e
<1>1. /\ e \in Seq(Cell) /\ Len(e) = RecordSize(r) /\ RecordSize(r) \in Nat
      /\ Len(s) \in Nat
  BY EncodingProperties, RecordSizeNat, LenProperties
<1> HIDE DEF e
<1>2. /\ d \in Seq(Cell) /\ Len(d) = Len(s) + Len(e)
      /\ \A i \in 1..Len(d) : d[i] = IF i <= Len(s) THEN s[i] ELSE e[i - Len(s)]
  BY <1>1, ConcatProperties
<1> HIDE DEF d
<1> DEFINE t == SubSeq(d, Len(s) + 1, Len(d))
<1>3. \A i \in (Len(s) + 1)..Len(d) : d[i] \in Cell
  BY <1>1, <1>2, ElementOfSeq
<1>4. /\ t \in Seq(Cell) /\ Len(t) = Len(e)
      /\ \A i \in 1..Len(e) : t[i] = d[Len(s) + i]
  BY <1>1, <1>2, <1>3, SubSeqProperties
<1> HIDE DEF t
<1>5. t = e
  <2>1. ASSUME NEW i \in 1..Len(e) PROVE t[i] = e[i]
    <3>1. Len(s) + i \in 1..Len(d) /\ ~(Len(s) + i <= Len(s)) /\ (Len(s) + i) - Len(s) = i
      BY <1>1, <1>2
    <3> QED
      BY <1>2, <1>4, <3>1
  <2> QED
    BY <1>1, <1>4, <2>1, SeqEqual
<1>6. Len(d) - RecordSize(r) = Len(s)
  BY <1>1, <1>2
<1> QED
  BY <1>1, <1>5, <1>6 DEF EndsWith, e, d, t

\* While the stream is good the record in progress is the last on its way, and
\* the tree is changed with it on the medium, or with the Sync of WriteRecord
\* still to come, which then cannot fail.
SyncedInv ==
  /\ pc \in {"sync", "apply"} /\ streamGood => EndsWith(Pipe(Current), op)
  /\ pc = "apply" => IF syncPending THEN ~EngineSyncOnWrite ELSE OnMedium(op)

\* A Sync that succeeds leaves the medium with all that was on its way.
LEMMA SyncReachesMedium ==
  ASSUME LogInv, SyncSucceeds, NEW r \in Record, EndsWith(Pipe(Current), r)
  PROVE  OnMedium(r)'
<1>1. /\ Len(files') = Len(files) /\ DOMAIN files = 1..Len(files) /\ Current \in DOMAIN files
      /\ Pipe(Current)' = Pipe(Current) /\ Current' = Current
      /\ Pipe(Current) \in Seq(Cell) /\ synced \in Seq(Nat) /\ Current \in DOMAIN synced
  <2>1. WalTypeOK
    BY DEF LogInv
  <2>2. SamePipes
    BY SyncPipes
  <2> QED
    BY <2>1, <2>2, LogSizes, PipeTypes DEF SamePipes, Current, WalTypeOK
<1>2. /\ stream' = << >> /\ buffer' = << >>
      /\ synced' = [synced EXCEPT ![Current] = Len(files'[Current])]
      /\ files' = [files EXCEPT ![Current] = @ \o (stream \o buffer)]
  BY DEF SyncSucceeds
<1>3. files' \in Seq(Seq(Cell))
  BY ExtendCurrent, ConcatProperties DEF LogInv, WalTypeOK, SyncSucceeds
<1> DEFINE d == files'[Current]
<1>4. d = Pipe(Current)
  BY <1>1, <1>2, <1>3, EmptyAboveFile
<1>5. synced'[Current] = Len(d)
  <2>1. synced \in [1..Len(synced) -> Nat] /\ Current \in 1..Len(synced)
    BY <1>1, LenProperties
  <2> QED
    BY <1>2, <2>1
<1>6. SubSeq(d, 1, Len(d)) = d
  <2>1. d \in Seq(Cell) /\ Len(d) \in Nat
    BY <1>1, <1>4, LenProperties
  <2> HIDE DEF d
  <2> DEFINE e == SubSeq(d, 1, Len(d))
  <2>2. e \in Seq(Cell) /\ Cut(e, d) /\ Len(e) = Len(d)
    BY <2>1, CutOfSubSeq
  <2> HIDE DEF e
  <2>3. e = d
    BY <2>1, <2>2, SeqEqual DEF Cut
  <2> QED
    BY <2>3 DEF e
<1> HIDE DEF d
<1>7. EndsWith(d, r)
  BY <1>4
<1>8. SubSeq(files'[Current'], 1, synced'[Current']) = d
  BY <1>1, <1>5, <1>6 DEF d
<1> QED
  BY <1>7, <1>8, Zenon DEF OnMedium, EndsWith, Encoding

\* A stream that is good after a Sync, or after a write of its own, has lost
\* nothing.
LEMMA GoodStreamKeeps ==
  ASSUME LogInv, SyncSucceeds \/ SyncFails \/ StreamWriteFails, streamGood'
  PROVE  Pipe(Current)' = Pipe(Current) /\ streamGood
<1>1. SyncSucceeds \/ SyncFails
  BY DEF StreamWriteFails, Refused
<1>2. WalTypeOK /\ stream \in Seq(Cell) /\ buffer \in Seq(Cell) /\ streamGood \in BOOLEAN
  BY DEF LogInv, WalTypeOK
<1>3. CASE SyncSucceeds
  <2>1. SamePipes /\ Current \in DOMAIN files
    BY <1>2, <1>3, SyncPipes, LogSizes
  <2> QED
    BY <1>3, <2>1 DEF SamePipes, Current, SyncSucceeds
<1>4. CASE SyncFails
  <2>1. /\ streamGood /\ stream' = << >>
        /\ files' = [files EXCEPT ![Current] = @ \o (stream \o buffer)]
        /\ buffer' = IF isOpen THEN << >> ELSE buffer
    BY <1>2, <1>4 DEF SyncFails, Refused
  <2>2. buffer' = << >>
    BY <2>1 DEF LogInv, ClosedEmpty
  <2>3. SamePipes /\ Current \in DOMAIN files
    BY <1>2, <2>1, <2>2, MovedPipes, LogSizes
  <2> QED
    BY <2>1, <2>3 DEF SamePipes, Current
<1> QED
  BY <1>1, <1>3, <1>4

\* WriteRecord leaves its record last on its way to a file whose stream is
\* good.
LEMMA WriteComesLast ==
  ASSUME LogInv, NEW r \in Record, WriteRecord(r), streamGood'
  PROVE  EndsWith(Pipe(Current)', r)
<1>1. /\ WalTypeOK /\ Current = Len(files) /\ Current \in DOMAIN files
      /\ Len(files) \in Nat /\ Pipe(Current) \in Seq(Cell)
  BY LogSizes, PipeTypes DEF LogInv, Current
<1>2. EndsWith(Pipe(Current) \o Encoding(r), r)
  BY <1>1, EndsWithAdded
<1>3. CASE AppendToCurrent(r) \/ ReopenAndAppend(r)
  <2>1. Carries
    BY <1>3 DEF AppendToCurrent, ReopenAndAppend, LogInv, ClosedEmpty, Carries
  <2>2. files' = files /\ Pipe(Current)' = Pipe(Current) \o Encoding(r)
    <3>1. /\ files' = files
          /\ \A i \in DOMAIN files :
               Pipe(i)' = IF i = Current /\ Carries THEN Pipe(i) \o Encoding(r) ELSE Pipe(i)
      BY <1>3, AppendPipes
    <3>2. Current' = Current
      BY <3>1 DEF Current
    <3> QED
      BY <1>1, <2>1, <3>1, <3>2
  <2> QED
    BY <1>2, <2>2
<1>4. CASE RotateAndAppend(r)
  <2>1. Len(files') = Len(files) + 1 /\ \A i : i = Len(files) + 1 => Pipe(i)' = Encoding(r)
    BY <1>4, RotatePipes
  <2>2. Pipe(Current)' = Encoding(r)
    BY <2>1 DEF Current
  <2>3. << >> \in Seq(Cell) /\ << >> \o Encoding(r) = Encoding(r)
    BY EncodingProperties, ConcatEmptySeq, EmptySeq
  <2>4. EndsWith(<< >> \o Encoding(r), r)
    BY <2>3, EndsWithAdded
  <2> QED
    BY <2>2, <2>3, <2>4
<1> QED
  BY <1>3, <1>4 DEF WriteRecord

\* What is on the medium stays there when the OS refuses a write.
LEMMA MediumSurvivesRefusal ==
  ASSUME LogInv, NEW r \in Record, OnMedium(r), StreamWriteFails
  PROVE  OnMedium(r)'
<1>1. PICK n \in 0..(Len(stream) - 1) :
        files' = [files EXCEPT ![Current] = @ \o SubSeq(stream, 1, n)]
  BY DEF StreamWriteFails, Refused
<1>2. synced' = synced /\ WalTypeOK /\ SyncedWithinFile /\ stream \in Seq(Cell)
  BY DEF StreamWriteFails, LogInv, WalTypeOK
<1>3. /\ Len(stream) \in Nat /\ Current \in DOMAIN files /\ files[Current] \in Seq(Cell)
      /\ Len(files[Current]) \in Nat /\ synced[Current] \in Nat
      /\ synced[Current] <= Len(files[Current])
  BY <1>2, LogSizes DEF SyncedWithinFile
<1> DEFINE u == SubSeq(stream, 1, n)
<1>4. u \in Seq(Cell)
  BY <1>1, <1>2, <1>3, CutOfSubSeq
<1>5. files' = [files EXCEPT ![Current] = @ \o u]
  BY <1>1
<1> HIDE DEF u
<1>6. Len(files') = Len(files) /\ files'[Current] = files[Current] \o u
  BY <1>2, <1>3, <1>4, <1>5, ExtendedFiles
<1> DEFINE d == files[Current]
           e == d \o u
           n0 == synced[Current]
<1>7. SubSeq(e, 1, n0) = SubSeq(d, 1, n0)
  <2>0. d \in Seq(Cell) /\ Len(d) \in Nat /\ n0 \in 0..Len(d)
    BY <1>3
  <2> HIDE DEF d, n0
  <2>1. e \in Seq(Cell) /\ Cut(d, e) /\ Len(d) <= Len(e) /\ Len(e) \in Nat
    BY <1>4, <2>0, CutItself, CutOfConcat, ConcatProperties, LenProperties DEF Cut
  <2> HIDE DEF e
  <2>2. /\ SubSeq(d, 1, n0) \in Seq(Cell) /\ Cut(SubSeq(d, 1, n0), d) /\ Len(SubSeq(d, 1, n0)) = n0
        /\ SubSeq(e, 1, n0) \in Seq(Cell) /\ Cut(SubSeq(e, 1, n0), e) /\ Len(SubSeq(e, 1, n0)) = n0
    BY <2>0, <2>1, CutOfSubSeq
  <2> DEFINE x == SubSeq(d, 1, n0)
             y == SubSeq(e, 1, n0)
  <2> HIDE DEF x, y
  <2>3. /\ x \in Seq(Cell) /\ Cut(x, d) /\ Len(x) = n0
        /\ y \in Seq(Cell) /\ Cut(y, e) /\ Len(y) = n0
    BY <2>2 DEF x, y
  <2>4. \A i \in 1..n0 : y[i] = x[i]
    BY <2>0, <2>1, <2>3 DEF Cut
  <2>5. y = x
    BY <2>0, <2>3, <2>4, SeqEqual
  <2> QED
    BY <2>5 DEF x, y
<1>8. SubSeq(files'[Current'], 1, synced'[Current']) = SubSeq(files[Current], 1, synced[Current])
  BY <1>2, <1>6, <1>7 DEF Current
<1> QED
  BY <1>8, Zenon DEF OnMedium

\* Every step keeps that.
LEMMA SyncedInvStep ==
  ASSUME SyncsBeforeApply, LogInv, EngineTypeOK, SyncedInv, [Next]_vars
  PROVE  SyncedInv'
<1>0. pc \in {"sync", "apply"} => op \in Record
  BY DEF EngineTypeOK
<1>1. ASSUME NEW k \in Key, NEW v \in Value \cup {Tombstone}, LogMutation(k, v)
      PROVE  SyncedInv'
  <2> DEFINE r == [seq |-> sequenceNumber, key |-> k, val |-> v]
  <2>1. /\ pc' = IF EngineSyncOnWrite THEN "sync" ELSE "apply"
        /\ r \in Record /\ WriteRecord(r) /\ op' = r
    BY <1>1 DEF LogMutation, EngineTypeOK, Record
  <2> HIDE DEF r
  <2>2. syncPending' = SyncOnWrite
    BY <2>1 DEF WriteRecord, AppendToCurrent, RotateAndAppend, ReopenAndAppend
  <2>3. streamGood' => EndsWith(Pipe(Current)', r)
    BY <2>1, WriteComesLast
  <2>4. streamGood' => EndsWith(Pipe(Current), op)'
    BY <2>1, <2>3
  <2>5. pc' = "apply" => syncPending' /\ ~EngineSyncOnWrite
    BY <2>1, <2>2 DEF SyncsBeforeApply
  <2> QED
    BY <2>4, <2>5 DEF SyncedInv
<1>2. CASE WalSyncOnWrite
  <2>1. /\ pc' = pc /\ op' = op /\ syncPending /\ ~syncPending'
        /\ SyncSucceeds \/ SyncFails
    BY <1>2 DEF WalSyncOnWrite, SyncSucceeds, SyncFails
  <2>2. pc \in {"sync", "apply"} /\ streamGood' => EndsWith(Pipe(Current), op)'
    BY <2>1, GoodStreamKeeps DEF SyncedInv
  <2>3. ASSUME pc = "apply" PROVE OnMedium(op)'
    <3>1. ~EngineSyncOnWrite /\ ~Faults
      BY <2>1, <2>3 DEF SyncedInv, SyncsBeforeApply
    <3>2. streamGood /\ SyncSucceeds
      BY <2>1, <3>1 DEF LogInv, Healthy, SyncFails, Refused
    <3>3. EndsWith(Pipe(Current), op) /\ op \in Record
      BY <1>0, <2>3, <3>2 DEF SyncedInv
    <3>4. \A r \in Record : EndsWith(Pipe(Current), r) => OnMedium(r)'
      BY <3>2, SyncReachesMedium
    <3> QED
      BY <2>1, <3>3, <3>4
  <2> QED
    BY <2>1, <2>2, <2>3 DEF SyncedInv
<1>3. CASE SyncMutation
  <2>1. CASE SyncFails /\ pc' = "idle"
    BY <2>1 DEF SyncedInv
  <2>2. CASE SyncSucceeds /\ pc' = "apply" /\ op' = op
    <3>1. streamGood /\ streamGood' = streamGood /\ pc = "sync" /\ syncPending' = FALSE
      BY <1>3, <2>2 DEF SyncMutation, SyncSucceeds
    <3>2. EndsWith(Pipe(Current), op) /\ op \in Record
      BY <1>0, <3>1 DEF SyncedInv
    <3>3. Pipe(Current)' = Pipe(Current)
      BY <2>2, <3>1, GoodStreamKeeps
    <3>4. \A r \in Record : EndsWith(Pipe(Current), r) => OnMedium(r)'
      BY <2>2, SyncReachesMedium
    <3>5. OnMedium(op)' /\ EndsWith(Pipe(Current), op)'
      BY <2>2, <3>2, <3>3, <3>4
    <3> QED
      BY <3>1, <3>5 DEF SyncedInv
  <2> QED
    BY <1>3, <2>1, <2>2 DEF SyncMutation
<1>4. CASE ApplyMutation
  BY <1>4 DEF ApplyMutation, SyncedInv
<1>5. CASE EngineFlush \/ EngineSync
  BY <1>5 DEF EngineFlush, EngineSync, engineVars, SyncedInv
<1>6. CASE Recovery
  BY <1>6 DEF Recovery, RecoverRecord, RecoverNextFile, RecoverDone, RecoverCorrupt,
              ServeRecovered, Reading, SyncedInv
<1>7. CASE DiskRefusesWrite
  <2>1. pc' = pc /\ op' = op /\ StreamWriteFails /\ syncPending' = syncPending
    BY <1>7 DEF DiskRefusesWrite, engineVars, StreamWriteFails
  <2>2. pc \in {"sync", "apply"} /\ streamGood' => EndsWith(Pipe(Current), op)'
    BY <2>1, GoodStreamKeeps DEF SyncedInv
  <2>3. \A r \in Record : OnMedium(r) => OnMedium(r)'
    BY <2>1, MediumSurvivesRefusal
  <2>4. pc = "apply" /\ ~syncPending => OnMedium(op)'
    BY <1>0, <2>1, <2>3 DEF SyncedInv
  <2> QED
    BY <2>1, <2>2, <2>4 DEF SyncedInv
<1>8. CASE Shutdown \/ Crash
  BY <1>8 DEF Shutdown, Crash, StartRecovery, SyncedInv
<1>9. ASSUME NEW k \in Key, NEW v \in Value \cup {Tombstone}, MutationOverruns(k, v)
      PROVE  SyncedInv'
  BY <1>9 DEF MutationOverruns, engineVars, SyncedInv
<1>10. CASE UNCHANGED vars
  BY <1>10 DEF vars, walVars, engineVars, SyncedInv, OnMedium, Pipe, InFlightBytes, Carries,
               Current
<1> QED
  BY <1>1, <1>2, <1>3, <1>4, <1>5, <1>6, <1>7, <1>8, <1>9, <1>10 DEF Next, Client

\* Only the last step of Put and Delete goes from "apply" to "idle".
LEMMA OnlyApplyReturns ==
  ASSUME [Next]_vars, pc = "apply", pc' = "idle"
  PROVE  ApplyMutation
<1>1. ~(\E k \in Key, v \in Value \cup {Tombstone} : LogMutation(k, v) \/ MutationOverruns(k, v))
  BY DEF LogMutation, MutationOverruns
<1>2. ~(WalSyncOnWrite \/ SyncMutation \/ EngineFlush \/ EngineSync)
  BY DEF WalSyncOnWrite, SyncMutation, EngineFlush, EngineSync
<1>3. ~Recovery /\ ~DiskRefusesWrite
  BY DEF Recovery, RecoverRecord, RecoverNextFile, RecoverDone, RecoverCorrupt, Reading,
         DiskRefusesWrite, engineVars
<1>4. ~Shutdown /\ ~Crash /\ ~UNCHANGED vars
  BY DEF Shutdown, Crash, StartRecovery, vars, engineVars
<1> QED
  BY <1>1, <1>2, <1>3, <1>4 DEF Next, Client

\* A Put or Delete that returns OK has its record on the medium (kv_engine.cpp
\* 49-52): whatever the OS has refused before, when the engine syncs; on a disk
\* that refuses nothing when only the log does (wal.cpp 185-188).
THEOREM ReturnsAreDurable == Spec => ReturnsDurable
<1>1. SyncsBeforeApply \/ ~SyncsBeforeApply
  OBVIOUS
<1>2. ASSUME SyncsBeforeApply PROVE Spec => ReturnsDurable
  <2>1. Init => SyncedInv
    BY DEF Init, SyncedInv
  <2>2. EngineInv /\ SyncedInv /\ [Next]_vars => SyncedInv'
    BY <1>2, SyncedInvStep DEF EngineInv
  <2>3. SyncedInv /\ [Next]_vars
          => [SyncsBeforeApply /\ pc = "apply" /\ pc' = "idle" => OnMedium(op)]_vars
    <3> SUFFICES ASSUME SyncedInv, [Next]_vars, pc = "apply", pc' = "idle"
                 PROVE  OnMedium(op)
      OBVIOUS
    <3>1. ~syncPending
      BY OnlyApplyReturns DEF ApplyMutation
    <3> QED
      BY <3>1 DEF SyncedInv
  <2> QED
    BY <2>1, <2>2, <2>3, EngineInvariant, PTL DEF Spec, ReturnsDurable
<1>3. ASSUME ~SyncsBeforeApply PROVE Spec => ReturnsDurable
  <2>1. [SyncsBeforeApply /\ pc = "apply" /\ pc' = "idle" => OnMedium(op)]_vars
    BY <1>3
  <2> QED
    BY <2>1, PTL DEF ReturnsDurable
<1> QED
  BY <1>1, <1>2, <1>3

-----------------------------------------------------------------------------
(* Replays.                                                                *)

Trees == [Key -> Value \cup {NoValue}]

\* One step of a replay of h, as a function of the tree and the position.
ReplayStep(h, skipped) ==
  [p \in Trees \X (Nat \ {0}) |->
     IF p[2] \in DOMAIN h \ skipped THEN ApplyToTree(p[1], h[p[2]]) ELSE p[1]]

\* Steps of a replay are trees.
LEMMA ReplayStepType ==
  ASSUME NEW h \in Seq(Record), NEW skipped
  PROVE  ReplayStep(h, skipped) \in [Trees \X (Nat \ {0}) -> Trees]
<1>1. ASSUME NEW p \in Trees \X (Nat \ {0})
      PROVE  (IF p[2] \in DOMAIN h \ skipped THEN ApplyToTree(p[1], h[p[2]]) ELSE p[1])
               \in Trees
  <2>1. p[1] \in Trees
    OBVIOUS
  <2>2. CASE p[2] \in DOMAIN h \ skipped
    <3>1. h[p[2]] \in Record
      BY <2>2, ElementOfSeq, LenProperties
    <3>2. ApplyToTree(p[1], h[p[2]]) \in Trees
      BY <2>1, <3>1, ApplyToTreeType DEF Trees
    <3> QED
      BY <2>2, <3>2
  <2>3. CASE p[2] \notin DOMAIN h \ skipped
    BY <2>1, <2>3
  <2> QED
    BY <2>2, <2>3
<1> QED
  BY <1>1, Zenon DEF ReplayStep

\* Replayed computes the accumulation of these steps.
LEMMA ReplayedAccumulates ==
  ASSUME NEW h \in Seq(Record), NEW skipped
  PROVE  \E acc : /\ Accumulates(acc, EmptyTree, ReplayStep(h, skipped), Len(h))
                  /\ Replayed(h, skipped) = acc[Len(h)]
<1> DEFINE q == [i \in DOMAIN h |-> i]
           step == ReplayStep(h, skipped)
           Body(iter) == [s \in SUBSET (DOMAIN q) |->
                            IF s = {} THEN EmptyTree
                            ELSE IF q[Max(s)] \in skipped THEN iter[s \ {Max(s)}]
                            ELSE ApplyToTree(iter[s \ {Max(s)}], h[q[Max(s)]])]
           It == CHOOSE iter : iter = Body(iter)
<1>1. Replayed(h, skipped) = It[DOMAIN q]
  BY DEF Replayed, FoldLeftDomain, FoldLeft, MapThenFoldSet
<1>2. /\ h \in Seq(Record) /\ Len(h) \in Nat /\ DOMAIN h = 1..Len(h)
      /\ DOMAIN q = 1..Len(h) /\ \A i \in DOMAIN h : h[i] \in Record
  BY LenProperties, ElementOfSeq
<1>3. EmptyTree \in Trees
  BY DEF EmptyTree, Trees
<1>4. step \in [Trees \X (Nat \ {0}) -> Trees]
  BY ReplayStepType
<1> HIDE DEF step
<1>5. PICK it \in [SUBSET (1..Len(h)) -> Trees] : Folds(it, EmptyTree, step, Len(h))
  BY <1>2, <1>3, <1>4, FoldsExist
<1>12. ASSUME NEW s \in SUBSET (1..Len(h)), s # {}, NEW f, f[s \ {Max(s)}] \in Trees
       PROVE  step[<<f[s \ {Max(s)}], Max(s)>>] = Body(f)[s]
  <2>4. Len(h) \in Nat /\ s # {}
    BY <1>2, <1>12
  <2>5. Max(s) \in s
    BY <2>4, MaxOfPositions
  <2>6. Max(s) \in 1..Len(h) /\ Max(s) \in DOMAIN h
    BY <1>2, <2>5
  <2>1. Max(s) \in 1..Len(h) /\ Max(s) \in Nat \ {0} /\ q[Max(s)] = Max(s)
    BY <1>2, <2>6
  <2>2. s \in SUBSET DOMAIN q
    BY <1>2
  <2> DEFINE t == f[s \ {Max(s)}]
  <2>3. step[<<t, Max(s)>>] = IF Max(s) \in skipped THEN t ELSE ApplyToTree(t, h[Max(s)])
    BY <1>2, <1>12, <2>1 DEF step, ReplayStep
  <2> QED
    BY <1>12, <2>1, <2>2, <2>3
<1>6. ASSUME NEW f, f = Body(f)
      PROVE  FoldsFrom(Trees, f, EmptyTree, step, Len(h))
  <2>1. ASSUME NEW s \in SUBSET (1..Len(h)), s # {}, f[s \ {Max(s)}] \in Trees
        PROVE  f[s] = step[<<f[s \ {Max(s)}], Max(s)>>]
    BY <1>6, <1>12, <2>1
  <2>2. f[{}] = EmptyTree
    BY <1>2, <1>6
  <2> QED
    BY <2>1, <2>2 DEF FoldsFrom
<1>7. it = Body(it)
  <2>1. ASSUME NEW s \in SUBSET (1..Len(h)) PROVE it[s] = Body(it)[s]
    <3>1. CASE s = {}
      BY <1>2, <1>5, <3>1 DEF Folds
    <3>2. CASE s # {}
      <4>1. it[s \ {Max(s)}] \in Trees
        OBVIOUS
      <4>2. it[s] = step[<<it[s \ {Max(s)}], Max(s)>>]
        BY <1>5, <3>2 DEF Folds
      <4> QED
        BY <1>12, <3>2, <4>1, <4>2
    <3> QED
      BY <3>1, <3>2
  <2> QED
    BY <1>2, <2>1
<1> HIDE DEF Body
<1>8. It = Body(It)
  BY <1>7
<1> HIDE DEF It
<1>9. FoldsFrom(Trees, It, EmptyTree, step, Len(h))
  BY <1>6, <1>8
<1> DEFINE acc == [m \in 0..Len(h) |-> It[1..m]]
<1>11. Replayed(h, skipped) = acc[Len(h)]
  BY <1>1, <1>2
<1>14. acc = [m \in 0..Len(h) |-> It[1..m]] /\ Len(h) \in Nat
  BY <1>2
<1> HIDE DEF acc
<1>10. Accumulates(acc, EmptyTree, step, Len(h))
  BY <1>3, <1>4, <1>9, <1>14, FoldsAccumulate
<1>13. Accumulates(acc, EmptyTree, ReplayStep(h, skipped), Len(h))
  BY <1>10 DEF step
<1> QED
  BY <1>11, <1>13

\* The replay of no mutation.
LEMMA ReplayedNothing ==
  ASSUME NEW skipped
  PROVE  Replayed(<< >>, skipped) = EmptyTree
<1>1. << >> \in Seq(Record) /\ Len(<< >>) = 0
  BY EmptySeq
<1>2. PICK acc : /\ Accumulates(acc, EmptyTree, ReplayStep(<< >>, skipped), Len(<< >>))
                 /\ Replayed(<< >>, skipped) = acc[Len(<< >>)]
  BY <1>1, ReplayedAccumulates
<1> QED
  BY <1>1, <1>2 DEF Accumulates

\* Two replays whose steps agree up to n agree after n steps.
LEMMA ReplaysAgree ==
  ASSUME NEW h \in Seq(Record), NEW g \in Seq(Record), NEW s, NEW u, Len(h) <= Len(g),
         \A i \in 1..Len(h) : h[i] = g[i] /\ (i \in s <=> i \in u),
         NEW acc, Accumulates(acc, EmptyTree, ReplayStep(g, u), Len(g))
  PROVE  Replayed(h, s) = acc[Len(h)] /\ acc[Len(h)] \in Trees
<1> DEFINE f == ReplayStep(h, s)
           k == ReplayStep(g, u)
<1>1. /\ Len(h) \in Nat /\ DOMAIN h = 1..Len(h)
      /\ Len(g) \in Nat /\ DOMAIN g = 1..Len(g)
  BY LenProperties
<1>2. PICK own : Accumulates(own, EmptyTree, f, Len(h)) /\ Replayed(h, s) = own[Len(h)]
  BY ReplayedAccumulates
<1>3. EmptyTree \in Trees
  BY DEF EmptyTree, Trees
<1>4. f \in [Trees \X (Nat \ {0}) -> Trees] /\ k \in [Trees \X (Nat \ {0}) -> Trees]
  BY ReplayStepType
<1>5. ASSUME NEW t \in Trees, NEW m \in 1..Len(h) PROVE f[<<t, m>>] = k[<<t, m>>]
  <2>1. <<t, m>> \in Trees \X (Nat \ {0}) /\ m \in DOMAIN h /\ m \in DOMAIN g
    BY <1>1
  <2>2. f[<<t, m>>] = IF m \in s THEN t ELSE ApplyToTree(t, h[m])
    BY <2>1 DEF ReplayStep
  <2>3. k[<<t, m>>] = IF m \in u THEN t ELSE ApplyToTree(t, g[m])
    BY <2>1 DEF ReplayStep
  <2> QED
    BY <2>2, <2>3
<1>6. Accumulates(acc, EmptyTree, k, Len(h))
  BY <1>1 DEF Accumulates
<1> HIDE DEF f, k
<1>7. \A m \in 0..Len(h) : own[m] = acc[m] /\ own[m] \in Trees
  <2>1. Len(h) \in Nat /\ SameSteps(Trees, f, k, Len(h))
    BY <1>1, <1>5 DEF SameSteps
  <2>2. Accumulates(own, EmptyTree, f, Len(h))
    BY <1>2
  <2> QED
    BY <1>3, <1>4, <1>6, <2>1, <2>2, AccumulationUnique
<1> QED
  BY <1>1, <1>2, <1>7

\* Whether positions beyond the end are skipped does not matter.
LEMMA ReplayedSame ==
  ASSUME NEW h \in Seq(Record), NEW s, NEW u, \A i \in DOMAIN h : i \in s <=> i \in u
  PROVE  Replayed(h, s) = Replayed(h, u)
<1>1. Len(h) \in Nat /\ DOMAIN h = 1..Len(h)
  BY LenProperties
<1>2. PICK acc : /\ Accumulates(acc, EmptyTree, ReplayStep(h, u), Len(h))
                 /\ Replayed(h, u) = acc[Len(h)]
  BY ReplayedAccumulates
<1> QED
  BY <1>1, <1>2, ReplaysAgree

\* The replay of one mutation more.
LEMMA ReplayedAppend ==
  ASSUME NEW h \in Seq(Record), NEW r \in Record, NEW skipped
  PROVE  Replayed(Append(h, r), skipped) =
           IF Len(h) + 1 \in skipped THEN Replayed(h, skipped)
           ELSE ApplyToTree(Replayed(h, skipped), r)
<1> DEFINE g == Append(h, r)
           n == Len(h)
<1>1. /\ n \in Nat /\ DOMAIN h = 1..n /\ g \in Seq(Record) /\ Len(g) = n + 1
      /\ \A i \in 1..n : g[i] = h[i]
      /\ g[n + 1] = r /\ DOMAIN g = 1..(n + 1)
  BY LenProperties, AppendProperties
<1> HIDE DEF g, n
<1>2. PICK acc : /\ Accumulates(acc, EmptyTree, ReplayStep(g, skipped), Len(g))
                 /\ Replayed(g, skipped) = acc[Len(g)]
  BY <1>1, ReplayedAccumulates
<1>3. Replayed(h, skipped) = acc[n] /\ acc[n] \in Trees
  BY <1>1, <1>2, ReplaysAgree DEF n
<1>4. acc[n + 1] = ReplayStep(g, skipped)[<<acc[n], n + 1>>]
  BY <1>1, <1>2 DEF Accumulates
<1>5. <<acc[n], n + 1>> \in Trees \X (Nat \ {0}) /\ n + 1 \in DOMAIN g
  BY <1>1, <1>3
<1>6. acc[n + 1] = IF n + 1 \in skipped THEN acc[n] ELSE ApplyToTree(acc[n], g[n + 1])
  BY <1>4, <1>5 DEF ReplayStep
<1>7. Replayed(g, skipped) = acc[n + 1]
  BY <1>1, <1>2
<1> QED
  BY <1>1, <1>3, <1>6, <1>7 DEF g, n

-----------------------------------------------------------------------------
(* The tree is the replay of the history.                                  *)

\* While a mutation is logged but not applied the tree is the replay of the
\* history before it, and during Recover the replay of what was read so far.
ReplayInv ==
  /\ pc = "idle" => tree = Replayed(history, refused)
  /\ pc \in {"sync", "apply"} =>
       \E h \in Seq(Record) : /\ history = Append(h, op)
                              /\ Len(history) \notin refused
                              /\ tree = Replayed(h, refused)
  /\ pc = "recover" => tree = Replayed(replayed, {})

\* Every step keeps it.
LEMMA ReplayInvStep ==
  ASSUME ReplayInv, LogInv, EngineTypeOK, EngineTypeOK', [Next]_vars
  PROVE  ReplayInv'
<1> USE DEF EngineTypeOK
<1>1. ASSUME NEW k \in Key, NEW v \in Value \cup {Tombstone}, LogMutation(k, v)
      PROVE  ReplayInv'
  <2>1. /\ pc = "idle" /\ pc' \in {"sync", "apply"}
        /\ history' = Append(history, op') /\ op' \in Record
        /\ tree' = tree /\ refused' = refused
    BY <1>1, EngineAssumption DEF LogMutation
  <2>2. Len(history') = Len(history) + 1 /\ DOMAIN history = 1..Len(history)
        /\ Len(history) \in Nat
    BY <2>1, AppendProperties, LenProperties
  <2>3. Len(history') \notin refused
    BY <2>2
  <2> QED
    BY <2>1, <2>3 DEF ReplayInv
<1>2. CASE WalSyncOnWrite
  BY <1>2 DEF WalSyncOnWrite, ReplayInv, recoverVars
<1>3. CASE SyncMutation
  <2>1. /\ pc = "sync" /\ tree' = tree /\ history' = history
    BY <1>3 DEF SyncMutation
  <2>2. PICK h \in Seq(Record) : /\ history = Append(h, op)
                                 /\ Len(history) \notin refused
                                 /\ tree = Replayed(h, refused)
    BY <2>1 DEF ReplayInv
  <2>3. CASE pc' = "apply" /\ UNCHANGED <<op, refused>>
    BY <2>1, <2>2, <2>3 DEF ReplayInv
  <2>4. CASE pc' = "idle" /\ refused' = refused \cup {Len(history)}
    <3>1. op \in Record /\ Len(history) = Len(h) + 1 /\ Len(h) \in Nat
          /\ DOMAIN h = 1..Len(h)
      BY <2>1, <2>2, AppendProperties, LenProperties
    <3>2. Replayed(h, refused) = Replayed(h, refused')
      BY <2>4, <3>1, ReplayedSame, SMTT(30)
    <3>3. Len(h) + 1 \in refused'
      BY <2>4, <3>1
    <3>4. Replayed(Append(h, op), refused') = Replayed(h, refused')
      BY <3>1, <3>3, ReplayedAppend
    <3> QED
      BY <2>1, <2>2, <2>4, <3>2, <3>4 DEF ReplayInv
  <2> QED
    BY <1>3, <2>3, <2>4 DEF SyncMutation
<1>4. CASE ApplyMutation
  <2>1. /\ pc = "apply" /\ pc' = "idle" /\ tree' = ApplyToTree(tree, op)
        /\ history' = history /\ refused' = refused
    BY <1>4 DEF ApplyMutation
  <2>2. PICK h \in Seq(Record) : /\ history = Append(h, op)
                                 /\ Len(history) \notin refused
                                 /\ tree = Replayed(h, refused)
    BY <2>1 DEF ReplayInv
  <2>3. op \in Record /\ Len(history) = Len(h) + 1
    BY <2>1, <2>2, AppendProperties
  <2>4. Replayed(Append(h, op), refused) = ApplyToTree(Replayed(h, refused), op)
    BY <2>2, <2>3, ReplayedAppend
  <2> QED
    BY <2>1, <2>2, <2>4 DEF ReplayInv
<1>5. CASE EngineFlush \/ DiskRefusesWrite \/ UNCHANGED vars
  BY <1>5 DEF EngineFlush, DiskRefusesWrite, vars, engineVars, ReplayInv
<1>6. CASE EngineSync
  BY <1>6 DEF EngineSync, ReplayInv, recoverVars
<1>7. CASE RecoverRecord
  <2>1. Found \in Record
    BY <1>7, FoundIsRecord DEF RecoverRecord
  <2>2. Replayed(Append(replayed, Found), {}) = ApplyToTree(Replayed(replayed, {}), Found)
    BY <2>1, ReplayedAppend
  <2> QED
    BY <1>7, <2>2 DEF RecoverRecord, Reading, ReplayInv
<1>8. CASE RecoverNextFile
  BY <1>8 DEF RecoverNextFile, Reading, ReplayInv
<1>9. CASE RecoverDone \/ RecoverCorrupt
  <2>1. pc = "recover" /\ pc' = "idle" /\ tree' = tree
        /\ history' = replayed /\ refused' = {}
    BY <1>9 DEF RecoverDone, RecoverCorrupt, ServeRecovered, Reading
  <2> QED
    BY <2>1 DEF ReplayInv
<1>10. CASE Shutdown \/ Crash
  <2>1. pc' = "recover" /\ tree' = EmptyTree /\ replayed' = << >>
    BY <1>10 DEF Shutdown, Crash, StartRecovery
  <2>2. Replayed(<< >>, {}) = EmptyTree
    BY ReplayedNothing
  <2> QED
    BY <2>1, <2>2 DEF ReplayInv
<1>11. ASSUME NEW k \in Key, NEW v \in Value \cup {Tombstone}, MutationOverruns(k, v)
       PROVE  ReplayInv'
  BY <1>11 DEF MutationOverruns, engineVars, ReplayInv
<1> QED
  BY <1>1, <1>2, <1>3, <1>4, <1>5, <1>6, <1>7, <1>8, <1>9, <1>10, <1>11
  DEF Next, Client, Recovery

\* Whenever no call is in progress, the tree holds exactly what replaying the
\* logged mutations builds, less those whose Sync failed (kv_engine.cpp
\* 34-77), whatever crashes and disk failures came before.
THEOREM TreeIsAlwaysReplay == Spec => []TreeIsReplay
<1>1. Init => ReplayInv
  BY ReplayedNothing DEF Init, ReplayInv
<1>2. ReplayInv /\ LogInv /\ EngineTypeOK /\ EngineTypeOK' /\ [Next]_vars => ReplayInv'
  BY ReplayInvStep
<1>3. ReplayInv => TreeIsReplay
  BY DEF ReplayInv, TreeIsReplay
<1>4. Spec => []LogInv /\ []EngineTypeOK
  BY EngineInvariant, PTL DEF EngineInv
<1> QED
  BY <1>1, <1>2, <1>3, <1>4, PTL DEF Spec

-----------------------------------------------------------------------------
(* What Recover reads from a string of bytes: whole records up to a        *)
(* position, and after it nothing, or a torn record that whatever was      *)
(* appended later cannot repair.                                           *)

\* After position p, data holds the first c bytes of record r.
Starts(data, p, r, c) == \A m \in 1..c : data[p + m] = [rec |-> r, off |-> m]

\* The encodings of the records of h follow each other from the start of
\* data; pos[j] is where the j-th one ends.
Laid(data, h, pos) ==
  /\ pos \in [0..Len(h) -> Nat]
  /\ pos[0] = 0
  /\ pos[Len(h)] <= Len(data)
  /\ \A j \in 1..Len(h) : pos[j] = pos[j - 1] + RecordSize(h[j])
  /\ \A j \in 1..Len(h) : Starts(data, pos[j - 1], h[j], RecordSize(h[j]))

\* After position p, data holds the first c bytes of record r and not the
\* next one.
TornAt(data, p, r, c) ==
  /\ r \in Record /\ c \in 1..(RecordSize(r) - 1)
  /\ p + c <= Len(data)
  /\ Starts(data, p, r, c)
  /\ p + c < Len(data) => data[p + c + 1].off = 1

\* Recover reads h from data, and then gives the file up.
Parsed(data, h, pos) ==
  /\ Laid(data, h, pos)
  /\ pos[Len(h)] < Len(data) => \E r, c : TornAt(data, pos[Len(h)], r, c)

\* Nothing garbled follows the records up to p: at most one cut-off record.
CleanEnd(data, p) ==
  p < Len(data) => \E r, c : TornAt(data, p, r, c) /\ p + c = Len(data)

\* Later records are at later positions, inside the string.
LEMMA PositionsGrow ==
  ASSUME NEW data, NEW h \in Seq(Record), NEW pos, Laid(data, h, pos),
         Len(data) \in Nat
  PROVE  /\ Len(h) \in Nat /\ \A j \in 0..Len(h) : pos[j] \in Nat /\ pos[j] <= Len(data)
         /\ \A j \in 1..Len(h) : h[j] \in Record /\ RecordSize(h[j]) \in Nat \ {0}
                                 /\ pos[j - 1] \in Nat /\ pos[j] = pos[j - 1] + RecordSize(h[j])
         /\ \A j, k \in 0..Len(h) : j <= k => pos[j] <= pos[k]
<1>1. /\ Len(h) \in Nat
      /\ \A j \in 1..Len(h) : h[j] \in Record /\ RecordSize(h[j]) \in Nat \ {0}
  BY LenProperties, ElementOfSeq, EncodingProperties
<1>2. /\ \A j \in 0..Len(h) : pos[j] \in Nat
      /\ pos[Len(h)] <= Len(data)
      /\ \A j \in 1..Len(h) : pos[j - 1] \in Nat /\ pos[j] = pos[j - 1] + RecordSize(h[j])
  <2>1. \A j \in 0..Len(h) : pos[j] \in Nat
    BY <1>1 DEF Laid
  <2>2. \A j \in 1..Len(h) : j - 1 \in 0..Len(h)
    BY <1>1
  <2> QED
    BY <2>1, <2>2 DEF Laid
<1> DEFINE S == {n \in Nat : n <= Len(h) => \A j \in 0..n : pos[j] <= pos[n]}
<1>3. Nat \subseteq S
  <2>1. 0 \in S
    BY <1>1, <1>2
  <2>2. ASSUME NEW n \in Nat, n \in S
        PROVE  n + 1 \in S
    <3>1. CASE n + 1 <= Len(h)
      <4>1. pos[n + 1] = pos[n] + RecordSize(h[n + 1]) /\ pos[n] \in Nat /\ pos[n + 1] \in Nat
            /\ RecordSize(h[n + 1]) \in Nat \ {0}
        BY <1>1, <1>2, <3>1
      <4>2. \A j \in 0..n : pos[j] \in Nat /\ pos[j] <= pos[n]
        BY <1>1, <1>2, <2>2, <3>1
      <4>3. ASSUME NEW j \in 0..(n + 1)
            PROVE  pos[j] <= pos[n + 1]
        <5>1. CASE j = n + 1
          BY <4>1, <5>1
        <5>2. CASE j # n + 1
          <6>1. j \in 0..n
            BY <5>2
          <6> QED
            BY <4>1, <4>2, <6>1
        <5> QED
          BY <5>1, <5>2
      <4> QED
        BY <4>3
    <3> QED
      BY <1>1, <3>1
  <2> HIDE DEF S
  <2> QED
    BY <2>1, <2>2, SetInduction
<1>4. \A j, k \in 0..Len(h) : j <= k => pos[j] <= pos[k]
  BY <1>1, <1>3
<1> QED
  BY <1>1, <1>2, <1>4

\* Taking bytes off the end of a string changes none of those it keeps.
LEMMA StartsCut ==
  ASSUME NEW data \in Seq(Cell), NEW d \in Seq(Cell), Cut(d, data), NEW r,
         NEW p \in Nat, NEW b \in Nat, NEW c \in Nat, b <= c, p + b <= Len(d),
         Starts(data, p, r, c)
  PROVE  Starts(d, p, r, b)
<1> SUFFICES ASSUME NEW m \in 1..b
             PROVE  d[p + m] = [rec |-> r, off |-> m]
  BY DEF Starts
<1>1. Len(d) \in Nat /\ m \in 1..c /\ p + m \in 1..Len(d)
  BY LenProperties
<1>2. d[p + m] = data[p + m]
  BY <1>1 DEF Cut
<1>3. data[p + m] = [rec |-> r, off |-> m]
  BY <1>1 DEF Starts
<1> QED
  BY <1>2, <1>3

\* The start d of data holds the records g, the start of those of data, and
\* the next one does not fit d.
Keeps(d, data, h, pos, g, q) ==
  /\ g \in Seq(Record) /\ Parsed(d, g, q) /\ Cut(g, h)
  /\ \A j \in 0..Len(g) : q[j] = pos[j]
  /\ Len(g) < Len(h) => Len(d) < pos[Len(g) + 1]
  /\ pos[Len(h)] = Len(data) => CleanEnd(d, q[Len(g)])

\* A shorter string holds the records that end inside it, and the start of
\* the next one is torn.
LEMMA ParsedCut ==
  ASSUME NEW data \in Seq(Cell), NEW d \in Seq(Cell), Cut(d, data),
         NEW h \in Seq(Record), NEW pos, Parsed(data, h, pos)
  PROVE  \E g, q : Keeps(d, data, h, pos, g, q)
<1>0. /\ Len(data) \in Nat /\ Len(d) \in Nat /\ Len(d) <= Len(data)
      /\ \A j \in 1..Len(d) : d[j] = data[j]
  BY LenProperties DEF Cut
<1>1. /\ Laid(data, h, pos) /\ Len(h) \in Nat
      /\ \A j \in 0..Len(h) : pos[j] \in Nat /\ pos[j] <= Len(data)
      /\ \A j \in 1..Len(h) : h[j] \in Record /\ RecordSize(h[j]) \in Nat \ {0}
                              /\ pos[j - 1] \in Nat /\ pos[j] = pos[j - 1] + RecordSize(h[j])
      /\ \A j, k \in 0..Len(h) : j <= k => pos[j] <= pos[k]
  BY <1>0, PositionsGrow DEF Parsed
<1>2. PICK k \in 0..Len(h) : pos[k] <= Len(d) /\ (k < Len(h) => Len(d) < pos[k + 1])
  <2> DEFINE S == {n \in Nat : n <= Len(h) =>
                     \/ pos[n] <= Len(d)
                     \/ \E k \in 0..(n - 1) : pos[k] <= Len(d) /\ Len(d) < pos[k + 1]}
  <2>1. 0 \in S
    BY <1>0, <1>1 DEF Laid
  <2>2. ASSUME NEW n \in Nat, n \in S
        PROVE  n + 1 \in S
    <3>1. CASE n + 1 <= Len(h) /\ ~(pos[n + 1] <= Len(d))
      <4>1. pos[n + 1] \in Nat /\ Len(d) < pos[n + 1] /\ n <= Len(h)
        BY <1>0, <1>1, <3>1
      <4>2. \E k \in 0..n : pos[k] <= Len(d) /\ Len(d) < pos[k + 1]
        BY <2>2, <4>1
      <4> QED
        BY <4>2
    <3> QED
      BY <3>1
  <2>3. Nat \subseteq S
    <3> HIDE DEF S
    <3> QED
      BY <2>1, <2>2, SetInduction
  <2>4. Len(h) \in S
    BY <1>1, <2>3
  <2>5. CASE pos[Len(h)] <= Len(d)
    BY <1>1, <2>5, SMTT(30)
  <2>6. CASE \E k \in 0..(Len(h) - 1) : pos[k] <= Len(d) /\ Len(d) < pos[k + 1]
    BY <1>1, <2>6
  <2> QED
    BY <1>1, <2>4, <2>5, <2>6
<1> DEFINE g == SubSeq(h, 1, k)
           q == [j \in 0..k |-> pos[j]]
<1>3. /\ g \in Seq(Record) /\ Len(g) = k /\ \A j \in 1..k : g[j] = h[j]
  BY <1>1, SubSeqProperties
<1>4. /\ DOMAIN q = 0..k /\ q \in [0..k -> Nat] /\ \A j \in 0..k : q[j] = pos[j]
  BY <1>1
<1> HIDE DEF g, q
<1>5. Laid(d, g, q)
  <2>1. /\ q \in [0..Len(g) -> Nat] /\ q[0] = 0 /\ q[Len(g)] <= Len(d)
    BY <1>1, <1>2, <1>3, <1>4 DEF Laid
  <2>2. \A j \in 1..k : /\ g[j] = h[j] /\ j \in 1..Len(h) /\ q[j] = pos[j] /\ q[j - 1] = pos[j - 1]
                        /\ pos[j] <= pos[k]
    BY <1>1, <1>3, <1>4
  <2>3. ASSUME NEW j \in 1..Len(g)
        PROVE  q[j] = q[j - 1] + RecordSize(g[j])
    <3>1. j \in 1..k /\ j \in 1..Len(h)
      BY <1>1, <1>3
    <3>2. pos[j] = pos[j - 1] + RecordSize(h[j])
      BY <1>1, <3>1
    <3> QED
      BY <2>2, <3>1, <3>2
  <2>4. ASSUME NEW j \in 1..Len(g)
        PROVE  Starts(d, q[j - 1], g[j], RecordSize(g[j]))
    <3>1. j \in 1..k /\ j \in 1..Len(h) /\ RecordSize(h[j]) \in Nat
      BY <1>1, <1>3
    <3>2. Starts(data, pos[j - 1], h[j], RecordSize(h[j]))
      BY <1>1, <3>1 DEF Laid
    <3>3. pos[j - 1] \in Nat /\ pos[j - 1] + RecordSize(h[j]) <= Len(d)
      BY <1>0, <1>1, <1>2, <2>2, <3>1, SMTT(30)
    <3>4. Starts(d, pos[j - 1], h[j], RecordSize(h[j]))
      BY <3>1, <3>2, <3>3, StartsCut
    <3> QED
      BY <2>2, <3>1, <3>4
  <2> QED
    BY <2>1, <2>3, <2>4 DEF Laid
<1>6. ASSUME pos[k] < Len(d)
      PROVE  \E r, c : /\ TornAt(d, pos[k], r, c)
                       /\ pos[Len(h)] = Len(data) => pos[k] + c = Len(d)
  <2>0. pos[k] \in Nat
    BY <1>1
  <2>1. CASE k < Len(h)
    <3> DEFINE r == h[k + 1]
               c == Len(d) - pos[k]
    <3>1. /\ k + 1 \in 1..Len(h) /\ r \in Record /\ RecordSize(r) \in Nat
          /\ pos[k + 1] = pos[(k + 1) - 1] + RecordSize(r) /\ (k + 1) - 1 = k
      BY <1>1, <2>1
    <3>2. c \in 1..(RecordSize(r) - 1) /\ pos[k] + c = Len(d)
      BY <1>0, <1>2, <1>6, <2>0, <2>1, <3>1
    <3>3. Starts(data, pos[k], r, RecordSize(r))
      BY <1>1, <3>1 DEF Laid
    <3> HIDE DEF r, c
    <3>4. Starts(d, pos[k], r, c)
      BY <2>0, <3>1, <3>2, <3>3, StartsCut
    <3>5. TornAt(d, pos[k], r, c)
      BY <1>0, <3>1, <3>2, <3>4 DEF TornAt
    <3> QED
      BY <3>2, <3>5
  <2>2. CASE k = Len(h)
    <3>0. pos[Len(h)] # Len(data)
      BY <1>0, <1>1, <1>6, <2>2
    <3>1. PICK r, c : TornAt(data, pos[k], r, c)
      BY <1>0, <1>1, <1>6, <2>2 DEF Parsed
    <3>2. /\ r \in Record /\ c \in 1..(RecordSize(r) - 1) /\ RecordSize(r) \in Nat
          /\ pos[k] + c <= Len(data) /\ Starts(data, pos[k], r, c)
          /\ pos[k] + c < Len(data) => data[pos[k] + c + 1].off = 1
      BY <3>1, EncodingProperties DEF TornAt
    <3>3. CASE pos[k] + c <= Len(d)
      <4>1. Starts(d, pos[k], r, c)
        BY <2>0, <3>2, <3>3, StartsCut
      <4>2. ASSUME pos[k] + c < Len(d)
            PROVE  d[pos[k] + c + 1].off = 1
        <5>1. pos[k] + c + 1 \in 1..Len(d) /\ pos[k] + c < Len(data)
          BY <1>0, <2>0, <3>2, <4>2
        <5> QED
          BY <1>0, <3>2, <5>1
      <4>3. TornAt(d, pos[k], r, c)
        BY <3>2, <3>3, <4>1, <4>2 DEF TornAt
      <4> QED
        BY <3>0, <4>3
    <3>4. CASE ~(pos[k] + c <= Len(d))
      <4> DEFINE b == Len(d) - pos[k]
      <4>1. b \in 1..(RecordSize(r) - 1) /\ b \in 1..c /\ pos[k] + b = Len(d)
        BY <1>0, <1>6, <2>0, <3>2, <3>4
      <4> HIDE DEF b
      <4>2. Starts(d, pos[k], r, b)
        BY <1>0, <2>0, <3>2, <4>1, StartsCut
      <4>3. TornAt(d, pos[k], r, b)
        BY <1>0, <3>2, <4>1, <4>2 DEF TornAt
      <4> QED
        BY <3>0, <4>3
    <3> QED
      BY <3>3, <3>4
  <2> QED
    BY <1>1, <1>2, <2>1, <2>2
<1>7. Parsed(d, g, q)
  BY <1>1, <1>3, <1>4, <1>5, <1>6 DEF Parsed
<1>8. Cut(g, h)
  BY <1>1, <1>3 DEF Cut
<1>9. pos[Len(h)] = Len(data) => CleanEnd(d, q[Len(g)])
  BY <1>3, <1>4, <1>6 DEF CleanEnd
<1>10. Keeps(d, data, h, pos, g, q)
  BY <1>1, <1>2, <1>3, <1>4, <1>7, <1>8, <1>9 DEF Keeps
<1> QED
  BY <1>10

\* Adding bytes at the end of a string changes none of those it has.
LEMMA StartsExtended ==
  ASSUME NEW data \in Seq(Cell), NEW d \in Seq(Cell), Cut(d, data), NEW r,
         NEW p \in Nat, NEW c \in Nat, p + c <= Len(d), Starts(d, p, r, c)
  PROVE  Starts(data, p, r, c)
<1> SUFFICES ASSUME NEW m \in 1..c
             PROVE  data[p + m] = [rec |-> r, off |-> m]
  BY DEF Starts
<1>1. Len(d) \in Nat /\ p + m \in 1..Len(d)
  BY LenProperties
<1>2. d[p + m] = data[p + m]
  BY <1>1 DEF Cut
<1>3. d[p + m] = [rec |-> r, off |-> m]
  BY <1>1 DEF Starts
<1> QED
  BY <1>2, <1>3

\* Records stay where they are when bytes are appended.
LEMMA LaidExtended ==
  ASSUME NEW data \in Seq(Cell), NEW d \in Seq(Cell), Cut(d, data),
         NEW h \in Seq(Record), NEW pos, Laid(d, h, pos)
  PROVE  Laid(data, h, pos)
<1>1. Len(d) \in Nat /\ Len(data) \in Nat /\ Len(d) <= Len(data)
  BY LenProperties DEF Cut
<1>2. /\ Len(h) \in Nat /\ \A j \in 0..Len(h) : pos[j] \in Nat /\ pos[j] <= Len(d)
      /\ \A j \in 1..Len(h) : h[j] \in Record /\ RecordSize(h[j]) \in Nat \ {0}
                              /\ pos[j - 1] \in Nat /\ pos[j] = pos[j - 1] + RecordSize(h[j])
  BY <1>1, PositionsGrow
<1>3. ASSUME NEW j \in 1..Len(h)
      PROVE  Starts(data, pos[j - 1], h[j], RecordSize(h[j]))
  <2>1. Starts(d, pos[j - 1], h[j], RecordSize(h[j]))
    BY DEF Laid
  <2>2. pos[j - 1] \in Nat /\ RecordSize(h[j]) \in Nat /\ pos[j - 1] + RecordSize(h[j]) <= Len(d)
    BY <1>2
  <2> QED
    BY <2>1, <2>2, StartsExtended
<1>4. pos[Len(h)] <= Len(data)
  BY <1>1, <1>2
<1> QED
  BY <1>3, <1>4 DEF Laid

\* A record written after whole records is one more; written after a torn
\* one it is lost.
LEMMA ParsedAppend ==
  ASSUME NEW data \in Seq(Cell), NEW h \in Seq(Record), NEW pos, Parsed(data, h, pos),
         NEW r \in Record
  PROVE  /\ pos[Len(h)] = Len(data) =>
              \E q : /\ Parsed(data \o Encoding(r), Append(h, r), q)
                     /\ q[Len(h) + 1] = Len(data \o Encoding(r))
                     /\ \A j \in 0..Len(h) : q[j] = pos[j]
         /\ pos[Len(h)] # Len(data) => Parsed(data \o Encoding(r), h, pos)
<1> DEFINE e == data \o Encoding(r)
           n == Len(h)
<1>0. /\ Encoding(r) \in Seq(Cell) /\ Len(Encoding(r)) = RecordSize(r)
      /\ RecordSize(r) \in Nat \ {0}
      /\ \A m \in 1..RecordSize(r) : Encoding(r)[m] = [rec |-> r, off |-> m]
  BY EncodingProperties
<1>1. /\ e \in Seq(Cell) /\ Cut(data, e) /\ Len(e) = Len(data) + RecordSize(r)
      /\ Len(data) \in Nat /\ Len(e) \in Nat
  BY <1>0, CutOfConcat, LenProperties
<1>2. Starts(e, Len(data), r, RecordSize(r))
  <2> SUFFICES ASSUME NEW m \in 1..RecordSize(r)
               PROVE  e[Len(data) + m] = [rec |-> r, off |-> m]
    BY DEF Starts
  <2>1. e[Len(data) + m] = Encoding(r)[m]
    BY <1>0, <1>1, ConcatProperties
  <2> QED
    BY <1>0, <2>1
<1> HIDE DEF e
<1>3. /\ n \in Nat /\ \A j \in 0..n : pos[j] \in Nat /\ pos[j] <= Len(data)
      /\ \A j \in 1..n : h[j] \in Record /\ RecordSize(h[j]) \in Nat \ {0}
                              /\ pos[j - 1] \in Nat /\ pos[j] = pos[j - 1] + RecordSize(h[j])
  BY <1>1, PositionsGrow DEF Parsed
<1>4. Laid(e, h, pos) /\ pos[0] = 0
  BY <1>1, LaidExtended DEF Parsed, Laid
<1>5. ASSUME pos[n] = Len(data)
      PROVE  \E q : /\ Parsed(e, Append(h, r), q) /\ q[n + 1] = Len(e)
                    /\ \A j \in 0..n : q[j] = pos[j]
  <2> DEFINE g == Append(h, r)
             q == [j \in 0..(n + 1) |-> IF j = n + 1 THEN Len(e) ELSE pos[j]]
  <2>1. /\ g \in Seq(Record) /\ Len(g) = n + 1 /\ g[n + 1] = r
        /\ \A j \in 1..n : g[j] = h[j]
    BY AppendProperties
  <2>2. /\ q \in [0..(n + 1) -> Nat] /\ q[n + 1] = Len(e) /\ \A j \in 0..n : q[j] = pos[j]
    BY <1>1, <1>3
  <2> HIDE DEF g, q
  <2>3. ASSUME NEW j \in 1..(n + 1)
        PROVE  q[j] = q[j - 1] + RecordSize(g[j]) /\ Starts(e, q[j - 1], g[j], RecordSize(g[j]))
    <3>1. CASE j = n + 1
      <4>1. j - 1 = n /\ n \in 0..n
        BY <1>3, <3>1
      <4> QED
        BY <1>1, <1>2, <1>5, <2>1, <2>2, <3>1, <4>1
    <3>2. CASE j # n + 1
      <4>1. j \in 1..n /\ j \in 0..n /\ j - 1 \in 0..n
        BY <1>3, <3>2
      <4>2. q[j] = pos[j] /\ q[j - 1] = pos[j - 1] /\ g[j] = h[j]
        BY <2>1, <2>2, <4>1
      <4>3. Starts(e, pos[j - 1], h[j], RecordSize(h[j]))
        BY <1>4, <4>1 DEF Laid
      <4> QED
        BY <1>3, <4>1, <4>2, <4>3
    <3> QED
      BY <3>1, <3>2
  <2>4. q[0] = 0
    BY <1>3, <1>4, <2>2
  <2>5. Parsed(e, g, q)
    BY <1>1, <2>1, <2>2, <2>3, <2>4 DEF Parsed, Laid
  <2> QED
    BY <2>2, <2>5 DEF g
<1>6. ASSUME pos[n] # Len(data)
      PROVE  Parsed(e, h, pos)
  <2>1. pos[n] \in Nat /\ pos[n] < Len(data)
    BY <1>1, <1>3, <1>6
  <2>2. PICK s, c : TornAt(data, pos[n], s, c)
    BY <2>1 DEF Parsed
  <2>3. /\ s \in Record /\ c \in 1..(RecordSize(s) - 1) /\ RecordSize(s) \in Nat
        /\ pos[n] + c <= Len(data) /\ Starts(data, pos[n], s, c)
        /\ pos[n] + c < Len(data) => data[pos[n] + c + 1].off = 1
    BY <2>2, EncodingProperties DEF TornAt
  <2>4. Starts(e, pos[n], s, c) /\ pos[n] + c <= Len(e) /\ pos[n] + c \in Nat
    BY <1>0, <1>1, <2>1, <2>3, StartsExtended
  <2>5. e[pos[n] + c + 1].off = 1
    <3>1. CASE pos[n] + c < Len(data)
      <4>1. pos[n] + c + 1 \in 1..Len(data)
        BY <1>1, <2>4, <3>1
      <4>2. e[pos[n] + c + 1] = data[pos[n] + c + 1]
        BY <1>1, <4>1 DEF Cut
      <4> QED
        BY <2>3, <3>1, <4>2
    <3>2. CASE ~(pos[n] + c < Len(data))
      <4>1. pos[n] + c + 1 = Len(data) + 1 /\ 1 \in 1..RecordSize(r)
        BY <1>0, <1>1, <2>3, <2>4, <3>2
      <4>2. e[Len(data) + 1] = [rec |-> r, off |-> 1]
        BY <1>2, <4>1 DEF Starts
      <4> QED
        BY <4>1, <4>2
    <3> QED
      BY <3>1, <3>2
  <2>6. TornAt(e, pos[n], s, c)
    BY <2>3, <2>4, <2>5 DEF TornAt
  <2> QED
    BY <1>4, <2>6 DEF Parsed
<1> QED
  BY <1>5, <1>6 DEF e

\* A file that has just been opened, and one with a single record.
LEMMA ParsedEmpty ==
  Parsed(<< >>, << >>, [j \in {0} |-> 0]) /\ << >> \in Seq(Record) /\ << >> \in Seq(Cell)
<1>1. Len(<< >>) = 0 /\ << >> \in Seq(Record) /\ << >> \in Seq(Cell) /\ 0..0 = {0} /\ 1..0 = {}
  BY EmptySeq
<1> QED
  BY <1>1 DEF Parsed, Laid

\* What Recover has not read of a file yet.
LEMMA UnreadProperties ==
  ASSUME LogInv, readFile \in DOMAIN files, readPos \in Nat,
         readPos <= Len(files[readFile])
  PROVE  /\ Unread \in Seq(Cell) /\ Len(Unread) = Len(files[readFile]) - readPos
         /\ Len(Unread) \in Nat
         /\ \A x \in 1..Len(Unread) : Unread[x] = files[readFile][readPos + x]
<1>1. files[readFile] \in Seq(Cell) /\ Len(files[readFile]) \in Nat
  BY LogSizes DEF LogInv
<1>2. \A i \in (readPos + 1)..Len(files[readFile]) : files[readFile][i] \in Cell
  BY <1>1, ElementOfSeq
<1> DEFINE d == files[readFile]
           L == Len(files[readFile])
<1> HIDE DEF d, L
<1>3. /\ SubSeq(d, readPos + 1, L) \in Seq(Cell)
      /\ Len(SubSeq(d, readPos + 1, L)) = IF readPos + 1 <= L THEN L - (readPos + 1) + 1 ELSE 0
      /\ \A x \in 1..(L - (readPos + 1) + 1) :
            SubSeq(d, readPos + 1, L)[x] = d[(readPos + 1) + x - 1]
  BY <1>1, <1>2, SubSeqProperties DEF d, L
<1>4. Unread = SubSeq(d, readPos + 1, L)
  BY DEF Unread, d, L
<1>5. Unread \in Seq(Cell) /\ Len(Unread) = L - readPos /\ Len(Unread) \in Nat
  BY <1>1, <1>3, <1>4 DEF L
<1>6. ASSUME NEW x \in 1..Len(Unread)
      PROVE  Unread[x] = d[readPos + x]
  <2>1. x \in 1..(L - (readPos + 1) + 1) /\ (readPos + 1) + x - 1 = readPos + x
    BY <1>1, <1>5 DEF L
  <2> QED
    BY <1>3, <1>4, <2>1
<1> QED
  BY <1>5, <1>6 DEF d, L

\* What Recover compares when the unread bytes start with some of a record.
LEMMA StartsRead ==
  ASSUME LogInv, readFile \in DOMAIN files, readPos \in Nat,
         NEW r \in Record, NEW c \in Nat, Starts(files[readFile], readPos, r, c),
         readPos + c <= Len(files[readFile]), NEW n \in 0..c
  PROVE  SubSeq(Unread, 1, n) = Cells(r, 0, n) /\ (n > 0 => Found = r)
<1>1. Len(files[readFile]) \in Nat
  BY LogSizes DEF LogInv
<1>2. readPos <= Len(files[readFile])
  BY <1>1
<1>3. /\ Unread \in Seq(Cell) /\ Len(Unread) = Len(files[readFile]) - readPos
      /\ Len(Unread) \in Nat
      /\ \A x \in 1..Len(Unread) : Unread[x] = files[readFile][readPos + x]
  BY <1>2, UnreadProperties
<1>4. ASSUME NEW x \in 1..n
      PROVE  Unread[x] = [rec |-> r, off |-> x]
  <2>1. x \in 1..c /\ x \in 1..Len(Unread)
    BY <1>1, <1>3
  <2>2. files[readFile][readPos + x] = [rec |-> r, off |-> x]
    BY <2>1 DEF Starts
  <2> QED
    BY <1>3, <2>1, <2>2
<1>5. n \in 0..Len(Unread)
  BY <1>1, <1>3
<1> DEFINE s == SubSeq(Unread, 1, n)
           e == Cells(r, 0, n)
<1>6. s \in Seq(Cell) /\ Len(s) = n /\ \A x \in 1..n : s[x] = Unread[x]
  BY <1>3, <1>5, CutOfSubSeq DEF Cut
<1>7. e \in Seq(Cell) /\ Len(e) = n /\ \A x \in 1..n : e[x] = [rec |-> r, off |-> x]
  <2>1. n \in Nat /\ 0 \in Nat
    OBVIOUS
  <2>2. /\ Cells(r, 0, n) \in Seq(Cell) /\ Len(Cells(r, 0, n)) = n
        /\ \A x \in 1..n : Cells(r, 0, n)[x] = [rec |-> r, off |-> 0 + x]
    BY <2>1, CellsProperties
  <2>3. \A x \in 1..n : 0 + x = x
    OBVIOUS
  <2> QED
    BY <2>2, <2>3
<1> HIDE DEF s, e
<1>8. s = e
  <2>1. Len(s) = Len(e) /\ \A x \in 1..Len(s) : s[x] = e[x]
    BY <1>4, <1>6, <1>7
  <2> QED
    BY <1>6, <1>7, <2>1, SeqEqual
<1>9. ASSUME n > 0
      PROVE  Found = r
  <2>1. 1 \in 1..n
    BY <1>9
  <2>2. Unread[1] = [rec |-> r, off |-> 1]
    BY <1>4, <2>1
  <2>3. Unread[1].rec = r
    BY <2>2
  <2> QED
    BY <2>3 DEF Found
<1> QED
  BY <1>8, <1>9 DEF s, e

\* Recover delivers exactly the records a file is parsed to, one by one.
LEMMA ReadsNext ==
  ASSUME LogInv, readFile \in DOMAIN files,
         NEW h \in Seq(Record), NEW pos, Parsed(files[readFile], h, pos),
         NEW k \in 0..Len(h), readPos = pos[k], k < Len(h)
  PROVE  /\ RecordIntact /\ ~LeaveFile
         /\ Found = h[k + 1] /\ readPos + RecordSize(Found) = pos[k + 1]
<1>1. files[readFile] \in Seq(Cell) /\ Len(files[readFile]) \in Nat
  BY LogSizes DEF LogInv
<1>2. /\ Laid(files[readFile], h, pos) /\ Len(h) \in Nat
      /\ \A j \in 0..Len(h) : pos[j] \in Nat /\ pos[j] <= Len(files[readFile])
      /\ \A j \in 1..Len(h) : h[j] \in Record /\ RecordSize(h[j]) \in Nat \ {0}
                              /\ pos[j - 1] \in Nat /\ pos[j] = pos[j - 1] + RecordSize(h[j])
  BY <1>1, PositionsGrow DEF Parsed
<1> DEFINE r == h[k + 1]
<1>3. k + 1 \in 1..Len(h) /\ (k + 1) - 1 = k /\ k + 1 \in 0..Len(h)
  BY <1>2
<1>4. r \in Record /\ RecordSize(r) \in Nat \ {0} /\ pos[k + 1] = readPos + RecordSize(r)
      /\ readPos \in Nat /\ pos[k + 1] \in Nat /\ pos[k + 1] <= Len(files[readFile])
  BY <1>2, <1>3
<1>5. Starts(files[readFile], readPos, r, RecordSize(r))
  BY <1>2, <1>3 DEF Laid
<1> HIDE DEF r
<1>6. HeaderSize \in 0..RecordSize(r) /\ HeaderSize \in Nat \ {0}
  BY <1>4, EncodingProperties, SizesAssumption
<1>7. SubSeq(Unread, 1, HeaderSize) = Cells(r, 0, HeaderSize) /\ Found = r
  BY <1>4, <1>5, <1>6, StartsRead
<1>8. SubSeq(Unread, 1, RecordSize(r)) = Cells(r, 0, RecordSize(r))
  BY <1>4, <1>5, StartsRead, SMTT(30)
<1>9. Len(Unread) \in Nat /\ Len(Unread) >= RecordSize(r)
  BY <1>1, <1>4, UnreadProperties
<1>10. ~ShortHeader
  BY <1>4, <1>6, <1>9 DEF ShortHeader
<1>11. HeaderIntact /\ ~ShortBody
  BY <1>4, <1>7, <1>9, <1>10 DEF HeaderIntact, ShortBody, HeaderBytes
<1>12. RecordIntact
  BY <1>7, <1>8, <1>11 DEF RecordIntact
<1>13. ~LeaveFile
  BY <1>10, <1>11 DEF LeaveFile, HeaderGarbled
<1> QED
  BY <1>4, <1>7, <1>12, <1>13 DEF r

\* ... and nothing after them; a cut-off record is no corruption as long as
\* nothing was appended behind it.
LEMMA ReadsNoMore ==
  ASSUME LogInv, readFile \in DOMAIN files,
         NEW h \in Seq(Record), NEW pos, Parsed(files[readFile], h, pos),
         readPos = pos[Len(h)]
  PROVE  /\ ~RecordIntact
         /\ CleanEnd(files[readFile], readPos) => ShortHeader \/ ShortBody
<1> DEFINE d == files[readFile]
<1>1. d \in Seq(Cell) /\ Len(d) \in Nat
  BY LogSizes DEF LogInv
<1>2. readPos \in Nat /\ readPos <= Len(d)
  BY <1>1, PositionsGrow DEF Parsed
<1>3. /\ Unread \in Seq(Cell) /\ Len(Unread) = Len(d) - readPos /\ Len(Unread) \in Nat
      /\ \A x \in 1..Len(Unread) : Unread[x] = d[readPos + x]
  BY <1>2, UnreadProperties
<1>4. HeaderSize \in Nat \ {0}
  BY SizesAssumption
<1>5. CASE readPos = Len(d)
  <2>1. ShortHeader
    BY <1>1, <1>3, <1>4, <1>5 DEF ShortHeader
  <2> QED
    BY <2>1 DEF RecordIntact, HeaderIntact
<1>6. ASSUME NEW r, NEW c, TornAt(d, readPos, r, c)
      PROVE  /\ ~RecordIntact
             /\ readPos + c = Len(d) => ShortHeader \/ ShortBody
  <2>1. /\ r \in Record /\ RecordSize(r) \in Nat \ {0} /\ HeaderSize <= RecordSize(r)
        /\ c \in 1..(RecordSize(r) - 1) /\ c \in Nat /\ readPos + c <= Len(d)
        /\ Starts(d, readPos, r, c)
        /\ readPos + c < Len(d) => d[readPos + c + 1].off = 1
    BY <1>6, EncodingProperties DEF TornAt
  <2>2. Found = r
    BY <1>2, <2>1, StartsRead
  <2>3. ASSUME readPos + c = Len(d), ~ShortHeader
        PROVE  ShortBody
    <3>1. Len(Unread) = c /\ HeaderSize <= c
      BY <1>1, <1>2, <1>3, <1>4, <2>1, <2>3 DEF ShortHeader
    <3>2. SubSeq(Unread, 1, HeaderSize) = Cells(r, 0, HeaderSize)
      BY <1>2, <1>4, <2>1, <3>1, StartsRead
    <3> QED
      BY <2>1, <2>2, <2>3, <3>1, <3>2 DEF HeaderIntact, ShortBody, HeaderBytes
  <2>4. ASSUME RecordIntact
        PROVE  FALSE
    <3>1. /\ HeaderIntact /\ ~ShortBody
          /\ SubSeq(Unread, 1, RecordSize(r)) = Encoding(r)
      BY <2>2, <2>4 DEF RecordIntact, Encoding
    <3>2. Len(Unread) >= RecordSize(r)
      BY <1>3, <2>1, <2>2, <3>1 DEF ShortBody
    <3>3. c + 1 \in 1..RecordSize(r) /\ c + 1 \in 1..Len(Unread) /\ readPos + c < Len(d)
      BY <1>1, <1>2, <1>3, <2>1, <3>2, SMTT(30)
    <3>4. Unread[c + 1].off = 1
      <4>1. readPos + (c + 1) = readPos + c + 1
        BY <1>2, <2>1
      <4> QED
        BY <1>3, <2>1, <3>3, <4>1
    <3>5. SubSeq(Unread, 1, RecordSize(r))[c + 1] = Unread[c + 1]
      <4> DEFINE N == RecordSize(r)
                 u == Unread
      <4>1. N \in 0..Len(u) /\ u \in Seq(Cell) /\ c + 1 \in 1..N
        BY <1>3, <2>1, <3>2, <3>3
      <4> HIDE DEF N, u
      <4>2. Len(SubSeq(u, 1, N)) = N /\ Cut(SubSeq(u, 1, N), u)
        BY <4>1, CutOfSubSeq, Zenon
      <4>3. SubSeq(u, 1, N)[c + 1] = u[c + 1]
        BY <4>1, <4>2 DEF Cut
      <4> QED
        BY <4>3 DEF N, u
    <3>6. Encoding(r)[c + 1].off = c + 1
      <4>1. Encoding(r)[c + 1] = [rec |-> r, off |-> c + 1]
        BY <2>1, <3>3, EncodingProperties
      <4> QED
        BY <4>1
    <3>7. c + 1 = 1
      BY <3>1, <3>4, <3>5, <3>6
    <3> QED
      BY <2>1, <3>7
  <2> QED
    BY <2>3, <2>4
<1>7. CASE readPos < Len(d)
  <2>1. \E r, c : TornAt(d, readPos, r, c)
    BY <1>7 DEF Parsed
  <2>2. ~RecordIntact
    BY <1>6, <2>1
  <2>3. CleanEnd(d, readPos) => ShortHeader \/ ShortBody
    BY <1>6, <1>7 DEF CleanEnd
  <2> QED
    BY <2>2, <2>3
<1> QED
  BY <1>1, <1>2, <1>5, <1>7

-----------------------------------------------------------------------------
(* The records whose last byte is in a string of bytes.                    *)

\* What reading one cell more finds.
After(found, c) == IF c.off = RecordSize(c.rec) THEN Append(found, c.rec) ELSE found

\* The same as a function of what was found and the position.
FindStep(d) ==
  [p \in Seq(Record) \X (Nat \ {0}) |->
     IF p[2] \in DOMAIN d THEN After(p[1], d[p[2]]) ELSE p[1]]

\* acc[m] is what the first m cells of d hold.
Finds(acc, d) ==
  /\ acc[0] = << >>
  /\ \A m \in 0..Len(d) : acc[m] \in Seq(Record)
  /\ \A m \in 1..Len(d) : acc[m] = After(acc[m - 1], d[m])

\* The first c bytes of record r, read from position p on, add it when they
\* are all of it.
FoundBy(acc, p, r, c) ==
  acc[p + c] = IF c = RecordSize(r) THEN Append(acc[p], r) ELSE acc[p]

\* t is the first c bytes of record r.
BytesOf(t, r, c) == Len(t) = c /\ \A m \in 1..c : t[m] = [rec |-> r, off |-> m]

\* A step finds records.
LEMMA FindStepType ==
  ASSUME NEW d \in Seq(Cell)
  PROVE  FindStep(d) \in [Seq(Record) \X (Nat \ {0}) -> Seq(Record)]
<1>1. ASSUME NEW p \in Seq(Record) \X (Nat \ {0})
      PROVE  (IF p[2] \in DOMAIN d THEN After(p[1], d[p[2]]) ELSE p[1]) \in Seq(Record)
  <2>1. p[1] \in Seq(Record)
    OBVIOUS
  <2>2. CASE p[2] \in DOMAIN d
    <3>1. d[p[2]] \in Cell
      BY <2>2, ElementOfSeq, LenProperties
    <3>2. d[p[2]].rec \in Record
      BY <3>1 DEF Cell
    <3>3. After(p[1], d[p[2]]) \in Seq(Record)
      BY <2>1, <3>2, AppendProperties DEF After
    <3> QED
      BY <2>2, <3>3
  <2>3. CASE p[2] \notin DOMAIN d
    BY <2>1, <2>3
  <2> QED
    BY <2>2, <2>3
<1> QED
  BY <1>1, Zenon DEF FindStep

\* RecordedIn takes these steps.
LEMMA RecordedFinds ==
  ASSUME NEW d \in Seq(Cell)
  PROVE  \E acc : Finds(acc, d) /\ RecordedIn(d) = acc[Len(d)]
<1> DEFINE step == FindStep(d)
           T == Seq(Record)
           Body(iter) == [u \in SUBSET (DOMAIN d) |->
                            IF u = {} THEN << >> ELSE After(iter[u \ {Max(u)}], d[Max(u)])]
           It == CHOOSE iter : iter = Body(iter)
<1>1. RecordedIn(d) = It[DOMAIN d]
  BY DEF RecordedIn, FoldLeft, MapThenFoldSet, After
<1>2. PICK n \in Nat : n = Len(d) /\ DOMAIN d = 1..n /\ << >> \in T
  BY LenProperties, EmptySeq
<1>3. step \in [T \X (Nat \ {0}) -> T]
  BY FindStepType
<1>4. ASSUME NEW t \in T, NEW m \in 1..n
      PROVE  step[<<t, m>>] = After(t, d[m])
  <2>1. <<t, m>> \in T \X (Nat \ {0}) /\ m \in DOMAIN d
    BY <1>2
  <2> QED
    BY <2>1 DEF FindStep
<1> HIDE DEF step, T
<1>5. ASSUME NEW u \in SUBSET (1..n), u # {}, NEW f, f[u \ {Max(u)}] \in T
      PROVE  step[<<f[u \ {Max(u)}], Max(u)>>] = Body(f)[u]
  <2>1. Max(u) \in 1..n
    BY <1>2, <1>5, MaxOfPositions
  <2>2. Body(f)[u] = After(f[u \ {Max(u)}], d[Max(u)])
    BY <1>2, <1>5
  <2> QED
    BY <1>4, <1>5, <2>1, <2>2
<1>6. PICK it \in [SUBSET (1..n) -> T] : Folds(it, << >>, step, n)
  BY <1>2, <1>3, FoldsExist
<1>7. ASSUME NEW f, f = Body(f)
      PROVE  FoldsFrom(T, f, << >>, step, n)
  <2>1. ASSUME NEW u \in SUBSET (1..n), u # {}, f[u \ {Max(u)}] \in T
        PROVE  f[u] = step[<<f[u \ {Max(u)}], Max(u)>>]
    BY <1>5, <1>7, <2>1
  <2>2. f[{}] = << >>
    BY <1>2, <1>7
  <2> QED
    BY <2>1, <2>2 DEF FoldsFrom
<1>8. it = Body(it)
  <2>1. ASSUME NEW u \in SUBSET (1..n) PROVE it[u] = Body(it)[u]
    <3>1. CASE u = {}
      BY <1>2, <1>6, <3>1 DEF Folds
    <3>2. CASE u # {}
      <4>1. it[u \ {Max(u)}] \in T
        OBVIOUS
      <4>2. it[u] = step[<<it[u \ {Max(u)}], Max(u)>>]
        BY <1>6, <3>2 DEF Folds
      <4> QED
        BY <1>5, <3>2, <4>1, <4>2
    <3> QED
      BY <3>1, <3>2
  <2> QED
    BY <1>2, <2>1
<1> HIDE DEF Body
<1>9. It = Body(It)
  BY <1>8
<1> HIDE DEF It
<1>10. FoldsFrom(T, It, << >>, step, n)
  BY <1>7, <1>9
<1> DEFINE acc == [m \in 0..n |-> It[1..m]]
<1>11. RecordedIn(d) = acc[n] /\ acc = [m \in 0..n |-> It[1..m]]
  BY <1>1, <1>2
<1> HIDE DEF acc
<1>12. Accumulates(acc, << >>, step, n)
  BY <1>2, <1>3, <1>10, <1>11, FoldsAccumulate
<1>13. \A m \in 0..n : acc[m] \in T
  <2>1. SameSteps(T, step, step, n)
    BY DEF SameSteps
  <2> QED
    BY <1>2, <1>3, <1>12, <2>1, AccumulationUnique
<1>14. \A m \in 1..n : acc[m] = After(acc[m - 1], d[m])
  <2> SUFFICES ASSUME NEW m \in 1..n PROVE acc[m] = After(acc[m - 1], d[m])
    OBVIOUS
  <2>1. m - 1 \in 0..n
    BY <1>2
  <2>2. acc[m - 1] \in T
    BY <1>13, <2>1
  <2>3. acc[m] = step[<<acc[m - 1], m>>]
    BY <1>12 DEF Accumulates
  <2> QED
    BY <1>4, <2>2, <2>3
<1>15. acc[0] = << >>
  BY <1>12 DEF Accumulates
<1>16. Finds(acc, d)
  BY <1>2, <1>13, <1>14, <1>15 DEF Finds, T
<1> QED
  BY <1>2, <1>11, <1>16

\* Reading the first cells of a record finds it when they are all of it.
LEMMA FindsRun ==
  ASSUME NEW d \in Seq(Cell), NEW acc, Finds(acc, d), NEW p \in Nat, NEW r \in Record,
         NEW c \in 0..RecordSize(r), p + c <= Len(d), Starts(d, p, r, c)
  PROVE  FoundBy(acc, p, r, c)
<1> DEFINE Result(m) == IF m = RecordSize(r) THEN Append(acc[p], r) ELSE acc[p]
           S == {m \in Nat : m <= c => acc[p + m] = Result(m)}
<1>1. RecordSize(r) \in Nat \ {0} /\ c \in Nat /\ c <= RecordSize(r) /\ Len(d) \in Nat
  BY EncodingProperties, LenProperties
<1>2. 0 \in S
  BY <1>1
<1>3. ASSUME NEW m \in Nat, m \in S
      PROVE  m + 1 \in S
  <2> SUFFICES ASSUME m + 1 <= c PROVE acc[p + (m + 1)] = Result(m + 1)
    OBVIOUS
  <2>1. /\ m # RecordSize(r) /\ m <= c /\ m + 1 \in 1..c /\ p + (m + 1) \in 1..Len(d)
        /\ (p + (m + 1)) - 1 = p + m
    BY <1>1
  <2>2. acc[p + m] = acc[p]
    BY <1>3, <2>1
  <2>3. d[p + (m + 1)] = [rec |-> r, off |-> m + 1]
    BY <2>1 DEF Starts
  <2>4. d[p + (m + 1)].rec = r /\ d[p + (m + 1)].off = m + 1
    BY <2>3
  <2>5. acc[p + (m + 1)] = After(acc[p + m], d[p + (m + 1)])
    BY <2>1 DEF Finds
  <2> QED
    BY <2>2, <2>4, <2>5 DEF After
<1> HIDE DEF S
<1>4. c \in S
  BY <1>1, <1>2, <1>3, SetInduction
<1>5. acc[p + c] = Result(c)
  BY <1>1, <1>4 DEF S
<1> QED
  BY <1>5 DEF FoundBy

\* What the start of a string holds does not depend on its end.
LEMMA FindsSame ==
  ASSUME NEW d \in Seq(Cell), NEW e \in Seq(Cell), NEW acc, NEW own,
         Finds(acc, d), Finds(own, e), Cut(d, e)
  PROVE  own[Len(d)] = acc[Len(d)]
<1> DEFINE S == {m \in Nat : m <= Len(d) => own[m] = acc[m]}
<1>1. Len(d) \in Nat /\ Len(e) \in Nat /\ Len(d) <= Len(e) /\ \A j \in 1..Len(d) : d[j] = e[j]
  BY LenProperties DEF Cut
<1>2. 0 \in S
  BY DEF Finds
<1>3. ASSUME NEW m \in Nat, m \in S
      PROVE  m + 1 \in S
  <2> SUFFICES ASSUME m + 1 <= Len(d) PROVE own[m + 1] = acc[m + 1]
    OBVIOUS
  <2>1. /\ m + 1 \in 1..Len(d) /\ m + 1 \in 1..Len(e) /\ (m + 1) - 1 = m /\ m <= Len(d)
    BY <1>1
  <2>2. acc[m + 1] = After(acc[m], d[m + 1]) /\ own[m + 1] = After(own[m], e[m + 1])
    BY <2>1 DEF Finds
  <2> QED
    BY <1>1, <1>3, <2>1, <2>2
<1> HIDE DEF S
<1>4. Len(d) \in S
  BY <1>1, <1>2, <1>3, SetInduction
<1> QED
  BY <1>1, <1>4 DEF S

\* Bytes put behind others start where those end.
LEMMA PutBehind ==
  ASSUME NEW d \in Seq(Cell), NEW t \in Seq(Cell), NEW e \in Seq(Cell), e = d \o t,
         NEW r, NEW c \in Nat, BytesOf(t, r, c)
  PROVE  Cut(d, e) /\ Starts(e, Len(d), r, c) /\ Len(e) = Len(d) + c
<1>1. Len(d) \in Nat /\ Len(t) \in Nat
  BY LenProperties
<1>2. /\ Len(e) = Len(d) + Len(t)
      /\ \A i \in 1..(Len(d) + Len(t)) : e[i] = IF i <= Len(d) THEN d[i] ELSE t[i - Len(d)]
  BY ConcatProperties
<1>3. Cut(d, e)
  BY <1>1, <1>2 DEF Cut
<1>4. ASSUME NEW m \in 1..c PROVE e[Len(d) + m] = [rec |-> r, off |-> m]
  <2>1. /\ Len(d) + m \in 1..(Len(d) + Len(t)) /\ ~(Len(d) + m <= Len(d))
        /\ (Len(d) + m) - Len(d) = m
    BY <1>1 DEF BytesOf
  <2> QED
    BY <1>2, <2>1 DEF BytesOf
<1>5. Len(e) = Len(d) + c
  BY <1>2 DEF BytesOf
<1> QED
  BY <1>3, <1>4, <1>5 DEF Starts

\* A file with a record more holds that too.
LEMMA RecordedMore ==
  ASSUME NEW d \in Seq(Cell), NEW r \in Record, NEW e \in Seq(Cell), e = d \o Encoding(r)
  PROVE  /\ RecordedIn(d) \in Seq(Record)
         /\ RecordedIn(e) = Append(RecordedIn(d), r)
<1>1. PICK acc : Finds(acc, d) /\ RecordedIn(d) = acc[Len(d)]
  BY RecordedFinds
<1>2. PICK own : Finds(own, e) /\ RecordedIn(e) = own[Len(e)]
  BY RecordedFinds
<1>3. PICK t \in Seq(Cell), z \in Nat :
        t = Encoding(r) /\ z = RecordSize(r) /\ BytesOf(t, r, z)
  BY EncodingProperties DEF BytesOf
<1>4. e = d \o t
  BY <1>3
<1>5. Cut(d, e) /\ Starts(e, Len(d), r, z) /\ Len(e) = Len(d) + z
  BY <1>3, <1>4, PutBehind, ZenonT(30)
<1>6. own[Len(d)] = acc[Len(d)]
  BY <1>1, <1>2, <1>5, FindsSame
<1>7. /\ Len(d) \in Nat /\ Len(e) \in Nat /\ z \in 0..RecordSize(r) /\ Len(d) + z <= Len(e)
      /\ z = RecordSize(r)
  BY <1>3, <1>5, LenProperties
<1>8. FoundBy(own, Len(d), r, z)
  BY <1>2, <1>5, <1>7, FindsRun
<1>9. acc[Len(d)] \in Seq(Record)
  BY <1>1, <1>7 DEF Finds
<1> QED
  BY <1>1, <1>2, <1>5, <1>6, <1>7, <1>8, <1>9 DEF FoundBy

\* An empty file holds none.
LEMMA RecordedNothing == RecordedIn(<< >>) = << >>
<1>1. << >> \in Seq(Cell) /\ Len(<< >>) = 0
  BY EmptySeq
<1>2. PICK acc : Finds(acc, << >>) /\ RecordedIn(<< >>) = acc[Len(<< >>)]
  BY <1>1, RecordedFinds
<1> QED
  BY <1>1, <1>2 DEF Finds

\* What Recover reads from a file is what it holds, unless a torn record is
\* followed by other bytes.
LEMMA RecordedParsed ==
  ASSUME NEW d \in Seq(Cell), NEW h \in Seq(Record), NEW pos, Parsed(d, h, pos),
         CleanEnd(d, pos[Len(h)])
  PROVE  RecordedIn(d) = h
<1>1. PICK acc : Finds(acc, d) /\ RecordedIn(d) = acc[Len(d)]
  BY RecordedFinds
<1>2. /\ Len(d) \in Nat /\ Len(h) \in Nat /\ Laid(d, h, pos)
      /\ \A j \in 1..Len(h) : h[j] \in Record
  BY LenProperties, ElementOfSeq DEF Parsed
<1>3. \A j \in 0..Len(h) : pos[j] \in Nat /\ pos[j] <= Len(d)
  <2>1. /\ \A j, k \in 0..Len(h) : pos[j] \in Nat /\ (j <= k => pos[j] <= pos[k])
        /\ pos[Len(h)] <= Len(d) /\ Len(h) \in 0..Len(h)
    BY <1>2, PositionsGrow, SMTT(30) DEF Laid
  <2> QED
    BY <1>2, <2>1
<1> DEFINE Read(j) == /\ acc[pos[j]] \in Seq(Record) /\ Len(acc[pos[j]]) = j
                      /\ \A k \in 1..j : acc[pos[j]][k] = h[k]
           S == {j \in Nat : j <= Len(h) => Read(j)}
<1>4. 0 \in S
  BY <1>1, <1>2 DEF Finds, Laid
<1>5. ASSUME NEW j \in Nat, j \in S
      PROVE  j + 1 \in S
  <2> SUFFICES ASSUME j + 1 <= Len(h) PROVE Read(j + 1)
    OBVIOUS
  <2>1. j \in 0..Len(h) /\ j + 1 \in 1..Len(h) /\ j + 1 \in 0..Len(h) /\ (j + 1) - 1 = j
    BY <1>2
  <2> DEFINE r == h[j + 1]
  <2>2. /\ r \in Record /\ pos[j + 1] = pos[j] + RecordSize(r) /\ pos[j + 1] <= Len(d)
        /\ pos[j] \in Nat /\ Starts(d, pos[j], r, RecordSize(r))
    BY <1>2, <1>3, <2>1 DEF Laid
  <2> HIDE DEF r
  <2>3. PICK z \in 0..RecordSize(r) : z = RecordSize(r) /\ z \in Nat
    BY <2>2, EncodingProperties
  <2>4. acc[pos[j] + z] = Append(acc[pos[j]], r)
    <3>1. pos[j] + z <= Len(d) /\ Starts(d, pos[j], r, z)
      BY <2>2, <2>3
    <3>2. FoundBy(acc, pos[j], r, z)
      BY <1>1, <2>2, <2>3, <3>1, FindsRun
    <3> QED
      BY <2>3, <3>2 DEF FoundBy
  <2>5. Read(j)
    BY <1>5, <2>1
  <2>6. /\ acc[pos[j + 1]] \in Seq(Record) /\ Len(acc[pos[j + 1]]) = j + 1
        /\ acc[pos[j + 1]][j + 1] = r
        /\ \A k \in 1..j : acc[pos[j + 1]][k] = acc[pos[j]][k]
    <3>1. acc[pos[j + 1]] = Append(acc[pos[j]], r)
      BY <2>2, <2>3, <2>4
    <3> QED
      BY <2>2, <2>5, <3>1, AppendProperties
  <2>7. \A k \in 1..(j + 1) : k \in 1..j \/ k = j + 1
    OBVIOUS
  <2> QED
    BY <2>5, <2>6, <2>7 DEF r
<1> HIDE DEF S
<1>6. Len(h) \in S
  BY <1>2, <1>4, <1>5, SetInduction
<1>7. Read(Len(h))
  BY <1>2, <1>6 DEF S
<1>8. acc[pos[Len(h)]] = h
  BY <1>7, SeqEqual
<1>9. acc[Len(d)] = acc[pos[Len(h)]]
  <2> DEFINE p == pos[Len(h)]
  <2>1. p \in Nat /\ p <= Len(d)
    BY <1>2, <1>3
  <2>2. CASE p = Len(d)
    BY <2>2
  <2>3. ASSUME NEW r, NEW c, TornAt(d, p, r, c), p + c = Len(d)
        PROVE  acc[Len(d)] = acc[p]
    <3>1. /\ r \in Record /\ RecordSize(r) \in Nat /\ c \in 1..(RecordSize(r) - 1)
          /\ Starts(d, p, r, c)
      BY <2>3, EncodingProperties DEF TornAt
    <3>2. c \in 0..RecordSize(r) /\ c # RecordSize(r) /\ p + c <= Len(d)
      BY <1>2, <2>3, <3>1
    <3> HIDE DEF p
    <3>3. acc[p + c] = acc[p]
      BY <1>1, <2>1, <3>1, <3>2, FindsRun DEF FoundBy
    <3> QED
      BY <2>3, <3>3
  <2>4. CASE p < Len(d)
    <3>1. \E r, c : TornAt(d, p, r, c) /\ p + c = Len(d)
      BY <2>4 DEF CleanEnd
    <3> QED
      BY <2>3, <3>1
  <2> QED
    BY <1>2, <2>1, <2>2, <2>4
<1> QED
  BY <1>1, <1>8, <1>9

-----------------------------------------------------------------------------
(* The records of every file, and how the log's operations change them.    *)

\* lists[i] is what Recover reads from file i, were all its bytes written
\* out, and pos[i] says where its records end.
LogParsed(lists, pos) ==
  \A i \in 1..Len(files) : lists[i] \in Seq(Record) /\ Parsed(Pipe(i), lists[i], pos[i])

\* Each of the first n lists of g is the start of the one of h, and the next
\* record of h does not fit the bytes that are left.
Shortened(g, q, h, pos, n, sizes) ==
  \A i \in 1..n :
    /\ Cut(g[i], h[i])
    /\ \A j \in 0..Len(g[i]) : q[i][j] = pos[i][j]
    /\ Len(g[i]) < Len(h[i]) => sizes[i] < pos[i][Len(g[i]) + 1]

Whole(lists, pos, i) == pos[i][Len(lists[i])] = Len(Pipe(i))

\* Bytes that only move between the layers leave the records as they are.
LEMMA SameParsed ==
  ASSUME WalTypeOK, SamePipes, NEW lists, NEW pos, LogParsed(lists, pos)
  PROVE  LogParsed(lists, pos)'
<1>1. /\ Len(files') = Len(files) /\ DOMAIN files = 1..Len(files)
      /\ \A i \in 1..Len(files) : Pipe(i)' = Pipe(i)
  BY LogSizes DEF SamePipes
<1>2. ASSUME NEW i \in 1..Len(files)
      PROVE  lists[i] \in Seq(Record) /\ Parsed(Pipe(i)', lists[i], pos[i])
  BY <1>1 DEF LogParsed
<1> QED
  BY <1>1, <1>2 DEF LogParsed

\* Lost bytes take records off the end of some files.
LEMMA CutParsed ==
  ASSUME WalTypeOK, NEW lists, NEW pos, LogParsed(lists, pos),
         NEW sizes, NEW n \in 0..Len(files),
         \A i \in 1..n : /\ Pipe(i)' \in Seq(Cell) /\ Cut(Pipe(i)', Pipe(i))
                         /\ sizes[i] = Len(Pipe(i)')
  PROVE  \E g, q : /\ Shortened(g, q, lists, pos, n, sizes)
                   /\ \A i \in 1..n :
                        /\ g[i] \in Seq(Record) /\ Parsed(Pipe(i)', g[i], q[i])
                        /\ Whole(lists, pos, i) => CleanEnd(Pipe(i)', q[i][Len(g[i])])
<1> DEFINE Fits(i, g, q) == Keeps(Pipe(i)', Pipe(i), lists[i], pos[i], g, q)
           w == [i \in 1..n |-> CHOOSE p : Fits(i, p[1], p[2])]
           G == [i \in 1..n |-> w[i][1]]
           Q == [i \in 1..n |-> w[i][2]]
<1>1. ASSUME NEW i \in 1..n
      PROVE  Fits(i, G[i], Q[i])
  <2>1. Pipe(i) \in Seq(Cell) /\ Parsed(Pipe(i), lists[i], pos[i]) /\ lists[i] \in Seq(Record)
    <3>1. Len(files) \in Nat /\ DOMAIN files = 1..Len(files)
      BY LogSizes DEF Current
    <3>2. i \in 1..Len(files)
      BY <3>1
    <3> QED
      BY <3>1, <3>2, PipeTypes DEF LogParsed
  <2>2. \E g, q : Fits(i, g, q)
    BY <2>1, ParsedCut
  <2> HIDE DEF Fits
  <2>3. PICK g, q : Fits(i, g, q)
    BY <2>2
  <2>4. Fits(i, <<g, q>>[1], <<g, q>>[2])
    BY <2>3
  <2>5. Fits(i, w[i][1], w[i][2])
    BY <2>4
  <2> QED
    BY <2>5
<1> HIDE DEF w, G, Q
<1>2. Shortened(G, Q, lists, pos, n, sizes)
  BY <1>1 DEF Shortened, Keeps
<1>3. \A i \in 1..n :
        /\ G[i] \in Seq(Record) /\ Parsed(Pipe(i)', G[i], Q[i])
        /\ Whole(lists, pos, i) => CleanEnd(Pipe(i)', Q[i][Len(G[i])])
  BY <1>1 DEF Keeps, Whole
<1> QED
  BY <1>2, <1>3

\* WriteRecord adds its record to the current file's, unless the stream has
\* failed or a torn record is in the way.
LEMMA AppendParsed ==
  ASSUME LogInv, NEW r \in Record, AppendToCurrent(r) \/ ReopenAndAppend(r),
         NEW lists, NEW pos, LogParsed(lists, pos)
  PROVE  \E g, q :
           /\ LogParsed(g, q)'
           /\ \A i \in 1..Len(files) :
                IF i = Current /\ Carries /\ Whole(lists, pos, i)
                THEN /\ g[i] = Append(lists[i], r) /\ q[i][Len(g[i])] = Len(Pipe(i)')
                     /\ \A j \in 0..Len(lists[i]) : q[i][j] = pos[i][j]
                ELSE g[i] = lists[i] /\ q[i] = pos[i]
<1> DEFINE good == Carries
           c == Len(files)
<1>0. /\ c \in 1..Len(files) /\ Current = c /\ DOMAIN files = 1..Len(files)
      /\ WalTypeOK /\ good \in BOOLEAN
  BY LogSizes DEF Current, LogInv, Carries
<1>1. /\ Len(files') = Len(files)
      /\ \A i \in 1..Len(files) :
           Pipe(i)' = IF i = c /\ good THEN Pipe(i) \o Encoding(r) ELSE Pipe(i)
  BY <1>0, AppendPipes
<1> HIDE DEF good
<1>2. \A i \in 1..Len(files) :
        /\ lists[i] \in Seq(Record) /\ Parsed(Pipe(i), lists[i], pos[i])
        /\ Pipe(i) \in Seq(Cell)
  BY <1>0, PipeTypes DEF LogParsed
<1>3. /\ Whole(lists, pos, c) =>
           \E e : /\ Parsed(Pipe(c) \o Encoding(r), Append(lists[c], r), e)
                  /\ e[Len(lists[c]) + 1] = Len(Pipe(c) \o Encoding(r))
                  /\ \A j \in 0..Len(lists[c]) : e[j] = pos[c][j]
      /\ ~Whole(lists, pos, c) => Parsed(Pipe(c) \o Encoding(r), lists[c], pos[c])
  BY <1>0, <1>2, ParsedAppend DEF Whole
<1>4. /\ Append(lists[c], r) \in Seq(Record) /\ Len(Append(lists[c], r)) = Len(lists[c]) + 1
  BY <1>0, <1>2, AppendProperties
<1>5. CASE good /\ Whole(lists, pos, c)
  <2>1. PICK e : /\ Parsed(Pipe(c) \o Encoding(r), Append(lists[c], r), e)
                 /\ e[Len(lists[c]) + 1] = Len(Pipe(c) \o Encoding(r))
                 /\ \A j \in 0..Len(lists[c]) : e[j] = pos[c][j]
    BY <1>3, <1>5
  <2> DEFINE g == [i \in 1..Len(files) |-> IF i = c THEN Append(lists[c], r) ELSE lists[i]]
             q == [i \in 1..Len(files) |-> IF i = c THEN e ELSE pos[i]]
  <2>2. ASSUME NEW i \in 1..Len(files)
        PROVE  /\ g[i] \in Seq(Record) /\ Parsed(Pipe(i)', g[i], q[i])
               /\ IF i = c
                  THEN /\ g[i] = Append(lists[i], r) /\ q[i][Len(g[i])] = Len(Pipe(i)')
                       /\ \A j \in 0..Len(lists[i]) : q[i][j] = pos[i][j]
                  ELSE g[i] = lists[i] /\ q[i] = pos[i]
    <3>1. CASE i = c
      <4>1. Pipe(i)' = Pipe(c) \o Encoding(r) /\ g[i] = Append(lists[c], r) /\ q[i] = e
        BY <1>1, <1>5, <3>1
      <4>2. Parsed(Pipe(i)', g[i], q[i])
        BY <2>1, <4>1
      <4>3. q[i][Len(g[i])] = Len(Pipe(i)')
        BY <1>4, <2>1, <4>1
      <4> QED
        BY <1>4, <2>1, <3>1, <4>1, <4>2, <4>3
    <3>2. CASE i # c
      BY <1>1, <1>2, <3>2
    <3> QED
      BY <3>1, <3>2
  <2> DEFINE Good(i, a, b) ==
               /\ a \in Seq(Record) /\ Parsed(Pipe(i)', a, b)
               /\ IF i = c
                  THEN /\ a = Append(lists[i], r) /\ b[Len(a)] = Len(Pipe(i)')
                       /\ \A j \in 0..Len(lists[i]) : b[j] = pos[i][j]
                  ELSE a = lists[i] /\ b = pos[i]
  <2> HIDE DEF g, q
  <2>21. \A i \in 1..Len(files) : Good(i, g[i], q[i])
    BY <2>2
  <2> HIDE DEF Good
  <2>3. PICK G, Q : \A i \in 1..Len(files) : Good(i, G[i], Q[i])
    BY <2>21
  <2>31. \A i \in 1..Len(files) :
          /\ G[i] \in Seq(Record) /\ Parsed(Pipe(i)', G[i], Q[i])
          /\ IF i = c
             THEN /\ G[i] = Append(lists[i], r) /\ Q[i][Len(G[i])] = Len(Pipe(i)')
                  /\ \A j \in 0..Len(lists[i]) : Q[i][j] = pos[i][j]
             ELSE G[i] = lists[i] /\ Q[i] = pos[i]
    BY <2>3 DEF Good
  <2>4. LogParsed(G, Q)'
    BY <1>1, <2>31 DEF LogParsed
  <2> QED
    BY <1>0, <1>5, <2>31, <2>4 DEF good
<1>6. CASE ~(good /\ Whole(lists, pos, c))
  <2>1. ASSUME NEW i \in 1..Len(files)
        PROVE  Parsed(Pipe(i)', lists[i], pos[i])
    <3>1. CASE i = c /\ good
      BY <1>1, <1>3, <1>6, <3>1
    <3>2. CASE ~(i = c /\ good)
      BY <1>1, <1>2, <3>2
    <3> QED
      BY <3>1, <3>2
  <2>2. LogParsed(lists, pos)'
    BY <1>1, <1>2, <2>1 DEF LogParsed
  <2> QED
    BY <1>0, <1>6, <2>2 DEF good
<1> QED
  BY <1>5, <1>6

\* A file that holds one record and nothing else.
LEMMA ParsedRecord ==
  ASSUME NEW r \in Record
  PROVE  \E e : Parsed(Encoding(r), <<r>>, e) /\ e[1] = RecordSize(r) /\ e[0] = 0
<1> DEFINE z == [j \in {0} |-> 0]
           o == << >>
<1>1. Parsed(o, o, z) /\ o \in Seq(Record) /\ o \in Seq(Cell) /\ z[Len(o)] = Len(o)
  BY ParsedEmpty
<1> HIDE DEF z, o
<1>2. PICK e : /\ Parsed(o \o Encoding(r), Append(o, r), e)
               /\ e[Len(o) + 1] = Len(o \o Encoding(r))
  BY <1>1, ParsedAppend
<1>3. o \o Encoding(r) = Encoding(r) /\ Append(o, r) = <<r>> /\ Len(o) + 1 = 1
      /\ Len(Encoding(r)) = RecordSize(r)
  BY EncodingProperties, ConcatEmptySeq DEF o
<1>4. e[0] = 0
  BY <1>2 DEF Parsed, Laid
<1> QED
  BY <1>2, <1>3, <1>4

\* ... and through a rotation it is the only one of the next file.
LEMMA RotateParsed ==
  ASSUME LogInv, WalTypeOK', NEW r \in Record, RotateAndAppend(r),
         NEW lists, NEW pos, LogParsed(lists, pos), NEW sizes,
         sizes = [i \in 1..Len(files) |-> Len(Pipe(i)')]
  PROVE  \E g, q :
           /\ LogParsed(g, q)' /\ Len(files') = Len(files) + 1
           /\ Shortened(g, q, lists, pos, Len(files), sizes)
           /\ g[Len(files) + 1] = <<r>> /\ q[Len(files) + 1][1] = RecordSize(r)
<1> DEFINE c == Len(files)
<1>0. c \in Nat /\ Current = c /\ DOMAIN files = 1..c /\ WalTypeOK
  BY LogSizes DEF Current, LogInv
<1>1. /\ Len(files') = c + 1
      /\ \A i : i = c + 1 => Pipe(i)' = Encoding(r)
      /\ \A i \in 1..c : Cut(Pipe(i)', Pipe(i)) /\ Pipe(i)' = files'[i]
  BY <1>0, RotatePipes
<1>2. \A i \in 1..c : Pipe(i)' \in Seq(Cell) /\ sizes[i] = Len(Pipe(i)')
  <2>1. \A i \in 1..c : files'[i] \in Seq(Cell)
    BY <1>0, <1>1, ElementOfSeq DEF WalTypeOK
  <2> QED
    BY <1>0, <1>1, <2>1
<1>3. PICK G, Q : /\ Shortened(G, Q, lists, pos, c, sizes)
                  /\ \A i \in 1..c : G[i] \in Seq(Record) /\ Parsed(Pipe(i)', G[i], Q[i])
  <2>1. c \in 0..Len(files) /\ \A i \in 1..c : /\ Pipe(i)' \in Seq(Cell) /\ Cut(Pipe(i)', Pipe(i))
                                               /\ sizes[i] = Len(Pipe(i)')
    BY <1>0, <1>1, <1>2
  <2>2. \E g, q : /\ Shortened(g, q, lists, pos, c, sizes)
                  /\ \A i \in 1..c :
                       /\ g[i] \in Seq(Record) /\ Parsed(Pipe(i)', g[i], q[i])
                       /\ Whole(lists, pos, i) => CleanEnd(Pipe(i)', q[i][Len(g[i])])
    BY <1>0, <2>1, CutParsed, Zenon
  <2> QED
    BY <2>2, Zenon
<1>4. PICK e : Parsed(Encoding(r), <<r>>, e) /\ e[1] = RecordSize(r)
  BY ParsedRecord
<1> DEFINE g == [i \in 1..(c + 1) |-> IF i = c + 1 THEN <<r>> ELSE G[i]]
           q == [i \in 1..(c + 1) |-> IF i = c + 1 THEN e ELSE Q[i]]
<1>5. /\ g[c + 1] = <<r>> /\ q[c + 1] = e
      /\ \A i \in 1..c : g[i] = G[i] /\ q[i] = Q[i]
  BY <1>0
<1>6. <<r>> \in Seq(Record)
  OBVIOUS
<1> HIDE DEF g, q
<1>7. ASSUME NEW i \in 1..(c + 1)
      PROVE  g[i] \in Seq(Record) /\ Parsed(Pipe(i)', g[i], q[i])
  <2>1. CASE i = c + 1
    BY <1>1, <1>4, <1>5, <1>6, <2>1
  <2>2. CASE i # c + 1
    <3>1. i \in 1..c
      BY <1>0, <2>2
    <3> QED
      BY <1>3, <1>5, <3>1
  <2> QED
    BY <2>1, <2>2
<1>8. Shortened(g, q, lists, pos, c, sizes)
  BY <1>3, <1>5 DEF Shortened
<1>9. PICK h, p :
         /\ \A i \in 1..(c + 1) : h[i] \in Seq(Record) /\ Parsed(Pipe(i)', h[i], p[i])
         /\ Shortened(h, p, lists, pos, c, sizes)
         /\ h[c + 1] = <<r>> /\ p[c + 1] = e
  BY <1>5, <1>7, <1>8
<1>10. LogParsed(h, p)'
  BY <1>1, <1>9 DEF LogParsed
<1> QED
  BY <1>1, <1>4, <1>9, <1>10

-----------------------------------------------------------------------------
(* Sequence numbers.                                                       *)

\* Numbers grow through the records of the first n files.
Numbered(lists, n) ==
  /\ \A i \in 1..n : \A m \in 1..Len(lists[i]) : lists[i][m].seq >= 1
  /\ \A i \in 1..n : \A m, k \in 1..Len(lists[i]) :
       m < k => lists[i][m].seq < lists[i][k].seq
  /\ \A i, j \in 1..n : i < j =>
       \A m \in 1..Len(lists[i]), k \in 1..Len(lists[j]) : lists[i][m].seq < lists[j][k].seq

NumberedBelow(lists, n, b) ==
  \A i \in 1..n : \A m \in 1..Len(lists[i]) : lists[i][m].seq < b

\* A Recover that has read k records of file f has seen number max and none
\* above it.
ReadUpTo(lists, n, f, k, max) ==
  \A i \in 1..n : \A m \in 1..Len(lists[i]) :
    IF i < f \/ (i = f /\ m <= k) THEN lists[i][m].seq <= max ELSE max < lists[i][m].seq

Growing(h, b) ==
  /\ \A i, j \in DOMAIN h : i < j => h[i].seq < h[j].seq
  /\ \A i \in DOMAIN h : h[i].seq < b

\* What is needed of the types of a list of records.
LEMMA RecordsOf ==
  ASSUME NEW h \in Seq(Record)
  PROVE  /\ Len(h) \in Nat /\ DOMAIN h = 1..Len(h)
         /\ \A m \in 1..Len(h) : h[m] \in Record /\ h[m].seq \in Nat
<1>1. Len(h) \in Nat /\ DOMAIN h = 1..Len(h) /\ \A m \in 1..Len(h) : h[m] \in Record
  BY LenProperties, ElementOfSeq
<1>2. \A r \in Record : r.seq \in Nat
  BY DEF Record
<1> QED
  BY <1>1, <1>2

\* Cutting records off the end of files keeps the order of the numbers.
LEMMA ShortenedNumbered ==
  ASSUME NEW n \in Nat, NEW g, NEW q, NEW h, NEW pos, NEW sizes,
         \A i \in 1..n : g[i] \in Seq(Record) /\ h[i] \in Seq(Record),
         Shortened(g, q, h, pos, n, sizes), Numbered(h, n)
  PROVE  /\ Numbered(g, n)
         /\ \A b : NumberedBelow(h, n, b) => NumberedBelow(g, n, b)
<1>1. \A i \in 1..n : \A m \in 1..Len(g[i]) : m \in 1..Len(h[i]) /\ g[i][m] = h[i][m]
  <2> SUFFICES ASSUME NEW i \in 1..n, NEW m \in 1..Len(g[i])
               PROVE  m \in 1..Len(h[i]) /\ g[i][m] = h[i][m]
    OBVIOUS
  <2>1. Len(g[i]) \in Nat /\ Len(h[i]) \in Nat
    BY LenProperties
  <2> QED
    BY <2>1 DEF Shortened, Cut
<1>2. Numbered(g, n)
  <2>1. \A i \in 1..n : \A m \in 1..Len(g[i]) : g[i][m].seq >= 1
    BY <1>1 DEF Numbered
  <2>2. \A i \in 1..n : \A m, k \in 1..Len(g[i]) : m < k => g[i][m].seq < g[i][k].seq
    BY <1>1 DEF Numbered
  <2>3. \A i, j \in 1..n : i < j =>
          \A m \in 1..Len(g[i]), k \in 1..Len(g[j]) : g[i][m].seq < g[j][k].seq
    BY <1>1 DEF Numbered
  <2> QED
    BY <2>1, <2>2, <2>3 DEF Numbered
<1>3. \A b : NumberedBelow(h, n, b) => NumberedBelow(g, n, b)
  BY <1>1 DEF NumberedBelow
<1> QED
  BY <1>2, <1>3

\* A record with the next number keeps the numbers growing.
LEMMA AppendNumbered ==
  ASSUME NEW n \in Nat \ {0}, NEW g, NEW h, NEW r \in Record, NEW b \in Nat \ {0}, r.seq = b,
         \A i \in 1..n : h[i] \in Seq(Record),
         \A i \in 1..n : g[i] = h[i] \/ (i = n /\ g[i] = Append(h[i], r)),
         Numbered(h, n), NumberedBelow(h, n, b)
  PROVE  Numbered(g, n) /\ NumberedBelow(g, n, b + 1)
<1> DEFINE New(i, m) == i = n /\ m = Len(h[i]) + 1
<1>1. ASSUME NEW i \in 1..n, NEW m \in 1..Len(g[i])
      PROVE  \/ m \in 1..Len(h[i]) /\ g[i][m] = h[i][m]
             \/ New(i, m) /\ g[i][m] = r
  <2>1. Len(h[i]) \in Nat /\ Len(Append(h[i], r)) = Len(h[i]) + 1
        /\ Append(h[i], r)[Len(h[i]) + 1] = r
        /\ \A k \in 1..Len(h[i]) : Append(h[i], r)[k] = h[i][k]
    BY LenProperties, AppendProperties
  <2>2. CASE g[i] = h[i]
    BY <2>2
  <2>3. CASE i = n /\ g[i] = Append(h[i], r)
    <3>1. m \in 1..Len(h[i]) \/ m = Len(h[i]) + 1
      BY <2>1, <2>3
    <3> QED
      BY <2>1, <2>3, <3>1
  <2> QED
    BY <2>2, <2>3
<1>2. \A i \in 1..n : /\ Len(h[i]) \in Nat
                       /\ \A m \in 1..Len(h[i]) : h[i][m].seq \in Nat
  BY RecordsOf
<1>3. \A i \in 1..n : \A m \in 1..Len(h[i]) : h[i][m].seq >= 1 /\ h[i][m].seq < b
  BY DEF Numbered, NumberedBelow
<1>4. ASSUME NEW i \in 1..n, NEW m \in 1..Len(g[i])
      PROVE  g[i][m].seq >= 1 /\ g[i][m].seq < b + 1 /\ g[i][m].seq \in Nat
  <2>1. CASE m \in 1..Len(h[i]) /\ g[i][m] = h[i][m]
    BY <1>2, <1>3, <2>1
  <2>2. CASE New(i, m) /\ g[i][m] = r
    BY <2>2
  <2> QED
    BY <1>1, <2>1, <2>2
<1>5. ASSUME NEW i \in 1..n, NEW m \in 1..Len(g[i]), NEW k \in 1..Len(g[i]), m < k
      PROVE  g[i][m].seq < g[i][k].seq
  <2>1. CASE New(i, k) /\ g[i][k] = r
    <3>1. m \in 1..Len(h[i]) /\ g[i][m] = h[i][m]
      BY <1>1, <1>2, <1>5, <2>1
    <3> QED
      BY <1>3, <2>1, <3>1
  <2>2. CASE k \in 1..Len(h[i]) /\ g[i][k] = h[i][k]
    <3>1. m \in 1..Len(h[i]) /\ g[i][m] = h[i][m]
      BY <1>1, <1>2, <1>5, <2>2
    <3> QED
      BY <1>5, <2>2, <3>1 DEF Numbered
  <2> QED
    BY <1>1, <2>1, <2>2
<1>6. ASSUME NEW i \in 1..n, NEW j \in 1..n, i < j,
             NEW m \in 1..Len(g[i]), NEW k \in 1..Len(g[j])
      PROVE  g[i][m].seq < g[j][k].seq
  <2>1. m \in 1..Len(h[i]) /\ g[i][m] = h[i][m]
    BY <1>1, <1>6
  <2>2. CASE New(j, k) /\ g[j][k] = r
    BY <1>3, <2>1, <2>2
  <2>3. CASE k \in 1..Len(h[j]) /\ g[j][k] = h[j][k]
    BY <1>6, <2>1, <2>3 DEF Numbered
  <2> QED
    BY <1>1, <2>2, <2>3
<1>7. Numbered(g, n)
  BY <1>4, <1>5, <1>6 DEF Numbered
<1>8. NumberedBelow(g, n, b + 1)
  BY <1>4 DEF NumberedBelow
<1> QED
  BY <1>7, <1>8

\* So does a record with a fresh number in a new file.
LEMMA RotateNumbered ==
  ASSUME NEW n \in Nat, NEW g, NEW r \in Record, NEW b \in Nat \ {0}, r.seq = b,
         \A i \in 1..n : g[i] \in Seq(Record), g[n + 1] = <<r>>,
         Numbered(g, n), NumberedBelow(g, n, b)
  PROVE  Numbered(g, n + 1) /\ NumberedBelow(g, n + 1, b + 1)
<1>1. Len(<<r>>) = 1 /\ <<r>>[1] = r
  OBVIOUS
<1>2. \A i \in 1..n : \A m \in 1..Len(g[i]) :
        g[i][m].seq \in Nat /\ g[i][m].seq >= 1 /\ g[i][m].seq < b
  BY RecordsOf DEF Numbered, NumberedBelow
<1>3. \A i \in 1..(n + 1) : i \in 1..n \/ i = n + 1
  OBVIOUS
<1>4. \A i \in 1..(n + 1) : \A m \in 1..Len(g[i]) : g[i][m].seq >= 1 /\ g[i][m].seq < b + 1
  <2> SUFFICES ASSUME NEW i \in 1..(n + 1), NEW m \in 1..Len(g[i])
               PROVE  g[i][m].seq >= 1 /\ g[i][m].seq < b + 1
    OBVIOUS
  <2>1. CASE i \in 1..n
    BY <1>2, <2>1
  <2>2. CASE i = n + 1
    <3>1. g[i][m] = r
      BY <1>1, <2>2
    <3> QED
      BY <3>1
  <2> QED
    BY <1>3, <2>1, <2>2
<1>5. ASSUME NEW i \in 1..(n + 1), NEW m \in 1..Len(g[i]), NEW k \in 1..Len(g[i]), m < k
      PROVE  g[i][m].seq < g[i][k].seq
  BY <1>1, <1>3, <1>5 DEF Numbered
<1>6. ASSUME NEW i \in 1..(n + 1), NEW j \in 1..(n + 1), i < j,
             NEW m \in 1..Len(g[i]), NEW k \in 1..Len(g[j])
      PROVE  g[i][m].seq < g[j][k].seq
  <2>1. i \in 1..n
    BY <1>6
  <2>2. CASE j = n + 1
    BY <1>1, <1>2, <2>1, <2>2
  <2>3. CASE j # n + 1
    <3>1. j \in 1..n
      BY <2>3
    <3> QED
      BY <1>6, <2>1, <3>1 DEF Numbered
  <2> QED
    BY <2>2, <2>3
<1>7. Numbered(g, n + 1)
  BY <1>4, <1>5, <1>6 DEF Numbered
<1>8. NumberedBelow(g, n + 1, b + 1)
  BY <1>4 DEF NumberedBelow
<1> QED
  BY <1>7, <1>8

\* And so it does in the history.
LEMMA AppendGrowing ==
  ASSUME NEW h \in Seq(Record), NEW r \in Record, NEW b \in Nat, r.seq >= b, Growing(h, b),
         NEW c \in Nat, r.seq < c
  PROVE  Growing(Append(h, r), c)
<1> DEFINE g == Append(h, r)
<1>1. /\ Len(h) \in Nat /\ Len(g) = Len(h) + 1 /\ DOMAIN g = 1..(Len(h) + 1)
      /\ DOMAIN h = 1..Len(h)
      /\ g[Len(h) + 1] = r /\ \A i \in 1..Len(h) : g[i] = h[i]
      /\ g \in Seq(Record)
  BY AppendProperties, LenProperties
<1>2. \A i \in 1..Len(h) : h[i].seq \in Nat /\ h[i].seq < b
  BY RecordsOf DEF Growing
<1>3. r.seq \in Nat
  BY DEF Record
<1> HIDE DEF g
<1>4. \A i \in DOMAIN g : g[i].seq < c
  BY <1>1, <1>2, <1>3
<1>5. ASSUME NEW i \in DOMAIN g, NEW j \in DOMAIN g, i < j
      PROVE  g[i].seq < g[j].seq
  <2>1. i \in 1..Len(h)
    BY <1>1, <1>5
  <2>2. CASE j = Len(h) + 1
    BY <1>1, <1>2, <1>3, <2>1, <2>2
  <2>3. CASE j # Len(h) + 1
    <3>1. j \in 1..Len(h)
      BY <1>1, <2>3
    <3> QED
      BY <1>1, <1>5, <2>1, <3>1 DEF Growing
  <2> QED
    BY <2>2, <2>3
<1> QED
  BY <1>4, <1>5 DEF Growing, g

\* Where a Recover that has met no corruption is: nothing is in flight, it has
\* read k records of file readFile, and delivered growing numbers only.
Recovering(lists, pos) ==
  /\ stream = << >> /\ buffer = << >> /\ sequenceNumber = 1
  /\ \E k \in 0..Len(lists[readFile]) :
       /\ readPos = pos[readFile][k]
       /\ ReadUpTo(lists, Len(files), readFile, k, maxSequence)
  /\ Growing(replayed, maxSequence + 1)
  /\ \A i \in DOMAIN replayed : replayed[i].seq >= 1

\* As long as no recovery has failed, numbers grow through what the files
\* hold, through the history, and through what Recover delivers.
FreshInv ==
  \E lists, pos :
    /\ LogParsed(lists, pos)
    /\ recovery = "ok" =>
         /\ Numbered(lists, Len(files))
         /\ pc # "recover" => NumberedBelow(lists, Len(files), sequenceNumber)
         /\ pc # "recover" => Growing(history, sequenceNumber)
         /\ pc = "recover" => Recovering(lists, pos)

\* A new log holds no numbers.
LEMMA InitFresh == Init => FreshInv
<1> SUFFICES ASSUME Init PROVE FreshInv
  OBVIOUS
<1> DEFINE z == [j \in {0} |-> 0]
<1>1. /\ files = << << >> >> /\ stream = << >> /\ buffer = << >>
      /\ history = << >> /\ pc = "idle"
  BY DEF Init, WalInit
<1>2. Len(files) = 1 /\ 1..1 = {1} /\ files[1] = << >> /\ << >> \o << >> = << >>
  BY <1>1
<1>3. Pipe(1) = << >>
  BY <1>1, <1>2, Zenon DEF Pipe, Current, InFlightBytes
<1>4. /\ Parsed(<< >>, << >>, z) /\ << >> \in Seq(Record)
  BY ParsedEmpty
<1> HIDE DEF z
<1> DEFINE lists == << << >> >>
           pos == <<z>>
<1>5. lists[1] = << >> /\ pos[1] = z /\ Len(<< >>) = 0 /\ 1..0 = {} /\ DOMAIN << >> = {}
  OBVIOUS
<1> HIDE DEF lists, pos
<1>6. LogParsed(lists, pos)
  BY <1>2, <1>3, <1>4, <1>5 DEF LogParsed
<1>7. Numbered(lists, Len(files)) /\ NumberedBelow(lists, Len(files), sequenceNumber)
  BY <1>2, <1>5 DEF Numbered, NumberedBelow
<1>8. Growing(history, sequenceNumber)
  BY <1>1, <1>5 DEF Growing
<1> QED
  BY <1>1, <1>6, <1>7, <1>8 DEF FreshInv

\* Put and Delete.
LEMMA LogMutationFresh ==
  ASSUME LogInv, LogInv', EngineTypeOK, FreshInv,
         NEW k \in Key, NEW v \in Value \cup {Tombstone}, LogMutation(k, v)
  PROVE  FreshInv'
<1> DEFINE r == [seq |-> sequenceNumber, key |-> k, val |-> v]
           n == Len(files)
           s == sequenceNumber
<1>0. /\ WalTypeOK /\ WalTypeOK' /\ s \in Nat \ {0} /\ history \in Seq(Record)
      /\ n \in Nat \ {0} /\ Current = n
  BY LogSizes DEF LogInv, EngineTypeOK, Current
<1>1. r \in Record /\ r.seq = s
  BY <1>0 DEF Record
<1>2. /\ pc = "idle" /\ pc' # "recover" /\ recovery' = recovery /\ s' = s + 1
      /\ history' = Append(history, r) /\ WriteRecord(r)
  BY DEF LogMutation, recoverVars
<1> HIDE DEF r
<1>3. PICK lists, pos :
        /\ LogParsed(lists, pos)
        /\ recovery = "ok" => /\ Numbered(lists, n) /\ NumberedBelow(lists, n, s)
                              /\ Growing(history, s)
  BY <1>2 DEF FreshInv
<1>4. \A i \in 1..n : lists[i] \in Seq(Record)
  BY <1>3 DEF LogParsed
<1>5. recovery = "ok" => Growing(history', s')
  BY <1>0, <1>1, <1>2, <1>3, AppendGrowing
<1>6. \E g, q : /\ LogParsed(g, q)'
                /\ recovery = "ok" => Numbered(g, Len(files')) /\ NumberedBelow(g, Len(files'), s')
  <2>1. CASE AppendToCurrent(r) \/ ReopenAndAppend(r)
    <3>1. PICK g, q :
            /\ LogParsed(g, q)'
            /\ \A i \in 1..Len(files) :
                 IF i = Current /\ Carries /\ Whole(lists, pos, i)
                 THEN /\ g[i] = Append(lists[i], r) /\ q[i][Len(g[i])] = Len(Pipe(i)')
                      /\ \A j \in 0..Len(lists[i]) : q[i][j] = pos[i][j]
                 ELSE g[i] = lists[i] /\ q[i] = pos[i]
      BY <1>0, <1>1, <1>3, <2>1, AppendParsed
    <3>2. \A i \in 1..n : g[i] = lists[i] \/ (i = n /\ g[i] = Append(lists[i], r))
      BY <1>0, <3>1
    <3>3. recovery = "ok" => Numbered(g, n) /\ NumberedBelow(g, n, s + 1)
      BY <1>0, <1>1, <1>3, <1>4, <3>2, AppendNumbered
    <3>4. Len(files') = n
      BY <2>1 DEF AppendToCurrent, ReopenAndAppend
    <3> QED
      BY <1>2, <3>1, <3>3, <3>4
  <2>2. CASE RotateAndAppend(r)
    <3> DEFINE sizes == [i \in 1..Len(files) |-> Len(Pipe(i)')]
    <3>0. sizes = [i \in 1..Len(files) |-> Len(Pipe(i)')]
      OBVIOUS
    <3> HIDE DEF sizes
    <3>1. PICK g, q :
            /\ LogParsed(g, q)' /\ Len(files') = n + 1
            /\ Shortened(g, q, lists, pos, n, sizes)
            /\ g[n + 1] = <<r>>
      BY <1>0, <1>1, <1>3, <2>2, <3>0, RotateParsed
    <3>2. \A i \in 1..n : g[i] \in Seq(Record)
      <4>1. \A i \in 1..(n + 1) : g[i] \in Seq(Record)
        BY <3>1 DEF LogParsed
      <4> QED
        BY <1>0, <4>1
    <3>3. ASSUME recovery = "ok"
          PROVE  Numbered(g, n + 1) /\ NumberedBelow(g, n + 1, s + 1)
      <4>1. Numbered(g, n) /\ NumberedBelow(g, n, s)
        BY <1>0, <1>3, <1>4, <3>1, <3>2, <3>3, ShortenedNumbered
      <4> QED
        BY <1>0, <1>1, <3>1, <3>2, <4>1, RotateNumbered
    <3> QED
      BY <1>2, <3>1, <3>3
  <2> QED
    BY <1>2, <2>1, <2>2 DEF WriteRecord
<1> QED
  BY <1>2, <1>5, <1>6 DEF FreshInv

\* Steps that move bytes or change nothing of the log.
LEMMA QuietFresh ==
  ASSUME LogInv, FreshInv, SamePipes, pc' = "recover" <=> pc = "recover",
         stream = << >> /\ buffer = << >> => stream' = << >> /\ buffer' = << >>,
         UNCHANGED <<sequenceNumber, history, recovery, readFile, readPos, maxSequence, replayed>>
  PROVE  FreshInv'
<1>1. PICK lists, pos :
        /\ LogParsed(lists, pos)
        /\ recovery = "ok" =>
             /\ Numbered(lists, Len(files))
             /\ pc # "recover" => NumberedBelow(lists, Len(files), sequenceNumber)
             /\ pc # "recover" => Growing(history, sequenceNumber)
             /\ pc = "recover" => Recovering(lists, pos)
  BY DEF FreshInv
<1>2. LogParsed(lists, pos)' /\ Len(files') = Len(files)
  BY <1>1, SameParsed DEF LogInv, SamePipes
<1>3. Recovering(lists, pos) => Recovering(lists, pos)'
  BY <1>2 DEF Recovering
<1> QED
  BY <1>1, <1>2, <1>3 DEF FreshInv

\* Bytes lost off the end of files, and a file more or less at the end, take
\* records away: the numbers of those that are left still grow.
LEMMA CutLog ==
  ASSUME LogInv, LogInv', NEW lists, NEW pos, LogParsed(lists, pos),
         Len(files') <= Len(files) + 1,
         \A i \in 1..Len(files') :
           /\ i <= Len(files) => Cut(Pipe(i)', Pipe(i))
           /\ i > Len(files) => Pipe(i)' = << >>
  PROVE  \E g, q :
           /\ LogParsed(g, q)'
           /\ Numbered(lists, Len(files)) =>
                /\ Numbered(g, Len(files'))
                /\ \A b : NumberedBelow(lists, Len(files), b) => NumberedBelow(g, Len(files'), b)
<1> DEFINE m == Len(files')
           n == IF m <= Len(files) THEN m ELSE Len(files)
           sizes == [i \in 1..n |-> Len(Pipe(i)')]
<1>0. /\ WalTypeOK /\ WalTypeOK' /\ Len(files) \in Nat \ {0} /\ m \in Nat
      /\ n \in 0..Len(files) /\ n <= m
  BY LogSizes, LenProperties DEF LogInv, WalTypeOK, Current
<1>1. \A i \in 1..n : /\ Pipe(i)' \in Seq(Cell) /\ Cut(Pipe(i)', Pipe(i))
                      /\ sizes[i] = Len(Pipe(i)')
  BY <1>0, NextPipeTypes
<1>2. \A i \in 1..m : i \notin 1..n => Pipe(i)' = << >>
  BY <1>0
<1> HIDE DEF sizes, n
<1>3. PICK g, q : /\ Shortened(g, q, lists, pos, n, sizes)
                  /\ \A i \in 1..n : g[i] \in Seq(Record) /\ Parsed(Pipe(i)', g[i], q[i])
  <2>2. \E g, q : /\ Shortened(g, q, lists, pos, n, sizes)
                  /\ \A i \in 1..n :
                       /\ g[i] \in Seq(Record) /\ Parsed(Pipe(i)', g[i], q[i])
                       /\ Whole(lists, pos, i) => CleanEnd(Pipe(i)', q[i][Len(g[i])])
    BY <1>0, <1>1, CutParsed, Zenon
  <2> QED
    BY <2>2, Zenon
<1> DEFINE z == [j \in {0} |-> 0]
           o == << >>
<1>4. Parsed(o, o, z) /\ o \in Seq(Record) /\ Len(o) = 0 /\ o = << >>
  BY ParsedEmpty
<1> HIDE DEF z, o
<1> DEFINE h0 == [i \in 1..m |-> IF i \in 1..n THEN g[i] ELSE o]
           p0 == [i \in 1..m |-> IF i \in 1..n THEN q[i] ELSE z]
<1>a. /\ \A i \in 1..m : h0[i] \in Seq(Record) /\ Parsed(Pipe(i)', h0[i], p0[i])
      /\ \A i \in 1..n : i \in 1..m /\ h0[i] = g[i]
      /\ \A i \in 1..m : i \notin 1..n => Len(h0[i]) = 0
  <2>1. \A i \in 1..n : i \in 1..m
    BY <1>0
  <2> QED
    BY <1>2, <1>3, <1>4, <2>1
<1> HIDE DEF h0, p0
<1>5. PICK h, p :
        /\ \A i \in 1..m : h[i] \in Seq(Record) /\ Parsed(Pipe(i)', h[i], p[i])
        /\ \A i \in 1..n : i \in 1..m /\ h[i] = g[i]
        /\ \A i \in 1..m : i \notin 1..n => Len(h[i]) = 0
  BY <1>a
<1>6. LogParsed(h, p)'
  BY <1>5 DEF LogParsed
<1>7. ASSUME Numbered(lists, Len(files))
      PROVE  /\ Numbered(h, m)
             /\ \A b : NumberedBelow(lists, Len(files), b) => NumberedBelow(h, m, b)
  <2>1. \A i \in 1..n : lists[i] \in Seq(Record) /\ i \in 1..Len(files)
    BY <1>0 DEF LogParsed
  <2>2. Numbered(lists, n)
    BY <1>7, <2>1 DEF Numbered
  <2>3. Numbered(g, n) /\ \A b : NumberedBelow(lists, n, b) => NumberedBelow(g, n, b)
    BY <1>0, <1>3, <2>1, <2>2, ShortenedNumbered
  <2>4. \A i \in 1..m : \A k \in 1..Len(h[i]) : i \in 1..n /\ h[i] = g[i] /\ k \in 1..Len(g[i])
    BY <1>5
  <2>5. Numbered(h, m)
    BY <2>3, <2>4, Zenon DEF Numbered
  <2>6. ASSUME NEW b, NumberedBelow(lists, Len(files), b) PROVE NumberedBelow(h, m, b)
    <3>1. NumberedBelow(lists, n, b)
      BY <2>1, <2>6 DEF NumberedBelow
    <3> QED
      BY <2>3, <2>4, <3>1 DEF NumberedBelow
  <2> QED
    BY <2>5, <2>6
<1> QED
  BY <1>6, <1>7

\* A refused write or a failed Sync takes records away; Recover has nothing
\* to be refused.
LEMMA CutFresh ==
  ASSUME LogInv, LogInv', FreshInv, PipesCut, pc' = "recover" <=> pc = "recover",
         stream = << >> /\ buffer = << >> =>
           SamePipes /\ stream' = << >> /\ buffer' = << >>,
         UNCHANGED <<sequenceNumber, history, recovery, readFile, readPos, maxSequence, replayed>>
  PROVE  FreshInv'
<1>1. PICK lists, pos :
        /\ LogParsed(lists, pos)
        /\ recovery = "ok" =>
             /\ Numbered(lists, Len(files))
             /\ pc # "recover" => NumberedBelow(lists, Len(files), sequenceNumber)
             /\ pc # "recover" => Growing(history, sequenceNumber)
             /\ pc = "recover" => Recovering(lists, pos)
  BY DEF FreshInv
<1>2. CASE stream = << >> /\ buffer = << >>
  BY <1>2, QuietFresh
<1>3. CASE ~(stream = << >> /\ buffer = << >>)
  <2>1. Len(files') = Len(files) /\ Len(files) \in Nat /\ DOMAIN files = 1..Len(files)
        /\ \A i \in DOMAIN files : Cut(Pipe(i)', Pipe(i))
    BY LogSizes DEF LogInv, PipesCut, Current
  <2>2. PICK g, q :
          /\ LogParsed(g, q)'
          /\ Numbered(lists, Len(files)) =>
               /\ Numbered(g, Len(files'))
               /\ \A b : NumberedBelow(lists, Len(files), b) => NumberedBelow(g, Len(files'), b)
    BY <1>1, <2>1, CutLog
  <2>3. recovery = "ok" => pc # "recover"
    BY <1>1, <1>3 DEF Recovering
  <2> QED
    BY <1>1, <2>2, <2>3 DEF FreshInv
<1> QED
  BY <1>2, <1>3

\* A shutdown or a crash: the next Recover starts with nothing in flight.
LEMMA StopFresh ==
  ASSUME LogInv, LogInv', EngineTypeOK, FreshInv, Shutdown \/ Crash
  PROVE  FreshInv'
<1> DEFINE n == Len(files')
<1>0. /\ WalTypeOK' /\ n \in Nat \ {0}
  BY LenProperties, EmptySeq DEF LogInv, WalTypeOK
<1>1. /\ pc' = "recover" /\ sequenceNumber' = 1 /\ readFile' = 1 /\ readPos' = 0
      /\ maxSequence' = 0 /\ replayed' = << >> /\ recovery' = recovery
  BY DEF Shutdown, Crash, StartRecovery
<1>2. PipesReopened /\ stream' = << >> /\ buffer' = << >>
  <2>1. CASE CloseAndReopen
    BY <2>1, ClosePipes DEF CloseAndReopen, Reopened
  <2>2. ASSUME NEW kind \in CrashKinds, CrashAndReopen(kind)
        PROVE  PipesReopened /\ stream' = << >> /\ buffer' = << >>
    BY <2>2, CrashPipes DEF CrashAndReopen, Reopened
  <2> QED
    BY <2>1, <2>2 DEF Shutdown, Crash
<1>3. PICK lists, pos :
        LogParsed(lists, pos) /\ (recovery = "ok" => Numbered(lists, Len(files)))
  BY DEF FreshInv
<1>4. /\ Len(files') <= Len(files) + 1 /\ Len(files) \in Nat
      /\ \A i \in 1..Len(files') :
           /\ i <= Len(files) => Cut(Pipe(i)', Pipe(i))
           /\ i > Len(files) => Pipe(i)' = << >>
  BY <1>2, LogSizes DEF PipesReopened, LogInv, Current
<1>5. PICK g, q :
        LogParsed(g, q)' /\ (Numbered(lists, Len(files)) => Numbered(g, n))
  BY <1>3, <1>4, CutLog
<1>6. \A i \in 1..n : g[i] \in Seq(Record) /\ Parsed(Pipe(i)', g[i], q[i])
  BY <1>5 DEF LogParsed
<1>8. recovery = "ok" => Numbered(g, n)
  BY <1>3, <1>5
<1>9. ASSUME recovery = "ok"
      PROVE  Recovering(g, q)'
  <2>1. 0 \in 0..Len(g[1]) /\ q[1][0] = 0
    <3>1. g[1] \in Seq(Record) /\ Parsed(Pipe(1)', g[1], q[1])
      BY <1>0, <1>6
    <3> QED
      BY <3>1, RecordsOf DEF Parsed, Laid
  <2>2. ReadUpTo(g, n, 1, 0, 0)
    <3> SUFFICES ASSUME NEW i \in 1..n, NEW m \in 1..Len(g[i])
                 PROVE  /\ ~(i < 1 \/ (i = 1 /\ m <= 0))
                        /\ 0 < g[i][m].seq
      BY DEF ReadUpTo
    <3>1. g[i] \in Seq(Record)
      BY <1>6
    <3>2. g[i][m].seq \in Nat /\ g[i][m].seq >= 1 /\ Len(g[i]) \in Nat
      BY <1>8, <1>9, <3>1, RecordsOf DEF Numbered
    <3> QED
      BY <1>0, <3>2
  <2>3. Growing(<< >>, 0 + 1) /\ DOMAIN << >> = {}
    BY DEF Growing
  <2> QED
    BY <1>1, <1>2, <2>1, <2>2, <2>3 DEF Recovering
<1> QED
  BY <1>1, <1>5, <1>8, <1>9 DEF FreshInv

\* With nothing in flight, what Recover reads is all there is.
LEMMA NothingInFlight ==
  ASSUME WalTypeOK, stream = << >>, buffer = << >>
  PROVE  \A i \in 1..Len(files) : Pipe(i) = files[i]
<1>1. InFlightBytes = << >>
  BY EmptySeq, ConcatEmptySeq DEF InFlightBytes
<1>2. \A i \in 1..Len(files) : files[i] \in Seq(Cell) /\ files[i] \o << >> = files[i]
  BY LogSizes, ConcatEmptySeq
<1> QED
  BY <1>1, <1>2 DEF Pipe

\* What Recover knows when no corruption has been met, and what it then does.
LEMMA RecoveringReads ==
  ASSUME LogInv, EngineTypeOK, NEW lists, NEW pos, LogParsed(lists, pos),
         Recovering(lists, pos)
  PROVE  /\ RecordIntact =>
              \E k \in 0..(Len(lists[readFile]) - 1) :
                /\ Found = lists[readFile][k + 1]
                /\ readPos + RecordSize(Found) = pos[readFile][k + 1]
                /\ ReadUpTo(lists, Len(files), readFile, k, maxSequence)
         /\ LeaveFile =>
              ReadUpTo(lists, Len(files), readFile, Len(lists[readFile]), maxSequence)
<1> DEFINE h == lists[readFile]
<1>1. /\ readFile \in 1..Len(files) /\ DOMAIN files = 1..Len(files)
      /\ \A i \in 1..Len(files) : Pipe(i) = files[i]
  BY LogSizes, NothingInFlight DEF LogInv, EngineTypeOK, Recovering
<1>2. h \in Seq(Record) /\ Len(h) \in Nat /\ Parsed(files[readFile], h, pos[readFile])
  BY <1>1, LenProperties DEF LogParsed
<1>3. PICK k \in 0..Len(h) :
        readPos = pos[readFile][k] /\ ReadUpTo(lists, Len(files), readFile, k, maxSequence)
  BY DEF Recovering
<1> HIDE DEF h
<1>4. CASE k < Len(h)
  <2>1. /\ ~LeaveFile /\ Found = h[k + 1] /\ readPos + RecordSize(Found) = pos[readFile][k + 1]
    BY <1>1, <1>2, <1>3, <1>4, ReadsNext
  <2>2. k \in 0..(Len(h) - 1)
    BY <1>2, <1>4
  <2> QED
    BY <1>3, <2>1, <2>2 DEF h
<1>5. CASE k = Len(h)
  <2>1. ~RecordIntact
    BY <1>1, <1>2, <1>3, <1>5, ReadsNoMore
  <2> QED
    BY <1>3, <1>5, <2>1 DEF h
<1> QED
  BY <1>2, <1>4, <1>5

\* Recover delivers the next record: a larger number than any before.
LEMMA RecoverRecordFresh ==
  ASSUME LogInv, EngineTypeOK, FreshInv, RecoverRecord
  PROVE  FreshInv'
<1>1. PICK lists, pos :
        /\ LogParsed(lists, pos)
        /\ recovery = "ok" => Numbered(lists, Len(files)) /\ Recovering(lists, pos)
  BY DEF FreshInv, RecoverRecord, Reading
<1>2. /\ UNCHANGED walVars /\ pc = "recover" /\ RecordIntact /\ LogInv
      /\ UNCHANGED <<sequenceNumber, pc, readFile, recovery>>
      /\ readPos' = readPos + RecordSize(Found) /\ replayed' = Append(replayed, Found)
      /\ maxSequence' = IF Found.seq > maxSequence THEN Found.seq ELSE maxSequence
  BY DEF RecoverRecord, Reading
<1>3. LogParsed(lists, pos)' /\ Len(files') = Len(files)
  <2>1. SamePipes
    BY <1>2 DEF walVars, SamePipes, Pipe, Current, InFlightBytes, Carries
  <2> QED
    BY <1>1, <2>1, SameParsed DEF LogInv, SamePipes
<1>4. ASSUME recovery = "ok"
      PROVE  Recovering(lists, pos)'
  <2> DEFINE h == lists[readFile]
             n == Len(files)
  <2>0. /\ readFile \in 1..n /\ n \in Nat /\ \A i \in 1..n : lists[i] \in Seq(Record)
        /\ maxSequence \in Nat /\ replayed \in Seq(Record) /\ Found \in Record
        /\ Found.seq \in Nat
    <3>1. Found \in Record
      BY <1>2, FoundIsRecord
    <3>2. \A r \in Record : r.seq \in Nat
      BY DEF Record
    <3>3. n \in Nat /\ \A i \in 1..n : lists[i] \in Seq(Record)
      BY <1>1, LogSizes DEF LogParsed, LogInv, Current
    <3>4. readFile \in 1..n /\ maxSequence \in Nat /\ replayed \in Seq(Record)
      BY DEF EngineTypeOK
    <3> QED
      BY <3>1, <3>2, <3>3, <3>4
  <2>1. PICK k \in 0..(Len(h) - 1) :
          /\ Found = h[k + 1]
          /\ readPos + RecordSize(Found) = pos[readFile][k + 1]
          /\ ReadUpTo(lists, n, readFile, k, maxSequence)
    BY <1>1, <1>2, <1>4, RecoveringReads
  <2>2. Len(h) \in Nat /\ k + 1 \in 1..Len(h) /\ k + 1 \in 0..Len(h)
    BY <2>0, <2>1, LenProperties
  <2>3. maxSequence < Found.seq
    BY <2>0, <2>1, <2>2 DEF ReadUpTo
  <2>4. maxSequence' = Found.seq
    BY <1>2, <2>0, <2>3
  <2>5. ReadUpTo(lists, n, readFile, k + 1, Found.seq)
    <3> SUFFICES ASSUME NEW i \in 1..n, NEW m \in 1..Len(lists[i])
                 PROVE  IF i < readFile \/ (i = readFile /\ m <= k + 1)
                        THEN lists[i][m].seq <= Found.seq ELSE Found.seq < lists[i][m].seq
      BY DEF ReadUpTo
    <3>0. /\ Len(lists[i]) \in Nat /\ m \in Nat /\ i \in Nat /\ lists[i][m].seq \in Nat
          /\ readFile \in Nat
      BY <2>0, RecordsOf
    <3>1. CASE i < readFile \/ (i = readFile /\ m <= k)
      <4>1. lists[i][m].seq <= maxSequence
        BY <2>1, <3>1 DEF ReadUpTo
      <4>2. lists[i][m].seq <= Found.seq
        BY <2>0, <2>3, <3>0, <4>1
      <4>3. i < readFile \/ (i = readFile /\ m <= k + 1)
        BY <2>0, <2>1, <3>0, <3>1
      <4> QED
        BY <4>2, <4>3
    <3>2. CASE i = readFile /\ m = k + 1
      BY <2>0, <2>1, <2>2, <3>0, <3>2
    <3>3. CASE i = readFile /\ k + 1 < m
      <4>1. Found.seq < lists[i][m].seq
        BY <1>1, <1>4, <2>0, <2>1, <2>2, <3>3 DEF Numbered
      <4>2. ~(i < readFile \/ (i = readFile /\ m <= k + 1))
        BY <2>0, <2>1, <3>0, <3>3
      <4> QED
        BY <4>1, <4>2
    <3>4. CASE readFile < i
      <4>1. Found.seq < lists[i][m].seq
        BY <1>1, <1>4, <2>0, <2>1, <2>2, <3>4 DEF Numbered
      <4>2. ~(i < readFile \/ (i = readFile /\ m <= k + 1))
        BY <2>0, <3>0, <3>4
      <4> QED
        BY <4>1, <4>2
    <3> QED
      BY <2>0, <2>1, <2>2, <3>0, <3>1, <3>2, <3>3, <3>4
  <2>6. Growing(replayed', Found.seq + 1)
    BY <1>1, <1>2, <1>4, <2>0, <2>3, AppendGrowing, SMTT(30) DEF Recovering
  <2>7. \A i \in DOMAIN replayed' : replayed'[i].seq >= 1
    <3>1. Found.seq >= 1
      BY <2>0, <2>3
    <3>2. /\ Len(replayed) \in Nat /\ DOMAIN replayed = 1..Len(replayed)
          /\ DOMAIN replayed' = 1..(Len(replayed) + 1) /\ replayed'[Len(replayed) + 1] = Found
          /\ \A i \in 1..Len(replayed) : replayed'[i] = replayed[i]
      BY <1>2, <2>0, AppendProperties, LenProperties
    <3>3. \A i \in DOMAIN replayed : replayed[i].seq >= 1
      BY <1>1, <1>4 DEF Recovering
    <3> QED
      BY <3>1, <3>2, <3>3
  <2>8. stream' = << >> /\ buffer' = << >> /\ sequenceNumber' = 1
    BY <1>1, <1>2, <1>4 DEF Recovering, walVars
  <2> QED
    BY <1>2, <1>3, <2>1, <2>2, <2>4, <2>5, <2>6, <2>7, <2>8 DEF Recovering
<1> QED
  BY <1>1, <1>2, <1>3, <1>4 DEF FreshInv

\* Recover goes on to the next file, where the numbers are larger still.
LEMMA NextFileFresh ==
  ASSUME LogInv, EngineTypeOK, FreshInv, RecoverNextFile
  PROVE  FreshInv'
<1>1. PICK lists, pos :
        /\ LogParsed(lists, pos)
        /\ recovery = "ok" => Numbered(lists, Len(files)) /\ Recovering(lists, pos)
  BY DEF FreshInv, RecoverNextFile, Reading
<1>2. /\ UNCHANGED walVars /\ pc = "recover" /\ LeaveFile /\ readFile < Len(files)
      /\ UNCHANGED <<sequenceNumber, pc, recovery, maxSequence, replayed>>
      /\ readFile' = readFile + 1 /\ readPos' = 0
  BY DEF RecoverNextFile, Reading
<1>3. LogParsed(lists, pos)' /\ Len(files') = Len(files)
  <2>1. SamePipes
    BY <1>2 DEF walVars, SamePipes, Pipe, Current, InFlightBytes, Carries
  <2> QED
    BY <1>1, <2>1, SameParsed DEF LogInv, SamePipes
<1>4. ASSUME recovery = "ok"
      PROVE  Recovering(lists, pos)'
  <2> DEFINE n == Len(files)
  <2>1. /\ readFile \in 1..n /\ n \in Nat /\ readFile + 1 \in 1..n
        /\ \A i \in 1..n : lists[i] \in Seq(Record) /\ Parsed(Pipe(i), lists[i], pos[i])
    BY <1>1, <1>2, LogSizes DEF LogParsed, EngineTypeOK, LogInv, Current
  <2>2. ReadUpTo(lists, n, readFile, Len(lists[readFile]), maxSequence)
    BY <1>1, <1>2, <1>4, RecoveringReads
  <2>3. ReadUpTo(lists, n, readFile + 1, 0, maxSequence)
    <3> SUFFICES ASSUME NEW i \in 1..n, NEW m \in 1..Len(lists[i])
                 PROVE  IF i < readFile + 1 \/ (i = readFile + 1 /\ m <= 0)
                        THEN lists[i][m].seq <= maxSequence ELSE maxSequence < lists[i][m].seq
      BY DEF ReadUpTo
    <3>1. (i < readFile + 1 \/ (i = readFile + 1 /\ m <= 0))
            <=> (i < readFile \/ (i = readFile /\ m <= Len(lists[readFile])))
      BY <2>1, LenProperties
    <3> QED
      BY <2>2, <3>1 DEF ReadUpTo
  <2>4. 0 \in 0..Len(lists[readFile + 1]) /\ pos[readFile + 1][0] = 0
    BY <2>1, LenProperties DEF Parsed, Laid
  <2>5. stream' = << >> /\ buffer' = << >> /\ sequenceNumber' = 1
    BY <1>1, <1>2, <1>4 DEF Recovering, walVars
  <2> QED
    BY <1>1, <1>2, <1>3, <1>4, <2>3, <2>4, <2>5 DEF Recovering
<1> QED
  BY <1>1, <1>2, <1>3, <1>4 DEF FreshInv

\* When Recover returns, the next number is above everything in the files.
LEMMA RecoverEndFresh ==
  ASSUME LogInv, EngineTypeOK, FreshInv, RecoverDone \/ RecoverCorrupt
  PROVE  FreshInv'
<1>1. PICK lists, pos :
        /\ LogParsed(lists, pos)
        /\ recovery = "ok" => Numbered(lists, Len(files)) /\ Recovering(lists, pos)
  BY DEF FreshInv, RecoverDone, RecoverCorrupt, Reading
<1>2. UNCHANGED walVars /\ pc' = "idle" /\ history' = replayed
  BY DEF RecoverDone, RecoverCorrupt, ServeRecovered
<1>3. LogParsed(lists, pos)' /\ Len(files') = Len(files)
  <2>1. SamePipes
    BY <1>2 DEF walVars, SamePipes, Pipe, Current, InFlightBytes, Carries
  <2> QED
    BY <1>1, <2>1, SameParsed DEF LogInv, SamePipes
<1>4. CASE RecoverCorrupt
  <2>1. recovery' # "ok"
    BY <1>4 DEF RecoverCorrupt, ServeRecovered, EngineTypeOK
  <2> QED
    BY <1>3, <2>1 DEF FreshInv
<1>5. CASE RecoverDone
  <2>1. ASSUME recovery' = "ok"
        PROVE  /\ Numbered(lists, Len(files))
               /\ NumberedBelow(lists, Len(files), sequenceNumber')
               /\ Growing(history', sequenceNumber')
    <3> DEFINE n == Len(files)
    <3>1. recovery = "ok"
      BY <1>5, <2>1 DEF RecoverDone, ServeRecovered, EngineTypeOK
    <3>2. /\ readFile = n /\ LeaveFile /\ n \in Nat /\ maxSequence \in Nat
          /\ \A i \in 1..n : lists[i] \in Seq(Record)
          /\ sequenceNumber' = IF maxSequence > 0 THEN maxSequence + 1 ELSE sequenceNumber
      BY <1>1, <1>5, LogSizes DEF RecoverDone, LogParsed, EngineTypeOK, LogInv, Current
    <3>3. sequenceNumber' = maxSequence + 1
      BY <1>1, <3>1, <3>2 DEF Recovering
    <3>4. ReadUpTo(lists, n, readFile, Len(lists[readFile]), maxSequence)
      BY <1>1, <3>1, <3>2, RecoveringReads
    <3>5. NumberedBelow(lists, n, maxSequence + 1)
      <4> SUFFICES ASSUME NEW i \in 1..n, NEW m \in 1..Len(lists[i])
                   PROVE  lists[i][m].seq < maxSequence + 1
        BY DEF NumberedBelow
      <4>1. lists[i][m].seq \in Nat
        BY <3>2, RecordsOf
      <4>2. i < readFile \/ (i = readFile /\ m <= Len(lists[readFile]))
        BY <3>2, LenProperties
      <4>3. lists[i][m].seq <= maxSequence
        BY <3>4, <4>2 DEF ReadUpTo
      <4> QED
        BY <3>2, <4>1, <4>3
    <3>6. Growing(history', maxSequence + 1)
      BY <1>1, <1>2, <3>1 DEF Recovering
    <3> QED
      BY <1>1, <3>1, <3>3, <3>5, <3>6
  <2> QED
    BY <1>2, <1>3, <2>1 DEF FreshInv
<1> QED
  BY <1>4, <1>5

\* Every step keeps the numbers fresh.
LEMMA FreshStep ==
  ASSUME LogInv, LogInv', EngineTypeOK, FreshInv, [Next]_vars
  PROVE  FreshInv'
<1>0. ASSUME SyncSucceeds \/ SyncFails
      PROVE  /\ PipesCut
             /\ stream = << >> /\ buffer = << >> =>
                  SamePipes /\ stream' = << >> /\ buffer' = << >>
  <2>1. PipesCut /\ (stream = << >> /\ buffer = << >> => SamePipes)
    BY <1>0, SyncPipes
  <2>2. ASSUME stream = << >>, buffer = << >> PROVE stream' = << >> /\ buffer' = << >>
    <3>1. ~Refused(stream \o buffer)
      <4>1. stream \o buffer = << >> /\ Len(<< >>) = 0
        BY <2>2, EmptySeq
      <4> QED
        BY <4>1 DEF Refused
    <3> QED
      BY <1>0, <2>2, <3>1 DEF SyncSucceeds, SyncFails
  <2> QED
    BY <2>1, <2>2
<1>1. ASSUME NEW k \in Key, NEW v \in Value \cup {Tombstone}, LogMutation(k, v)
      PROVE  FreshInv'
  BY <1>1, LogMutationFresh
<1>a. ASSUME NEW k \in Key, NEW v \in Value \cup {Tombstone}, MutationOverruns(k, v)
      PROVE  FreshInv'
  <2>1. SamePipes /\ UNCHANGED <<stream, buffer, pc>>
        /\ UNCHANGED <<sequenceNumber, history, recovery, readFile, readPos, maxSequence, replayed>>
    BY <1>a DEF MutationOverruns, Overrun, engineVars, SamePipes, Pipe, Current, InFlightBytes,
                Carries
  <2> QED
    BY <2>1, QuietFresh
<1>2. CASE WalSyncOnWrite
  <2>1. SyncSucceeds \/ SyncFails
    BY <1>2 DEF WalSyncOnWrite
  <2>2. /\ PipesCut
        /\ stream = << >> /\ buffer = << >> =>
             SamePipes /\ stream' = << >> /\ buffer' = << >>
    BY <1>0, <2>1
  <2> QED
    BY <1>2, <2>2, CutFresh DEF WalSyncOnWrite, recoverVars
<1>3. CASE SyncMutation
  <2>1. SyncSucceeds \/ SyncFails
    BY <1>3 DEF SyncMutation
  <2>2. /\ PipesCut
        /\ stream = << >> /\ buffer = << >> =>
             SamePipes /\ stream' = << >> /\ buffer' = << >>
    BY <1>0, <2>1
  <2>3. pc # "recover" /\ pc' # "recover"
    BY <1>3 DEF SyncMutation
  <2> QED
    BY <1>3, <2>2, <2>3, CutFresh DEF SyncMutation, recoverVars
<1>4. CASE ApplyMutation
  <2>1. SamePipes /\ UNCHANGED <<stream, buffer>>
    BY <1>4 DEF ApplyMutation, walVars, SamePipes, Pipe, Current, InFlightBytes, Carries
  <2>2. pc # "recover" /\ pc' # "recover"
    BY <1>4 DEF ApplyMutation
  <2> QED
    BY <1>4, <2>1, <2>2, QuietFresh DEF ApplyMutation, recoverVars
<1>5. CASE EngineFlush
  <2>1. SamePipes
    BY <1>5, FlushPipes DEF EngineFlush
  <2>2. pc # "recover" /\ pc' # "recover"
        /\ UNCHANGED <<sequenceNumber, history, recovery, readFile, readPos, maxSequence, replayed>>
    BY <1>5 DEF EngineFlush, engineVars
  <2>3. stream = << >> /\ buffer = << >> => stream' = << >> /\ buffer' = << >>
    BY <1>5, EmptySeq, ConcatEmptySeq DEF EngineFlush, Flush, Flushed
  <2> QED
    BY <2>1, <2>2, <2>3, QuietFresh
<1>6. CASE EngineSync
  <2>1. SyncSucceeds \/ SyncFails
    BY <1>6 DEF EngineSync
  <2>2. /\ PipesCut
        /\ stream = << >> /\ buffer = << >> =>
             SamePipes /\ stream' = << >> /\ buffer' = << >>
    BY <1>0, <2>1
  <2> QED
    BY <1>6, <2>2, CutFresh DEF EngineSync, recoverVars
<1>7. CASE DiskRefusesWrite
  <2>1. /\ PipesCut /\ pc' = pc
        /\ UNCHANGED <<sequenceNumber, history, recovery, readFile, readPos, maxSequence, replayed>>
    BY <1>7, FailPipes DEF DiskRefusesWrite, engineVars
  <2>2. stream # << >>
    <3> SUFFICES ASSUME stream = << >> PROVE FALSE
      OBVIOUS
    <3>1. Len(stream) = 0
      BY EmptySeq
    <3> QED
      BY <1>7, <3>1 DEF DiskRefusesWrite, StreamWriteFails, Refused
  <2> QED
    BY <2>1, <2>2, CutFresh
<1>8. CASE Shutdown \/ Crash
  BY <1>8, StopFresh
<1>9. CASE Recovery
  BY <1>9, RecoverRecordFresh, NextFileFresh, RecoverEndFresh DEF Recovery
<1>10. CASE UNCHANGED vars
  <2>1. SamePipes /\ UNCHANGED <<stream, buffer, pc>>
        /\ UNCHANGED <<sequenceNumber, history, recovery, readFile, readPos, maxSequence, replayed>>
    BY <1>10 DEF vars, walVars, engineVars, SamePipes, Pipe, Current, InFlightBytes, Carries
  <2> QED
    BY <2>1, QuietFresh
<1> QED
  BY <1>1, <1>a, <1>2, <1>3, <1>4, <1>5, <1>6, <1>7, <1>8, <1>9, <1>10 DEF Next, Client

\* Sequence numbers identify mutations across restarts, whatever crashes,
\* refused writes and failed syncs did to the files, as long as no recovery
\* has met corruption.
THEOREM SequenceNumbersStayFresh == Spec => []SequenceFresh
<1>1. Init => FreshInv
  BY InitFresh
<1>2. FreshInv /\ EngineInv /\ EngineInv' /\ [Next]_vars => FreshInv'
  BY FreshStep DEF EngineInv
<1>3. FreshInv => SequenceFresh
  BY DEF FreshInv, SequenceFresh, Growing
<1> QED
  BY <1>1, <1>2, <1>3, EngineInvariant, PTL DEF Spec

-----------------------------------------------------------------------------
(* The abstract map's replay is the engine's.                              *)

\* One mutation does to the abstract map what it does to the tree.
LEMMA MutatedApplies ==
  ASSUME NEW t \in Trees, NEW r \in Record
  PROVE  DM!Mutated(t, r) = ApplyToTree(t, r) /\ DM!EmptyMap = EmptyTree
<1>1. DM!EmptyMap = EmptyTree
  BY DEF DM!EmptyMap, EmptyTree
<1>2. DM!Mutated(t, r) = ApplyToTree(t, r)
  <2>1. r.key \in Key
    BY DEF Record
  <2> QED
    BY <2>1 DEF DM!Mutated, ApplyToTree, TreeDelete, TreePut, EmptyKeys
<1> QED
  BY <1>1, <1>2

\* So the two folds over a history agree.
LEMMA DurableReplay ==
  ASSUME NEW h \in Seq(Record)
  PROVE  DM!Replay(h) = Replayed(h, {})
<1> DEFINE Body(iter) == [s \in SUBSET (DOMAIN h) |->
                            IF s = {} THEN DM!EmptyMap
                            ELSE DM!Mutated(iter[s \ {DM!Max(s)}], h[DM!Max(s)])]
           It == CHOOSE iter : iter = Body(iter)
           step == ReplayStep(h, {})
           n == Len(h)
<1>1. DM!Replay(h) = It[DOMAIN h]
  BY DEF DM!Replay, DM!FoldLeft, DM!MapThenFoldSet
<1>2. /\ \A s : DM!Max(s) = Max(s)
      /\ DM!EmptyMap = EmptyTree
  BY DEF DM!Max, Max, DM!EmptyMap, EmptyTree
<1>3. /\ n \in Nat /\ DOMAIN h = 1..n
      /\ \A i \in 1..n : h[i] \in Record
  BY LenProperties, ElementOfSeq
<1>4. EmptyTree \in Trees
  BY DEF EmptyTree, Trees
<1>5. step \in [Trees \X (Nat \ {0}) -> Trees]
  BY ReplayStepType
<1>6. ASSUME NEW t \in Trees, NEW m \in 1..n
      PROVE  step[<<t, m>>] = DM!Mutated(t, h[m])
  <2>1. step[<<t, m>>] = ApplyToTree(t, h[m])
    BY <1>3 DEF ReplayStep
  <2> QED
    BY <1>3, <2>1, MutatedApplies
<1> HIDE DEF step
<1>7. ASSUME NEW s \in SUBSET (1..n), s # {}, NEW f, f[s \ {Max(s)}] \in Trees
      PROVE  step[<<f[s \ {Max(s)}], Max(s)>>] = Body(f)[s]
  <2>1. Max(s) \in 1..n
    BY <1>3, <1>7, MaxOfPositions
  <2>2. Body(f)[s] = DM!Mutated(f[s \ {Max(s)}], h[Max(s)])
    BY <1>2, <1>3, <1>7
  <2> QED
    BY <1>6, <1>7, <2>1, <2>2
<1>8. PICK it \in [SUBSET (1..n) -> Trees] : Folds(it, EmptyTree, step, n)
  BY <1>3, <1>4, <1>5, FoldsExist
<1>9. ASSUME NEW f, f = Body(f)
      PROVE  FoldsFrom(Trees, f, EmptyTree, step, n)
  <2>1. ASSUME NEW s \in SUBSET (1..n), s # {}, f[s \ {Max(s)}] \in Trees
        PROVE  f[s] = step[<<f[s \ {Max(s)}], Max(s)>>]
    BY <1>7, <1>9, <2>1
  <2>2. f[{}] = EmptyTree
    BY <1>2, <1>3, <1>9
  <2> QED
    BY <2>1, <2>2 DEF FoldsFrom
<1>10. it = Body(it)
  <2>1. ASSUME NEW s \in SUBSET (1..n) PROVE it[s] = Body(it)[s]
    <3>1. CASE s = {}
      BY <1>2, <1>3, <1>8, <3>1 DEF Folds
    <3>2. CASE s # {}
      <4>1. it[s \ {Max(s)}] \in Trees
        OBVIOUS
      <4>2. it[s] = step[<<it[s \ {Max(s)}], Max(s)>>]
        BY <1>8, <3>2 DEF Folds
      <4> QED
        BY <1>7, <3>2, <4>1, <4>2
    <3> QED
      BY <3>1, <3>2
  <2> QED
    BY <1>3, <2>1
<1> HIDE DEF Body
<1>11. It = Body(It)
  BY <1>10
<1> HIDE DEF It
<1>12. FoldsFrom(Trees, It, EmptyTree, step, n)
  BY <1>9, <1>11
<1> DEFINE acc == [m \in 0..n |-> It[1..m]]
<1>13. DM!Replay(h) = acc[n] /\ acc = [m \in 0..n |-> It[1..m]]
  BY <1>1, <1>3
<1> HIDE DEF acc
<1>14. Accumulates(acc, EmptyTree, step, n)
  BY <1>3, <1>4, <1>5, <1>12, <1>13, FoldsAccumulate
<1>15. Accumulates(acc, EmptyTree, ReplayStep(h, {}), Len(h))
  BY <1>14 DEF step
<1>16. Replayed(h, {}) = acc[Len(h)]
  BY <1>3, <1>15, ReplaysAgree
<1> QED
  BY <1>13, <1>16

-----------------------------------------------------------------------------
(* When the engine is durable.                                             *)

\* The disk refuses nothing; a power loss is met only by an engine that
\* syncs what it applies; and after a first restart no crash leaves a torn
\* record behind, nor unsynced bytes that a later power loss could take from
\* the middle of the log.
RecoverySound ==
  /\ ~Faults
  /\ "power" \in CrashKinds => SyncOnWrite \/ EngineSyncOnWrite
  /\ MaxRestarts <= 1 \/ (~TornWrites /\ CrashKinds # {"process", "power"})

Again == restarts < MaxRestarts

\* Everything written is on the medium.
Settled == stream = << >> /\ buffer = << >> /\ synced[Current] = Len(files[Current])

\* No write is refused, no Sync is due between two calls, and an engine that
\* a power loss may meet has synced what it has applied.
SettledInv ==
  /\ streamGood = TRUE
  /\ pc \in {"idle", "recover"} => ~syncPending
  /\ pc = "recover" => stream = << >> /\ buffer = << >>
  /\ ("power" \in CrashKinds /\ Again) =>
       /\ pc \in {"idle", "recover"} => Settled
       /\ pc = "apply" => Settled \/ (syncPending /\ ~EngineSyncOnWrite)

\* A Sync that succeeds leaves nothing behind (wal.cpp 200-222).
LEMMA SyncSettles ==
  ASSUME LogInv, SyncSucceeds
  PROVE  /\ Settled' /\ streamGood' = streamGood /\ syncPending' = FALSE
         /\ Len(files') = Len(files)
<1> DEFINE t == stream \o buffer
<1>1. /\ files' = [files EXCEPT ![Current] = @ \o t]
      /\ synced' = [synced EXCEPT ![Current] = Len(files'[Current])]
      /\ stream' = << >> /\ buffer' = << >> /\ syncPending' = FALSE /\ streamGood' = streamGood
  BY DEF SyncSucceeds
<1>2. t \in Seq(Cell) /\ WalTypeOK
  BY ConcatProperties DEF LogInv, WalTypeOK
<1> HIDE DEF t
<1>3. Len(files') = Len(files)
  BY <1>1, <1>2, ExtendedFiles
<1>4. Current' = Current
  BY <1>3 DEF Current
<1>5. Current \in DOMAIN synced
  BY <1>2, LogSizes
<1>6. synced'[Current] = Len(files'[Current])
  BY <1>1, <1>5
<1> QED
  BY <1>1, <1>3, <1>4, <1>6 DEF Settled

\* Closing a settled log changes no file, and no crash leaves bytes in flight.
LEMMA StopSettles ==
  ASSUME RecoverySound, LogInv, EngineTypeOK, SettledInv, Shutdown \/ Crash
  PROVE  SettledInv'
<1>0. /\ WalTypeOK /\ SyncedWithinFile /\ Current \in DOMAIN files /\ streamGood = TRUE
      /\ Len(files) \in Nat /\ restarts' = restarts + 1 /\ pc' = "recover" /\ restarts \in Nat
  BY LogSizes DEF LogInv, EngineTypeOK, SettledInv, Shutdown, Crash, StartRecovery, Current
<1>1. /\ stream' = << >> /\ buffer' = << >> /\ streamGood' = TRUE /\ syncPending' = FALSE
  BY DEF Shutdown, Crash, CloseAndReopen, CrashAndReopen, Reopened, Opens, RecoverySound
<1>2. ASSUME "power" \in CrashKinds, Again'
      PROVE  Settled'
  <2>1. CASE Shutdown
    <3>1. Settled /\ CloseAndReopen
      <4>1. Again
        BY <1>0, <1>2, EngineAssumption DEF Again
      <4> QED
        BY <1>2, <2>1, <4>1 DEF Shutdown, SettledInv
    <3>2. SamePipes /\ synced' = synced /\ \A i \in DOMAIN files : Pipe(i)' = files'[i]
      BY <3>1, ClosePipes DEF RecoverySound
    <3>3. files'[Current] = files[Current] /\ Len(files') = Len(files)
      <4>1. files'[Current] = Pipe(Current)
        BY <1>0, <3>2 DEF SamePipes
      <4>2. << >> \o << >> = << >> /\ files[Current] \o << >> = files[Current]
        BY <1>0, LogSizes, ConcatEmptySeq
      <4>3. Pipe(Current) = files[Current]
        BY <1>0, <3>1, <4>2 DEF Pipe, InFlightBytes, Settled
      <4> QED
        BY <3>2, <4>1, <4>3 DEF SamePipes
    <3> QED
      BY <1>1, <3>1, <3>2, <3>3 DEF Settled, Current
  <2>2. ASSUME NEW kind \in CrashKinds, CrashAndReopen(kind)
        PROVE  Settled'
    <3>1. kind \in {"process", "power"}
      BY FlagsAssumption
    <3>2. kind = "power"
      <4>1. ~(MaxRestarts <= 1)
        BY <1>0, <1>2, EngineAssumption DEF Again
      <4> QED
        BY <1>2, <2>2, <3>1, <4>1, FlagsAssumption DEF RecoverySound
    <3>3. /\ Len(files') = Len(files)
          /\ \A i \in DOMAIN files : synced'[i] = Len(files'[i])
      BY <2>2, <3>2, CrashPipes DEF PipesCut, RecoverySound
    <3> QED
      BY <1>0, <1>1, <3>3 DEF Settled, Current
  <2> QED
    BY <2>1, <2>2 DEF Crash
<1> QED
  BY <1>0, <1>1, <1>2 DEF SettledInv

\* Only a Sync that is due can be skipped over, and it is not.
LEMMA SettledStep ==
  ASSUME RecoverySound, LogInv, EngineTypeOK, SettledInv, [Next]_vars
  PROVE  SettledInv'
<1>0. /\ ~Faults /\ streamGood = TRUE /\ isOpen /\ WalTypeOK /\ restarts \in Nat /\ MaxRestarts \in Nat
      /\ ("power" \in CrashKinds => SyncOnWrite \/ EngineSyncOnWrite)
  BY EngineAssumption DEF RecoverySound, SettledInv, LogInv, Healthy, EngineTypeOK
<1>1. ASSUME NEW k \in Key, NEW v \in Value \cup {Tombstone}, LogMutation(k, v)
      PROVE  SettledInv'
  <2>1. /\ pc' = IF EngineSyncOnWrite THEN "sync" ELSE "apply"
        /\ syncPending' = SyncOnWrite /\ streamGood' = TRUE
    BY <1>0, <1>1 DEF LogMutation, WriteRecord, AppendToCurrent, RotateAndAppend,
                       ReopenAndAppend, Opens
  <2> QED
    BY <1>0, <2>1, EngineAssumption, FlagsAssumption DEF SettledInv
<1>2. CASE WalSyncOnWrite
  <2>1. SyncSucceeds /\ syncPending /\ UNCHANGED <<pc, restarts>>
    BY <1>0, <1>2 DEF WalSyncOnWrite, SyncFails, Refused, recoverVars
  <2> QED
    BY <1>0, <2>1, SyncSettles DEF SettledInv
<1>3. CASE SyncMutation
  <2>1. SyncSucceeds /\ pc' = "apply"
    BY <1>0, <1>3 DEF SyncMutation, SyncFails, Refused
  <2> QED
    BY <1>0, <2>1, SyncSettles DEF SettledInv
<1>4. CASE ApplyMutation
  <2>1. /\ UNCHANGED walVars /\ ~syncPending /\ pc = "apply" /\ pc' = "idle" /\ restarts' = restarts
    BY <1>4 DEF ApplyMutation, recoverVars
  <2> QED
    BY <1>0, <2>1 DEF SettledInv, Settled, Again, walVars, Current
<1>5. CASE EngineFlush
  <2>1. /\ stream' = stream \o buffer /\ buffer' = << >> /\ pc = "idle"
        /\ UNCHANGED <<files, synced, streamGood, syncPending, pc, restarts>>
    BY <1>0, <1>5 DEF EngineFlush, Flush, Flushed, engineVars
  <2>2. << >> \o << >> = << >>
    OBVIOUS
  <2> QED
    BY <1>0, <2>1, <2>2 DEF SettledInv, Settled, Again, Current
<1>6. CASE EngineSync
  <2>1. SyncSucceeds /\ pc = "idle" /\ UNCHANGED <<pc, restarts>>
    BY <1>0, <1>6 DEF EngineSync, SyncFails, Refused, recoverVars
  <2> QED
    BY <1>0, <2>1, SyncSettles DEF SettledInv
<1>7. CASE DiskRefusesWrite
  BY <1>0, <1>7 DEF DiskRefusesWrite, StreamWriteFails, Refused
<1>8. CASE Recovery
  <2>1. UNCHANGED walVars /\ pc = "recover" /\ pc' \in {"idle", "recover"} /\ restarts' = restarts
    BY <1>8 DEF Recovery, RecoverRecord, RecoverNextFile, RecoverDone, RecoverCorrupt,
                ServeRecovered, Reading
  <2> QED
    BY <1>0, <2>1 DEF SettledInv, Settled, Again, walVars, Current
<1>9. CASE Shutdown \/ Crash
  BY <1>9, StopSettles
<1>11. ASSUME NEW k \in Key, NEW v \in Value \cup {Tombstone}, MutationOverruns(k, v)
       PROVE  SettledInv'
  BY <1>11 DEF MutationOverruns, Overrun, SettledInv, Settled, Again, engineVars, Current
<1>10. CASE UNCHANGED vars
  BY <1>10 DEF SettledInv, Settled, Again, vars, walVars, engineVars, Current
<1> QED
  BY <1>1, <1>2, <1>3, <1>4, <1>5, <1>6, <1>7, <1>8, <1>9, <1>10, <1>11 DEF Next, Client

-----------------------------------------------------------------------------
(* The records of the files, put together.                                 *)

\* The records of the first n files, one file after the other, are the start
\* of the mutations h; b[i] is how many of them the first i files hold.
Split(lists, b, h, n) ==
  /\ b \in [0..n -> Nat] /\ b[0] = 0 /\ b[n] <= Len(h)
  /\ \A i \in 1..n : b[i] = b[i - 1] + Len(lists[i])
  /\ \A i \in 1..n : \A m \in 1..Len(lists[i]) : lists[i][m] = h[b[i - 1] + m]

RecordLists(lists, n) == \A i \in 1..n : lists[i] \in Seq(Record)

\* Later files hold later mutations.
LEMMA SplitGrows ==
  ASSUME NEW n \in Nat, NEW lists, NEW b, NEW h \in Seq(Record),
         RecordLists(lists, n), Split(lists, b, h, n)
  PROVE  /\ Len(h) \in Nat
         /\ \A i \in 0..n : b[i] \in Nat /\ b[i] <= b[n] /\ b[i] <= Len(h)
         /\ \A i \in 1..n : /\ Len(lists[i]) \in Nat /\ b[i - 1] \in Nat
                            /\ b[i] = b[i - 1] + Len(lists[i])
         /\ \A i \in 1..n : \A m \in 1..Len(lists[i]) :
              b[i - 1] + m \in 1..b[n] /\ b[i - 1] + m \in 1..Len(h)
<1>1. Len(h) \in Nat /\ \A i \in 1..n : Len(lists[i]) \in Nat
  BY LenProperties DEF RecordLists
<1>2. /\ \A i \in 0..n : b[i] \in Nat
      /\ \A i \in 1..n : b[i - 1] \in Nat /\ b[i] = b[i - 1] + Len(lists[i])
      /\ b[n] <= Len(h)
  <2>1. \A i \in 0..n : b[i] \in Nat
    BY DEF Split
  <2>2. \A i \in 1..n : i - 1 \in 0..n
    OBVIOUS
  <2> QED
    BY <2>1, <2>2 DEF Split
<1> DEFINE S == {k \in Nat : k <= n => \A i \in 0..k : b[i] <= b[k]}
<1>3. Nat \subseteq S
  <2>1. 0 \in S
    BY <1>2
  <2>2. ASSUME NEW k \in Nat, k \in S
        PROVE  k + 1 \in S
    <3>1. CASE k + 1 <= n
      <4>1. /\ b[k + 1] = b[k] + Len(lists[k + 1]) /\ b[k] \in Nat /\ b[k + 1] \in Nat
            /\ Len(lists[k + 1]) \in Nat
        BY <1>1, <1>2, <3>1
      <4>2. \A i \in 0..k : b[i] \in Nat /\ b[i] <= b[k]
        BY <1>2, <2>2, <3>1
      <4>3. ASSUME NEW i \in 0..(k + 1)
            PROVE  b[i] <= b[k + 1]
        <5>1. CASE i = k + 1
          BY <4>1, <5>1
        <5>2. CASE i # k + 1
          <6>1. i \in 0..k
            BY <5>2
          <6> QED
            BY <4>1, <4>2, <6>1
        <5> QED
          BY <5>1, <5>2
      <4> QED
        BY <4>3
    <3> QED
      BY <3>1
  <2> HIDE DEF S
  <2> QED
    BY <2>1, <2>2, SetInduction
<1>4. \A i \in 0..n : b[i] <= b[n] /\ b[i] <= Len(h)
  <2>1. \A i \in 0..n : b[i] <= b[n]
    BY <1>3
  <2> QED
    BY <1>1, <1>2, <2>1
<1>5. ASSUME NEW i \in 1..n, NEW m \in 1..Len(lists[i])
      PROVE  b[i - 1] + m \in 1..b[n] /\ b[i - 1] + m \in 1..Len(h)
  <2>1. /\ b[i] = b[i - 1] + Len(lists[i]) /\ b[i - 1] \in Nat /\ Len(lists[i]) \in Nat
        /\ b[i] \in Nat /\ b[n] \in Nat /\ b[i] <= b[n] /\ b[i] <= Len(h)
    BY <1>1, <1>2, <1>4
  <2> QED
    BY <1>1, <2>1
<1> QED
  BY <1>1, <1>2, <1>4, <1>5

\* A mutation logged in the last file, ...
LEMMA SplitAppend ==
  ASSUME NEW n \in Nat \ {0}, NEW lists, NEW b, NEW h \in Seq(Record),
         RecordLists(lists, n), Split(lists, b, h, n), b[n] = Len(h),
         NEW r \in Record, NEW g,
         \A i \in 1..n : g[i] = IF i = n THEN Append(lists[i], r) ELSE lists[i]
  PROVE  \E c : /\ Split(g, c, Append(h, r), n) /\ c[n] = Len(Append(h, r))
                /\ \A i \in 0..(n - 1) : c[i] = b[i]
<1> DEFINE c == [i \in 0..n |-> IF i = n THEN b[n] + 1 ELSE b[i]]
           e == Append(h, r)
<1>1. /\ Len(h) \in Nat /\ \A i \in 0..n : b[i] \in Nat
      /\ \A i \in 1..n : /\ Len(lists[i]) \in Nat /\ b[i - 1] \in Nat
                         /\ b[i] = b[i - 1] + Len(lists[i])
      /\ \A i \in 1..n : \A m \in 1..Len(lists[i]) : b[i - 1] + m \in 1..Len(h)
  BY SplitGrows
<1>2. /\ Len(e) = Len(h) + 1 /\ e[Len(h) + 1] = r /\ \A j \in 1..Len(h) : e[j] = h[j]
  BY AppendProperties
<1>3. /\ c \in [0..n -> Nat] /\ c[n] = b[n] + 1 /\ \A i \in 0..(n - 1) : c[i] = b[i]
  BY <1>1
<1> HIDE DEF c, e
<1>4. lists[n] \in Seq(Record)
  BY DEF RecordLists
<1>5. /\ Len(g[n]) = Len(lists[n]) + 1 /\ g[n][Len(lists[n]) + 1] = r
      /\ \A m \in 1..Len(lists[n]) : g[n][m] = lists[n][m]
  <2>0. n \in 1..n
    OBVIOUS
  <2>1. g[n] = Append(lists[n], r)
    BY <2>0
  <2> QED
    BY <1>4, <2>1, AppendProperties
<1>6. ASSUME NEW i \in 1..n
      PROVE  /\ c[i] = c[i - 1] + Len(g[i])
             /\ \A m \in 1..Len(g[i]) : g[i][m] = e[c[i - 1] + m]
  <2>1. c[i - 1] = b[i - 1] /\ b[i - 1] \in Nat
    BY <1>1, <1>3
  <2>2. \A m \in 1..Len(lists[i]) : /\ lists[i][m] = h[b[i - 1] + m]
                                    /\ e[b[i - 1] + m] = h[b[i - 1] + m]
    BY <1>1, <1>2 DEF Split
  <2>3. CASE i # n
    <3>1. g[i] = lists[i] /\ c[i] = b[i]
      BY <1>3, <2>3
    <3> QED
      BY <1>1, <2>1, <2>2, <3>1
  <2>4. CASE i = n
    <3>0. b[n] = b[n - 1] + Len(lists[n]) /\ b[n - 1] \in Nat /\ Len(lists[n]) \in Nat
      BY <1>1, <2>4
    <3>1. c[n] = c[n - 1] + Len(g[n])
      BY <1>3, <1>5, <2>1, <2>4, <3>0
    <3>2. ASSUME NEW m \in 1..Len(g[n])
          PROVE  g[n][m] = e[c[n - 1] + m]
      <4>1. CASE m = Len(lists[n]) + 1
        <5>1. c[n - 1] + m = Len(h) + 1
          BY <1>1, <1>3, <2>1, <2>4, <4>1
        <5> QED
          BY <1>2, <1>5, <4>1, <5>1
      <4>2. CASE m # Len(lists[n]) + 1
        <5>1. m \in 1..Len(lists[n])
          BY <1>1, <1>5, <4>2
        <5> QED
          BY <1>5, <2>1, <2>2, <2>4, <5>1, SMTT(30)
      <4> QED
        BY <4>1, <4>2
    <3> QED
      BY <2>4, <3>1, <3>2
  <2> QED
    BY <2>3, <2>4
<1>7. c[0] = 0
  BY <1>3 DEF Split
<1>8. c[n] = Len(e)
  BY <1>1, <1>2, <1>3
<1>9. Split(g, c, e, n)
  <2>1. c \in [0..n -> Nat]
    BY <1>3
  <2>2. c[n] <= Len(e)
    BY <1>1, <1>2, <1>8
  <2>3. \A i \in 1..n : c[i] = c[i - 1] + Len(g[i])
    BY <1>6
  <2>4. \A i \in 1..n : \A m \in 1..Len(g[i]) : g[i][m] = e[c[i - 1] + m]
    BY <1>6
  <2> QED
    BY <1>7, <2>1, <2>2, <2>3, <2>4 DEF Split
<1> QED
  BY <1>3, <1>8, <1>9 DEF e

\* g is the lists of the first n files, and then one of r alone.
OneMore(g, lists, n, r) == g[n + 1] = <<r>> /\ \A i \in 1..n : g[i] = lists[i]

\* ... or in a new one.
LEMMA SplitRotate ==
  ASSUME NEW n \in Nat, NEW lists, NEW b, NEW h \in Seq(Record),
         RecordLists(lists, n), Split(lists, b, h, n), b[n] = Len(h),
         NEW r \in Record, NEW g, OneMore(g, lists, n, r)
  PROVE  \E c : /\ Split(g, c, Append(h, r), n + 1) /\ c[n + 1] = Len(Append(h, r))
                /\ \A i \in 0..n : c[i] = b[i]
<1> USE DEF OneMore
<1> DEFINE c == [i \in 0..(n + 1) |-> IF i = n + 1 THEN b[n] + 1 ELSE b[i]]
           e == Append(h, r)
<1>1. /\ Len(h) \in Nat /\ \A i \in 0..n : b[i] \in Nat
      /\ \A i \in 1..n : /\ Len(lists[i]) \in Nat /\ b[i - 1] \in Nat
                         /\ b[i] = b[i - 1] + Len(lists[i])
      /\ \A i \in 1..n : \A m \in 1..Len(lists[i]) : b[i - 1] + m \in 1..Len(h)
  BY SplitGrows
<1>2. /\ Len(e) = Len(h) + 1 /\ e[Len(h) + 1] = r /\ \A j \in 1..Len(h) : e[j] = h[j]
  BY AppendProperties
<1>3. /\ c \in [0..(n + 1) -> Nat] /\ c[n + 1] = b[n] + 1 /\ \A i \in 0..n : c[i] = b[i]
  BY <1>1
<1> HIDE DEF c, e
<1>4. Len(<<r>>) = 1 /\ <<r>>[1] = r
  OBVIOUS
<1>5. ASSUME NEW i \in 1..(n + 1)
      PROVE  /\ c[i] = c[i - 1] + Len(g[i])
             /\ \A m \in 1..Len(g[i]) : g[i][m] = e[c[i - 1] + m]
  <2>1. CASE i # n + 1
    <3>1. i \in 1..n /\ g[i] = lists[i] /\ c[i] = b[i] /\ c[i - 1] = b[i - 1]
      BY <1>3, <2>1
    <3>2. \A m \in 1..Len(lists[i]) : /\ lists[i][m] = h[b[i - 1] + m]
                                      /\ e[b[i - 1] + m] = h[b[i - 1] + m]
      BY <1>1, <1>2, <3>1 DEF Split
    <3> QED
      BY <1>1, <3>1, <3>2
  <2>2. CASE i = n + 1
    <3>1. c[i - 1] = Len(h)
      BY <1>3, <2>2
    <3>2. c[i] = c[i - 1] + Len(g[i])
      BY <1>1, <1>3, <1>4, <2>2, <3>1
    <3>3. \A m \in 1..Len(g[i]) : m = 1
      <4>1. Len(g[i]) = 1
        BY <1>4, <2>2
      <4> QED
        BY <4>1
    <3>4. g[i][1] = e[c[i - 1] + 1]
      BY <1>2, <1>4, <2>2, <3>1
    <3> QED
      BY <3>2, <3>3, <3>4
  <2> QED
    BY <2>1, <2>2
<1>6. c[0] = 0
  BY <1>3 DEF Split
<1>7. c[n + 1] = Len(e)
  BY <1>1, <1>2, <1>3
<1>8. c[n + 1] <= Len(e)
  BY <1>1, <1>2, <1>7
<1>9. Split(g, c, e, n + 1)
  <2>1. c \in [0..(n + 1) -> Nat]
    BY <1>3
  <2>2. \A i \in 1..(n + 1) : c[i] = c[i - 1] + Len(g[i])
    BY <1>5
  <2>3. \A i \in 1..(n + 1) : \A m \in 1..Len(g[i]) : g[i][m] = e[c[i - 1] + m]
    BY <1>5
  <2> QED
    BY <1>6, <1>8, <2>1, <2>2, <2>3 DEF Split
<1> QED
  BY <1>3, <1>7, <1>9 DEF e

\* Records lost from the end of the last file only.
LEMMA SplitCut ==
  ASSUME NEW n \in Nat \ {0}, NEW lists, NEW b, NEW h \in Seq(Record),
         RecordLists(lists, n), Split(lists, b, h, n), NEW g, RecordLists(g, n),
         \A i \in 1..n : Cut(g[i], lists[i]),
         \A i \in 1..(n - 1) : Len(g[i]) = Len(lists[i])
  PROVE  \E c : /\ Split(g, c, h, n) /\ c[n] = b[n - 1] + Len(g[n])
                /\ \A i \in 0..(n - 1) : c[i] = b[i]
<1> DEFINE c == [i \in 0..n |-> IF i = n THEN b[n - 1] + Len(g[n]) ELSE b[i]]
<1>1. /\ Len(h) \in Nat /\ \A i \in 0..n : b[i] \in Nat
      /\ \A i \in 1..n : /\ Len(lists[i]) \in Nat /\ b[i - 1] \in Nat
                         /\ b[i] = b[i - 1] + Len(lists[i])
      /\ b[n] <= Len(h) /\ n - 1 \in 0..n
  BY SplitGrows
<1>2. Len(g[n]) \in Nat /\ Len(g[n]) <= Len(lists[n])
  BY LenProperties DEF RecordLists, Cut
<1>3. /\ c \in [0..n -> Nat] /\ c[n] = b[n - 1] + Len(g[n]) /\ \A i \in 0..(n - 1) : c[i] = b[i]
  BY <1>1, <1>2
<1> HIDE DEF c
<1>4. ASSUME NEW i \in 1..n
      PROVE  /\ c[i] = c[i - 1] + Len(g[i])
             /\ \A m \in 1..Len(g[i]) : g[i][m] = h[c[i - 1] + m]
  <2>1. c[i - 1] = b[i - 1]
    BY <1>3
  <2>2. c[i] = c[i - 1] + Len(g[i])
    <3>1. CASE i = n
      BY <1>3, <2>1, <3>1
    <3>2. CASE i # n
      BY <1>1, <1>3, <2>1, <3>2
    <3> QED
      BY <3>1, <3>2
  <2>3. ASSUME NEW m \in 1..Len(g[i])
        PROVE  g[i][m] = h[c[i - 1] + m]
    <3>1. m \in 1..Len(lists[i]) /\ g[i][m] = lists[i][m]
      <4>1. Len(g[i]) \in Nat /\ Len(g[i]) <= Len(lists[i]) /\ g[i][m] = lists[i][m]
        BY LenProperties DEF RecordLists, Cut
      <4> QED
        BY <1>1, <4>1
    <3> QED
      BY <2>1, <3>1 DEF Split
  <2> QED
    BY <2>2, <2>3
<1>5. c[0] = 0
  BY <1>3 DEF Split
<1>6. c[n] <= Len(h)
  BY <1>1, <1>2, <1>3
<1>7. Split(g, c, h, n)
  BY <1>3, <1>4, <1>5, <1>6 DEF Split
<1> QED
  BY <1>3, <1>7

\* What the files hold is also the start of just that much of the mutations.
LEMMA SplitPrefix ==
  ASSUME NEW n \in Nat, NEW lists, NEW b, NEW h \in Seq(Record), NEW f \in Seq(Record),
         RecordLists(lists, n), Split(lists, b, h, n),
         Len(f) = b[n], \A j \in 1..Len(f) : f[j] = h[j]
  PROVE  Split(lists, b, f, n)
<1>1. /\ \A i \in 0..n : b[i] \in Nat
      /\ \A i \in 1..n : \A m \in 1..Len(lists[i]) : b[i - 1] + m \in 1..b[n]
  BY SplitGrows
<1>2. \A i \in 1..n : \A m \in 1..Len(lists[i]) : lists[i][m] = f[b[i - 1] + m]
  BY <1>1 DEF Split
<1>3. b[n] <= Len(f)
  BY <1>1
<1> QED
  BY <1>2, <1>3 DEF Split

\* The files, with the bytes on their way to them, hold the start of the
\* history, and in it everything a successful Sync covered.
Holds(lists, pos, b) ==
  /\ LogParsed(lists, pos)
  /\ Split(lists, b, history, Len(files))
  /\ stable <= b[Len(files)]

\* No crash can take away more than the end of the current file, and nothing
\* that is stable.
Intact(lists, pos, b) ==
  /\ \A i \in 1..Len(files) : Whole(lists, pos, i)
  /\ \A kind \in CrashKinds :
       /\ \A i \in 1..(Len(files) - 1) : Safe(kind, i) >= Len(files[i])
       /\ \E s \in 0..Len(lists[Len(files)]) :
            /\ stable <= b[Len(files) - 1] + s
            /\ pos[Len(files)][s] <= Safe(kind, Len(files))

\* Recover meets nothing garbled, and has delivered the mutations of the
\* records before its position.
Readable(lists, pos, b) ==
  /\ \A i \in 1..Len(files) : CleanEnd(Pipe(i), pos[i][Len(lists[i])])
  /\ \E k \in 0..Len(lists[readFile]) :
       readPos = pos[readFile][k] /\ Len(replayed) = b[readFile - 1] + k
  /\ \A j \in 1..Len(replayed) : replayed[j] = history[j]

\* Until the last restart has recovered, the log holds the history.
KeepsInv ==
  Again \/ pc = "recover" =>
    \E lists, pos, b :
      /\ Holds(lists, pos, b)
      /\ Again => Intact(lists, pos, b)
      /\ pc # "recover" => b[Len(files)] = Len(history)
      /\ pc = "recover" => Readable(lists, pos, b)

\* A new log holds nothing.
LEMMA InitKeeps == Init => KeepsInv
<1> SUFFICES ASSUME Init PROVE KeepsInv
  OBVIOUS
<1> DEFINE z == [j \in {0} |-> 0]
<1>1. /\ files = << << >> >> /\ stream = << >> /\ buffer = << >>
      /\ history = << >> /\ pc = "idle" /\ stable = 0 /\ synced = <<0>>
  BY DEF Init, WalInit
<1>2. /\ Len(files) = 1 /\ 1..1 = {1} /\ files[1] = << >> /\ << >> \o << >> = << >>
      /\ Len(<< >>) = 0 /\ synced[1] = 0
  BY <1>1
<1>3. Pipe(1) = << >>
  BY <1>1, <1>2 DEF Pipe, InFlightBytes, Current
<1>4. /\ Parsed(<< >>, << >>, z) /\ << >> \in Seq(Record) /\ z[0] = 0
  BY ParsedEmpty
<1> HIDE DEF z
<1> DEFINE lists == << << >> >>
           pos == <<z>>
           b == [i \in 0..1 |-> 0]
<1>5. /\ lists[1] = << >> /\ pos[1] = z /\ 1..0 = {} /\ 0..0 = {0}
      /\ b \in [0..1 -> Nat] /\ b[0] = 0 /\ b[1] = 0
  OBVIOUS
<1> HIDE DEF lists, pos, b
<1>6. LogParsed(lists, pos)
  BY <1>2, <1>3, <1>4, <1>5 DEF LogParsed
<1>7. Split(lists, b, history, Len(files))
  BY <1>1, <1>2, <1>5 DEF Split
<1>8. Holds(lists, pos, b)
  BY <1>1, <1>2, <1>5, <1>6, <1>7 DEF Holds
<1>9. Intact(lists, pos, b)
  <2>1. \A i \in 1..1 : Whole(lists, pos, i)
    BY <1>2, <1>3, <1>4, <1>5 DEF Whole
  <2>2. \A kind : Safe(kind, 1) = 0
    BY <1>2 DEF Safe
  <2>3. 0 \in 0..Len(lists[1]) /\ stable <= b[0] + 0 /\ pos[1][0] = 0
    BY <1>1, <1>2, <1>4, <1>5
  <2> QED
    BY <1>2, <1>5, <2>1, <2>2, <2>3 DEF Intact
<1> QED
  BY <1>1, <1>2, <1>5, <1>8, <1>9 DEF KeepsInv

\* A record written after the others in the current file.
LEMMA AppendKeeps ==
  ASSUME LogInv, LogInv', EngineTypeOK, ~Faults, NEW r \in Record,
         AppendToCurrent(r), history' = Append(history, r), stable' = stable,
         NEW lists, NEW pos, NEW b, Holds(lists, pos, b), Intact(lists, pos, b),
         b[Len(files)] = Len(history)
  PROVE  \E g, q, c : (Holds(g, q, c) /\ Intact(g, q, c) /\ c[Len(files)] = Len(history))'
<1>0. PICK n \in Nat \ {0} :
      /\ WalTypeOK /\ n = Len(files) /\ Current = n /\ DOMAIN files = 1..n
      /\ history \in Seq(Record) /\ stable \in Nat /\ Carries
  BY LogSizes DEF LogInv, EngineTypeOK, Current, Healthy, Carries
<1>1. /\ files' = files /\ synced' = synced /\ Len(files') = n
      /\ \A i \in 1..n : i # n => Pipe(i)' = Pipe(i)
  BY <1>0, AppendPipes DEF AppendToCurrent
<1>2. PICK g, q :
        /\ LogParsed(g, q)'
        /\ \A i \in 1..Len(files) :
             IF i = Current /\ Carries /\ Whole(lists, pos, i)
             THEN /\ g[i] = Append(lists[i], r) /\ q[i][Len(g[i])] = Len(Pipe(i)')
                  /\ \A j \in 0..Len(lists[i]) : q[i][j] = pos[i][j]
             ELSE g[i] = lists[i] /\ q[i] = pos[i]
  BY <1>0, AppendParsed DEF Holds
<1>3. /\ \A i \in 1..n : g[i] = IF i = n THEN Append(lists[i], r) ELSE lists[i]
      /\ \A i \in 1..n : i # n => q[i] = pos[i]
      /\ q[n][Len(g[n])] = Len(Pipe(n)')
      /\ \A j \in 0..Len(lists[n]) : q[n][j] = pos[n][j]
  <2>1. \A i \in 1..n : Whole(lists, pos, i)
    BY <1>0 DEF Intact
  <2>2. \A i \in 1..n : i # n => g[i] = lists[i] /\ q[i] = pos[i]
    BY <1>0, <1>2
  <2>3. n \in 1..n /\ Whole(lists, pos, n)
    BY <1>0, <2>1
  <2>4. /\ g[n] = Append(lists[n], r) /\ q[n][Len(g[n])] = Len(Pipe(n)')
        /\ \A j \in 0..Len(lists[n]) : q[n][j] = pos[n][j]
    BY <1>0, <1>2, <2>3
  <2> QED
    BY <2>2, <2>4
<1>4. RecordLists(lists, n)
  BY <1>0 DEF RecordLists, Holds, LogParsed
<1>5. PICK c : /\ Split(g, c, Append(history, r), n) /\ c[n] = Len(Append(history, r))
               /\ \A i \in 0..(n - 1) : c[i] = b[i]
  <2>1. Split(lists, b, history, n) /\ b[n] = Len(history)
    BY <1>0 DEF Holds
  <2>2. \A i \in 1..n : g[i] = IF i = n THEN Append(lists[i], r) ELSE lists[i]
    BY <1>3
  <2> QED
    BY <1>0, <1>4, <2>1, <2>2, SplitAppend
<1>6. Len(Append(history, r)) = Len(history) + 1 /\ Len(history) \in Nat
  BY <1>0, AppendProperties, LenProperties
<1>7. Holds(g, q, c)'
  BY <1>0, <1>1, <1>2, <1>5, <1>6 DEF Holds
<1>8. \A i \in 1..n : Whole(g, q, i)'
  <2> SUFFICES ASSUME NEW i \in 1..n PROVE q[i][Len(g[i])] = Len(Pipe(i)')
    BY DEF Whole
  <2>1. pos[i][Len(lists[i])] = Len(Pipe(i))
    BY <1>0 DEF Intact, Whole
  <2> QED
    BY <1>1, <1>3, <2>1
<1>9. ASSUME NEW kind \in CrashKinds
      PROVE  /\ \A i \in 1..(n - 1) : Safe(kind, i)' >= Len(files'[i])
             /\ \E s \in 0..Len(g[n]) : /\ stable' <= c[n - 1] + s
                                        /\ q[n][s] <= Safe(kind, n)'
  <2>1. \A i : Safe(kind, i)' = Safe(kind, i)
    BY <1>1 DEF Safe
  <2>2. PICK s \in 0..Len(lists[n]) :
          stable <= b[n - 1] + s /\ pos[n][s] <= Safe(kind, n)
    BY <1>0 DEF Intact
  <2>3. s \in 0..Len(g[n]) /\ q[n][s] = pos[n][s] /\ c[n - 1] = b[n - 1]
    <3>1. lists[n] \in Seq(Record) /\ g[n] = Append(lists[n], r)
      <4>1. n \in 1..n
        BY <1>0
      <4> QED
        BY <1>3, <1>4, <4>1 DEF RecordLists
    <3>2. Len(g[n]) = Len(lists[n]) + 1 /\ Len(lists[n]) \in Nat
      BY <3>1, AppendProperties, LenProperties
    <3> QED
      BY <1>0, <1>3, <1>5, <3>2
  <2> QED
    BY <1>1, <2>1, <2>2, <2>3 DEF Intact
<1>10. Intact(g, q, c)'
  BY <1>1, <1>8, <1>9 DEF Intact
<1> QED
  BY <1>1, <1>5, <1>7, <1>10

\* A record written to a new file: what the closed ones hold is on the medium
\* whenever a power loss may follow.
LEMMA RotateKeeps ==
  ASSUME LogInv, LogInv', EngineTypeOK, ~Faults, NEW r \in Record,
         RotateAndAppend(r), history' = Append(history, r), stable' = stable,
         "power" \in CrashKinds => Settled,
         NEW lists, NEW pos, NEW b, Holds(lists, pos, b), Intact(lists, pos, b),
         b[Len(files)] = Len(history)
  PROVE  \E g, q, c : (Holds(g, q, c) /\ Intact(g, q, c) /\ c[Len(files)] = Len(history))'
<1>0. PICK n \in Nat \ {0} :
      /\ WalTypeOK /\ n = Len(files) /\ Current = n /\ DOMAIN files = 1..n
      /\ history \in Seq(Record) /\ stable \in Nat /\ synced \in Seq(Nat) /\ Len(synced) = n
  BY LogSizes DEF LogInv, EngineTypeOK, Current, WalTypeOK
<1>1. /\ Len(files') = n + 1 /\ files'[n + 1] = << >> /\ Pipe(n + 1)' = Encoding(r)
      /\ \A i \in 1..n : Pipe(i)' = Pipe(i) /\ files'[i] = Pipe(i)
  <2>1. \A i : i = Len(files) + 1 => Pipe(i)' = Encoding(r)
    BY <1>0, RotatePipes
  <2>2. /\ Len(files') = Len(files) + 1 /\ files'[Current + 1] = << >>
        /\ \A i \in DOMAIN files : Pipe(i)' = Pipe(i) /\ Pipe(i)' = files'[i]
    BY <1>0, RotatePipes
  <2> QED
    BY <1>0, <2>1, <2>2
<1>2. /\ synced'[n + 1] = 0 /\ \A i \in 1..n : synced'[i] = synced[i]
  <2>1. synced' = Append(synced, 0)
    BY DEF RotateAndAppend
  <2> QED
    BY <1>0, <2>1, AppendProperties
<1>3. PICK e : Parsed(Encoding(r), <<r>>, e) /\ e[1] = RecordSize(r) /\ e[0] = 0
  BY ParsedRecord
<1>4. RecordLists(lists, n) /\ \A i \in 1..n : Parsed(Pipe(i), lists[i], pos[i])
  BY <1>0 DEF RecordLists, Holds, LogParsed
<1> DEFINE g == [i \in 1..(n + 1) |-> IF i = n + 1 THEN <<r>> ELSE lists[i]]
           q == [i \in 1..(n + 1) |-> IF i = n + 1 THEN e ELSE pos[i]]
<1>5. /\ g[n + 1] = <<r>> /\ q[n + 1] = e
      /\ \A i \in 1..n : g[i] = lists[i] /\ q[i] = pos[i]
  BY <1>0
<1>6. <<r>> \in Seq(Record) /\ Len(<<r>>) = 1
  OBVIOUS
<1> HIDE DEF g, q
<1>7. PICK G, Q : /\ G[n + 1] = <<r>> /\ Q[n + 1] = e
                  /\ \A i \in 1..n : G[i] = lists[i] /\ Q[i] = pos[i]
  <2> WITNESS g, q
  <2> QED
    BY <1>5
<1>8. LogParsed(G, Q)'
  <2>1. ASSUME NEW i \in 1..(n + 1)
        PROVE  G[i] \in Seq(Record) /\ Parsed(Pipe(i)', G[i], Q[i])
    <3>1. CASE i = n + 1
      BY <1>1, <1>3, <1>6, <1>7, <3>1
    <3>2. CASE i # n + 1
      <4>1. i \in 1..n
        BY <1>0, <3>2
      <4> QED
        BY <1>1, <1>4, <1>7, <4>1 DEF RecordLists
    <3> QED
      BY <3>1, <3>2
  <2> QED
    BY <1>1, <2>1 DEF LogParsed
<1>9. PICK c : /\ Split(G, c, Append(history, r), n + 1) /\ c[n + 1] = Len(Append(history, r))
               /\ \A i \in 0..n : c[i] = b[i]
  <2>1. Split(lists, b, history, n)
    BY <1>0 DEF Holds
  <2>2. OneMore(G, lists, n, r)
    BY <1>7 DEF OneMore
  <2>4. n \in Nat /\ b[n] = Len(history) /\ history \in Seq(Record)
    BY <1>0
  <2>5. RecordLists(lists, n)
    BY <1>4
  <2>3. \E c : /\ Split(G, c, Append(history, r), n + 1) /\ c[n + 1] = Len(Append(history, r))
               /\ \A i \in 0..n : c[i] = b[i]
    BY <2>1, <2>2, <2>4, <2>5, SplitRotate
  <2> QED
    BY <2>3, Zenon
<1>10. Len(Append(history, r)) = Len(history) + 1 /\ Len(history) \in Nat
  BY <1>0, AppendProperties, LenProperties
<1>11. stable <= b[n] /\ b[n] = Len(history)
  BY <1>0 DEF Holds
<1>12. Holds(G, Q, c)'
  BY <1>0, <1>1, <1>8, <1>9, <1>10, <1>11 DEF Holds
<1>13. \A i \in 1..(n + 1) : Whole(G, Q, i)'
  <2> SUFFICES ASSUME NEW i \in 1..(n + 1) PROVE Q[i][Len(G[i])] = Len(Pipe(i)')
    BY DEF Whole
  <2>1. CASE i = n + 1
    BY <1>1, <1>3, <1>6, <1>7, <2>1, EncodingProperties
  <2>2. CASE i # n + 1
    <3>1. i \in 1..n
      BY <1>0, <2>2
    <3>2. pos[i][Len(lists[i])] = Len(Pipe(i))
      BY <1>0, <3>1 DEF Intact, Whole
    <3> QED
      BY <1>1, <1>7, <3>1, <3>2
  <2> QED
    BY <2>1, <2>2
<1>14. ASSUME NEW kind \in CrashKinds
       PROVE  /\ \A i \in 1..n : Safe(kind, i)' >= Len(files'[i])
              /\ \E s \in 0..Len(G[n + 1]) : /\ stable' <= c[n] + s
                                             /\ Q[n + 1][s] <= Safe(kind, n + 1)'
  <2>1. ASSUME NEW i \in 1..n
        PROVE  Safe(kind, i)' >= Len(files'[i])
    <3>0. Len(files'[i]) \in Nat
      BY <1>1, LogSizes DEF LogInv, WalTypeOK
    <3>1. CASE kind # "power"
      BY <3>0, <3>1 DEF Safe
    <3>2. CASE kind = "power" /\ i # n
      <4>1. synced[i] >= Len(files[i])
        <5>1. i \in 1..(n - 1)
          BY <1>0, <3>2
        <5>2. Safe(kind, i) >= Len(files[i])
          BY <1>0, <5>1 DEF Intact
        <5> QED
          BY <3>2, <5>2 DEF Safe
      <4>2. files'[i] = files[i]
        BY <1>0, <1>1, <3>2 DEF Pipe
      <4> QED
        BY <1>2, <3>2, <4>1, <4>2 DEF Safe
    <3>3. CASE kind = "power" /\ i = n
      <4>1. Settled
        BY <1>14, <3>3
      <4>2. << >> \o << >> = << >> /\ files[n] \o << >> = files[n]
        BY <1>0, LogSizes, ConcatEmptySeq
      <4>3. files'[n] = files[n]
        BY <1>0, <1>1, <4>1, <4>2 DEF Pipe, InFlightBytes, Settled
      <4> QED
        BY <1>0, <1>2, <3>0, <3>3, <4>1, <4>3 DEF Safe, Settled
    <3> QED
      BY <3>1, <3>2, <3>3
  <2>2. Safe(kind, n + 1)' = 0
    BY <1>1, <1>2 DEF Safe
  <2>3. 0 \in 0..Len(G[n + 1]) /\ stable' <= c[n] + 0 /\ Q[n + 1][0] = 0
    BY <1>0, <1>3, <1>6, <1>7, <1>9, <1>10, <1>11
  <2> QED
    BY <2>1, <2>2, <2>3
<1>15. Intact(G, Q, c)'
  <2>1. (n + 1) - 1 = n
    BY <1>0
  <2> QED
    BY <1>1, <1>13, <1>14, <2>1 DEF Intact
<1>16. (c[Len(files)] = Len(history))'
  BY <1>1, <1>9
<1> QED
  BY <1>12, <1>15, <1>16

\* A Sync that succeeds makes the whole history stable.
LEMMA SyncKeeps ==
  ASSUME LogInv, LogInv', EngineTypeOK, SyncSucceeds,
         history' = history, stable' = Len(history),
         NEW lists, NEW pos, NEW b, Holds(lists, pos, b), Intact(lists, pos, b),
         b[Len(files)] = Len(history)
  PROVE  (Holds(lists, pos, b) /\ Intact(lists, pos, b) /\ b[Len(files)] = Len(history))'
<1>0. PICK n \in Nat \ {0} :
      /\ WalTypeOK /\ n = Len(files) /\ Current = n /\ DOMAIN files = 1..n
      /\ DOMAIN synced = 1..n /\ history \in Seq(Record) /\ Len(history) \in Nat
  BY LogSizes, LenProperties DEF LogInv, EngineTypeOK, Current
<1> DEFINE t == stream \o buffer
<1>1. /\ files' = [files EXCEPT ![Current] = @ \o t]
      /\ synced' = [synced EXCEPT ![Current] = Len(files'[Current])]
      /\ stream' = << >> /\ buffer' = << >> /\ streamGood' = streamGood
  BY DEF SyncSucceeds
<1>2. t \in Seq(Cell)
  BY <1>0, ConcatProperties DEF WalTypeOK
<1> HIDE DEF t
<1>3. /\ Len(files') = n /\ \A i \in 1..n : i # n => files'[i] = files[i]
      /\ files' \in Seq(Seq(Cell))
  BY <1>0, <1>1, <1>2, ExtendedFiles
<1>4. \A i \in 1..n : Pipe(i)' = Pipe(i) /\ Pipe(i)' = files'[i]
  <2>1. \A i \in DOMAIN files : Pipe(i)' = files'[i]
    BY <1>0, <1>1, <1>3, EmptyAboveFile DEF WalTypeOK
  <2> QED
    BY <1>0, <2>1, SyncPipes DEF SamePipes
<1>5. /\ synced'[n] = Len(files'[n]) /\ \A i \in 1..n : i # n => synced'[i] = synced[i]
  BY <1>0, <1>1
<1>6. LogParsed(lists, pos)'
  BY <1>0, SyncPipes, SameParsed DEF Holds
<1>7. Holds(lists, pos, b)'
  BY <1>0, <1>3, <1>6 DEF Holds
<1>8. \A i \in 1..n : Whole(lists, pos, i)'
  BY <1>0, <1>4 DEF Intact, Whole
<1>9. ASSUME NEW kind \in CrashKinds
      PROVE  /\ \A i \in 1..(n - 1) : Safe(kind, i)' >= Len(files'[i])
             /\ \E s \in 0..Len(lists[n]) : /\ stable' <= b[n - 1] + s
                                            /\ pos[n][s] <= Safe(kind, n)'
  <2>1. ASSUME NEW i \in 1..(n - 1)
        PROVE  Safe(kind, i)' >= Len(files'[i])
    <3>1. i \in 1..n /\ i # n
      BY <1>0
    <3>2. Safe(kind, i)' = Safe(kind, i)
      BY <1>3, <1>5, <3>1 DEF Safe
    <3> QED
      BY <1>0, <1>3, <3>1, <3>2 DEF Intact
  <2>2. n \in 1..n
    BY <1>0
  <2>3. RecordLists(lists, n) /\ Split(lists, b, history, n)
    BY <1>0 DEF RecordLists, Holds, LogParsed
  <2>4. Len(lists[n]) \in Nat /\ b[n - 1] \in Nat /\ b[n] = b[n - 1] + Len(lists[n])
    BY <1>0, <2>2, <2>3, SplitGrows
  <2>5. Safe(kind, n)' = Len(files'[n]) /\ Len(files'[n]) \in Nat
    BY <1>3, <1>5, <2>2, LogSizes DEF Safe, LogInv, WalTypeOK
  <2>6. pos[n][Len(lists[n])] = Len(files'[n])
    BY <1>0, <1>4, <2>2 DEF Intact, Whole
  <2>7. Len(lists[n]) \in 0..Len(lists[n]) /\ stable' <= b[n - 1] + Len(lists[n])
    BY <1>0, <2>4
  <2> QED
    BY <2>1, <2>5, <2>6, <2>7
<1>10. Intact(lists, pos, b)'
  BY <1>3, <1>8, <1>9 DEF Intact
<1> QED
  BY <1>0, <1>3, <1>7, <1>10

\* Neither does a step that only moves bytes out of write_buffer, or none.
LEMMA QuietKeeps ==
  ASSUME LogInv, SamePipes, UNCHANGED <<files, synced, history, stable>>,
         NEW lists, NEW pos, NEW b, Holds(lists, pos, b)
  PROVE  Holds(lists, pos, b)' /\ (Intact(lists, pos, b) => Intact(lists, pos, b)')
<1>1. WalTypeOK /\ DOMAIN files = 1..Len(files)
  BY LogSizes DEF LogInv
<1>2. LogParsed(lists, pos)'
  BY <1>1, SameParsed DEF Holds
<1>3. Holds(lists, pos, b)'
  BY <1>2 DEF Holds
<1>4. ASSUME Intact(lists, pos, b)
      PROVE  Intact(lists, pos, b)'
  <2>1. \A i \in 1..Len(files) : Whole(lists, pos, i)'
    BY <1>1, <1>4 DEF SamePipes, Intact, Whole
  <2>2. \A kind, i : Safe(kind, i)' = Safe(kind, i)
    BY DEF Safe
  <2> QED
    BY <1>4, <2>1, <2>2 DEF Intact
<1> QED
  BY <1>3, <1>4

-----------------------------------------------------------------------------
(* Stopping.                                                               *)

\* After a step that leaves nothing in flight and nothing a crash could take,
\* what the files hold is intact.
LEMMA SafeIsIntact ==
  ASSUME WalTypeOK', NEW lists, NEW pos, NEW b, Holds(lists, pos, b)', history' \in Seq(Record),
         \A i \in 1..Len(files') : Pipe(i)' = files'[i] /\ Whole(lists, pos, i)',
         \A kind \in CrashKinds : \A i \in 1..Len(files') : Safe(kind, i)' >= Len(files'[i])
  PROVE  Intact(lists, pos, b)'
<1>0. PICK n \in Nat \ {0} : n = Len(files') /\ n \in 1..n
  <2>1. files' \in Seq(Seq(Cell)) /\ files' # << >>
    BY DEF WalTypeOK
  <2> QED
    BY <2>1, EmptySeq, LenProperties
<1>1. RecordLists(lists, n) /\ Split(lists, b, history', n) /\ stable' <= b[n]
  BY <1>0 DEF RecordLists, Holds, LogParsed
<1>2. Len(lists[n]) \in Nat /\ b[n] = b[n - 1] + Len(lists[n])
  BY <1>0, <1>1, SplitGrows
<1>3. ASSUME NEW kind \in CrashKinds
      PROVE  \E s \in 0..Len(lists[n]) : /\ stable' <= b[n - 1] + s
                                         /\ pos[n][s] <= Safe(kind, n)'
  <2>1. pos[n][Len(lists[n])] = Len(files'[n])
    BY <1>0 DEF Whole
  <2>2. Safe(kind, n)' >= Len(files'[n])
    BY <1>0
  <2>3. Len(lists[n]) \in 0..Len(lists[n])
    BY <1>2
  <2> QED
    BY <1>1, <1>2, <2>1, <2>2, <2>3
<1>4. \A kind \in CrashKinds : \A i \in 1..(n - 1) : Safe(kind, i)' >= Len(files'[i])
  BY <1>0
<1>5. \A i \in 1..n : Whole(lists, pos, i)'
  BY <1>0
<1> QED
  BY <1>0, <1>3, <1>4, <1>5 DEF Intact

\* What the next Recover starts from.
LEMMA StartReadable ==
  ASSUME NEW n \in Nat \ {0}, Len(files') = n, NEW lists, NEW pos, NEW b,
         readFile' = 1, readPos' = 0, replayed' = << >>, history' \in Seq(Record),
         Holds(lists, pos, b)',
         \A i \in 1..n : CleanEnd(Pipe(i)', pos[i][Len(lists[i])])
  PROVE  Readable(lists, pos, b)'
<1>1. 1 \in 1..n /\ 1 - 1 = 0 /\ Len(<< >>) = 0
  OBVIOUS
<1>2. lists[1] \in Seq(Record) /\ Parsed(Pipe(1)', lists[1], pos[1]) /\ b[0] = 0
  BY <1>1 DEF Holds, LogParsed, Split
<1>3. Len(lists[1]) \in Nat /\ pos[1][0] = 0
  BY <1>2, LenProperties DEF Parsed, Laid
<1>4. 0 \in 0..Len(lists[1]) /\ readPos' = pos[1][0] /\ Len(replayed') = b[0] + 0
  BY <1>1, <1>2, <1>3
<1>5. \A j \in 1..Len(replayed') : replayed'[j] = history'[j]
  BY <1>1
<1> QED
  BY <1>1, <1>4, <1>5 DEF Readable

\* The destructor writes everything out.
LEMMA ShutdownKeeps ==
  ASSUME RecoverySound, LogInv, LogInv', EngineTypeOK, SettledInv, SettledInv', KeepsInv, Shutdown
  PROVE  KeepsInv'
<1>0. PICK n \in Nat \ {0} :
      /\ WalTypeOK /\ WalTypeOK' /\ n = Len(files) /\ Current = n /\ DOMAIN files = 1..n
      /\ streamGood = TRUE /\ CloseAndReopen /\ history \in Seq(Record)
  BY LogSizes DEF LogInv, EngineTypeOK, Current, SettledInv, Shutdown
<1>1. /\ Again /\ pc # "recover" /\ pc' = "recover" /\ history' = history /\ stable' = stable
      /\ readFile' = 1 /\ readPos' = 0 /\ replayed' = << >> /\ restarts' = restarts + 1
  BY DEF Shutdown, StartRecovery, Again
<1>2. PICK lists, pos, b : Holds(lists, pos, b) /\ Intact(lists, pos, b)
  BY <1>1 DEF KeepsInv
<1>3. /\ Len(files') = n /\ \A i \in 1..n : Pipe(i)' = Pipe(i) /\ Pipe(i)' = files'[i]
      /\ SamePipes /\ synced' = synced
  BY <1>0, ClosePipes DEF SamePipes, RecoverySound
<1>4. LogParsed(lists, pos)'
  BY <1>0, <1>2, <1>3, SameParsed DEF Holds
<1>5. Holds(lists, pos, b)'
  BY <1>0, <1>1, <1>2, <1>3, <1>4 DEF Holds
<1>6. \A i \in 1..n : Whole(lists, pos, i)' /\ pos[i][Len(lists[i])] = Len(Pipe(i)')
  BY <1>0, <1>2, <1>3 DEF Intact, Whole
<1>7. Readable(lists, pos, b)'
  <2>1. \A i \in 1..n : Len(Pipe(i)') \in Nat
    BY <1>0, <1>3, NextPipeTypes
  <2>2. \A i \in 1..n : CleanEnd(Pipe(i)', pos[i][Len(lists[i])])
    BY <1>6, <2>1 DEF CleanEnd
  <2> QED
    BY <1>0, <1>1, <1>3, <1>5, <2>2, StartReadable
<1>8. ASSUME Again'
      PROVE  Intact(lists, pos, b)'
  <2>1. ASSUME NEW kind \in CrashKinds, NEW i \in 1..n
        PROVE  Safe(kind, i)' >= Len(files'[i])
    <3>0. Len(files'[i]) \in Nat
      BY <1>0, <1>3, NextPipeTypes
    <3>1. CASE kind # "power"
      BY <3>0, <3>1 DEF Safe
    <3>2. CASE kind = "power" /\ i # n
      <4>1. i \in 1..(n - 1)
        BY <1>0, <3>2
      <4>2. Safe(kind, i) >= Len(files[i])
        BY <1>0, <1>2, <4>1 DEF Intact
      <4>3. files'[i] = files[i]
        BY <1>0, <1>3, <3>2 DEF Pipe
      <4> QED
        BY <1>3, <3>2, <4>2, <4>3 DEF Safe
    <3>3. CASE kind = "power" /\ i = n
      <4>1. Settled'
        BY <1>1, <1>8, <3>3, <2>1 DEF SettledInv
      <4> QED
        BY <1>3, <3>0, <3>3, <4>1 DEF Safe, Settled, Current
    <3> QED
      BY <3>1, <3>2, <3>3
  <2> QED
    BY <1>0, <1>1, <1>3, <1>5, <1>6, <2>1, SafeIsIntact
<1> QED
  BY <1>1, <1>5, <1>7, <1>8 DEF KeepsInv

\* A file cut at the end of a record has no torn one.
LEMMA BoundaryIsClean ==
  ASSUME NEW d \in Seq(Cell), NEW g \in Seq(Record), NEW q, Parsed(d, g, q),
         CleanEnd(d, q[Len(g)]), AtRecordBoundary(d, Len(d))
  PROVE  q[Len(g)] = Len(d)
<1> DEFINE p == q[Len(g)]
<1>1. Len(d) \in Nat /\ p \in Nat /\ p <= Len(d)
  BY LenProperties, PositionsGrow DEF Parsed
<1> SUFFICES ASSUME p < Len(d) PROVE FALSE
  BY <1>1
<1>2. PICK r, c : TornAt(d, p, r, c) /\ p + c = Len(d)
  BY DEF CleanEnd
<1>3. r \in Record /\ c \in 1..(RecordSize(r) - 1) /\ RecordSize(r) \in Nat /\ Starts(d, p, r, c)
  BY <1>2, EncodingProperties DEF TornAt
<1>4. c \in 1..c /\ c < RecordSize(r)
  BY <1>3
<1>5. d[Len(d)] = [rec |-> r, off |-> c]
  BY <1>2, <1>3, <1>4 DEF Starts
<1>6. d[Len(d)].off = RecordSize(d[Len(d)].rec)
  BY <1>1 DEF AtRecordBoundary
<1>7. d[Len(d)].off = c /\ d[Len(d)].rec = r
  BY <1>5
<1>8. c = RecordSize(r)
  BY <1>6, <1>7
<1> QED
  BY <1>3, <1>4, <1>8

\* A crash takes records off the end of the current file only, and none that
\* is stable.
LEMMA CrashKeeps ==
  ASSUME RecoverySound, LogInv, LogInv', EngineTypeOK, SettledInv, KeepsInv,
         NEW kind \in CrashKinds, CrashAndReopen(kind), StartRecovery
  PROVE  KeepsInv'
<1>0. PICK n \in Nat \ {0} :
      /\ WalTypeOK /\ WalTypeOK' /\ n = Len(files) /\ Current = n /\ DOMAIN files = 1..n
      /\ SyncedWithinFile /\ n \in 1..n /\ history \in Seq(Record) /\ stable \in Nat
  BY LogSizes DEF LogInv, EngineTypeOK, Current
<1>1. /\ Again /\ pc' = "recover" /\ history' = history /\ stable' = stable
      /\ readFile' = 1 /\ readPos' = 0 /\ replayed' = << >> /\ restarts' = restarts + 1
  BY DEF StartRecovery, Again
<1>2. PICK lists, pos, b : Holds(lists, pos, b) /\ Intact(lists, pos, b)
  BY <1>1 DEF KeepsInv
<1>3. kind \in {"process", "power"}
  BY FlagsAssumption
<1>4. /\ Len(files') = n
      /\ \A i \in 1..n : /\ Pipe(i)' = files'[i] /\ Cut(Pipe(i)', Pipe(i))
                         /\ Len(files'[i]) >= Safe(kind, i)
                         /\ ~TornWrites => AtRecordBoundary(files'[i], Len(files'[i]))
      /\ kind = "power" => \A i \in 1..n : synced'[i] = Len(files'[i])
  BY <1>0, <1>3, CrashPipes DEF PipesCut, RecoverySound
<1>5. \A i \in 1..n : Pipe(i)' \in Seq(Cell) /\ Len(Pipe(i)') \in Nat
  BY <1>0, <1>4, NextPipeTypes
<1> DEFINE sizes == [i \in 1..Len(files) |-> Len(Pipe(i)')]
<1>6. \A i \in 1..Len(files) : /\ Pipe(i)' \in Seq(Cell) /\ Cut(Pipe(i)', Pipe(i))
                              /\ sizes[i] = Len(Pipe(i)')
  BY <1>0, <1>4, <1>5
<1> HIDE DEF sizes
<1>7. PICK g, q : /\ Shortened(g, q, lists, pos, Len(files), sizes)
                  /\ \A i \in 1..Len(files) :
                       /\ g[i] \in Seq(Record) /\ Parsed(Pipe(i)', g[i], q[i])
                       /\ Whole(lists, pos, i) => CleanEnd(Pipe(i)', q[i][Len(g[i])])
  <2>1. LogParsed(lists, pos) /\ Len(files) \in 0..Len(files)
    BY <1>0, <1>2 DEF Holds
  <2>2. \E g, q : /\ Shortened(g, q, lists, pos, Len(files), sizes)
                  /\ \A i \in 1..Len(files) :
                       /\ g[i] \in Seq(Record) /\ Parsed(Pipe(i)', g[i], q[i])
                       /\ Whole(lists, pos, i) => CleanEnd(Pipe(i)', q[i][Len(g[i])])
    BY <1>0, <1>6, <2>1, CutParsed, Zenon
  <2> QED
    BY <2>2, Zenon
<1>8. \A i \in 1..n : /\ Parsed(Pipe(i)', g[i], q[i]) /\ CleanEnd(Pipe(i)', q[i][Len(g[i])])
                      /\ Cut(g[i], lists[i]) /\ g[i] \in Seq(Record)
                      /\ Len(g[i]) < Len(lists[i]) => Len(files'[i]) < pos[i][Len(g[i]) + 1]
  BY <1>0, <1>2, <1>4, <1>6, <1>7 DEF Shortened, Intact
<1>9. RecordLists(lists, n) /\ RecordLists(g, n) /\ Split(lists, b, history, n) /\ stable <= b[n]
  BY <1>0, <1>2, <1>8 DEF RecordLists, Holds, LogParsed
<1>10. \A i \in 1..n : /\ Len(lists[i]) \in Nat /\ Len(g[i]) \in Nat /\ Len(g[i]) <= Len(lists[i])
                       /\ \A j, k \in 0..Len(lists[i]) : /\ pos[i][j] \in Nat
                                                         /\ j <= k => pos[i][j] <= pos[i][k]
  <2> SUFFICES ASSUME NEW i \in 1..n
               PROVE  /\ Len(lists[i]) \in Nat /\ Len(g[i]) \in Nat /\ Len(g[i]) <= Len(lists[i])
                      /\ \A j, k \in 0..Len(lists[i]) : /\ pos[i][j] \in Nat
                                                        /\ j <= k => pos[i][j] <= pos[i][k]
    OBVIOUS
  <2>1. lists[i] \in Seq(Record) /\ Parsed(Pipe(i), lists[i], pos[i]) /\ Len(Pipe(i)) \in Nat
    BY <1>0, <1>2, PipeTypes DEF Holds, LogParsed
  <2>2. Laid(Pipe(i), lists[i], pos[i])
    BY <2>1 DEF Parsed
  <2>3. \A j, k \in 0..Len(lists[i]) : pos[i][j] \in Nat /\ (j <= k => pos[i][j] <= pos[i][k])
    BY <2>1, <2>2, PositionsGrow
  <2> QED
    BY <1>8, <1>9, <2>3, LenProperties DEF RecordLists, Cut
<1>11. ASSUME NEW i \in 1..n, NEW s \in 0..Len(lists[i]), pos[i][s] <= Len(files'[i])
       PROVE  s <= Len(g[i])
  <2> SUFFICES ASSUME Len(g[i]) < s PROVE FALSE
    BY <1>10
  <2>1. /\ Len(g[i]) + 1 \in 0..Len(lists[i]) /\ Len(g[i]) + 1 <= s /\ Len(g[i]) < Len(lists[i])
    BY <1>10
  <2>2. pos[i][Len(g[i]) + 1] <= pos[i][s] /\ pos[i][s] \in Nat /\ pos[i][Len(g[i]) + 1] \in Nat
    BY <1>10, <2>1
  <2>3. Len(files'[i]) < pos[i][Len(g[i]) + 1] /\ Len(files'[i]) \in Nat
    BY <1>4, <1>5, <1>8, <2>1
  <2> QED
    BY <1>11, <2>2, <2>3
<1>12. \A i \in 1..(n - 1) : Len(g[i]) = Len(lists[i])
  <2> SUFFICES ASSUME NEW i \in 1..(n - 1) PROVE Len(g[i]) = Len(lists[i])
    OBVIOUS
  <2>1. i \in 1..n /\ i # n
    BY <1>0
  <2>2. Pipe(i) = files[i]
    BY <1>0, <2>1 DEF Pipe
  <2>3. pos[i][Len(lists[i])] = Len(files[i])
    BY <1>0, <1>2, <2>1, <2>2 DEF Intact, Whole
  <2>4. Safe(kind, i) >= Len(files[i]) /\ Safe(kind, i) \in Nat /\ Len(files[i]) \in Nat
    BY <1>0, <1>2, <2>1, LogSizes DEF Intact, Safe
  <2>5. Len(files'[i]) >= Safe(kind, i) /\ Len(files'[i]) \in Nat
    BY <1>4, <1>5, <2>1
  <2>6. pos[i][Len(lists[i])] <= Len(files'[i])
    BY <2>3, <2>4, <2>5
  <2>7. Len(lists[i]) \in 0..Len(lists[i])
    BY <1>10, <2>1
  <2> QED
    BY <1>10, <1>11, <2>1, <2>6, <2>7
<1>13. PICK c : /\ Split(g, c, history, n) /\ c[n] = b[n - 1] + Len(g[n])
                /\ \A i \in 0..(n - 1) : c[i] = b[i]
  BY <1>0, <1>8, <1>9, <1>12, SplitCut
<1>14. stable <= c[n]
  <2>1. PICK s \in 0..Len(lists[n]) : stable <= b[n - 1] + s /\ pos[n][s] <= Safe(kind, n)
    BY <1>0, <1>2 DEF Intact
  <2>2. Safe(kind, n) <= Len(files'[n]) /\ Safe(kind, n) \in Nat /\ Len(files'[n]) \in Nat
    BY <1>0, <1>4, <1>5, LogSizes DEF Safe
  <2>3. pos[n][s] <= Len(files'[n])
    BY <1>0, <1>10, <2>1, <2>2
  <2>4. s <= Len(g[n]) /\ s \in Nat /\ Len(g[n]) \in Nat
    BY <1>0, <1>10, <1>11, <2>3
  <2>5. b[n - 1] \in Nat
    BY <1>0, <1>9, SplitGrows
  <2> QED
    BY <1>0, <1>13, <2>1, <2>4, <2>5
<1>15. Holds(g, q, c)'
  <2>1. LogParsed(g, q)'
    BY <1>4, <1>8 DEF LogParsed
  <2> QED
    BY <1>1, <1>4, <1>13, <1>14, <2>1 DEF Holds
<1>16. Readable(g, q, c)'
  BY <1>0, <1>1, <1>4, <1>8, <1>15, StartReadable
<1>17. ASSUME Again'
       PROVE  Intact(g, q, c)'
  <2>1. ~(MaxRestarts <= 1)
    BY <1>1, <1>17, EngineAssumption DEF Again, EngineTypeOK
  <2>2. ~TornWrites /\ CrashKinds # {"process", "power"}
    BY <2>1 DEF RecoverySound
  <2>3. \A i \in 1..n : q[i][Len(g[i])] = Len(Pipe(i)')
    BY <1>4, <1>5, <1>8, <2>2, BoundaryIsClean
  <2>4. \A i \in 1..n : Whole(g, q, i)'
    BY <2>3 DEF Whole
  <2>5. ASSUME NEW other \in CrashKinds, NEW i \in 1..n
        PROVE  Safe(other, i)' >= Len(files'[i])
    <3>1. other = kind
      BY <1>3, <2>2, FlagsAssumption
    <3>2. Len(files'[i]) \in Nat
      BY <1>4, <1>5
    <3> QED
      BY <1>3, <1>4, <3>1, <3>2 DEF Safe
  <2> QED
    BY <1>0, <1>1, <1>4, <1>15, <2>4, <2>5, SafeIsIntact
<1> QED
  BY <1>1, <1>15, <1>16, <1>17 DEF KeepsInv

-----------------------------------------------------------------------------
(* Recovering.                                                             *)

\* Recover reads the record it has come to; when it finds none there is no
\* more in the file, and what is left there is at most a cut-off record.
LEMMA ReadableReads ==
  ASSUME LogInv, EngineTypeOK, stream = << >>, buffer = << >>,
         NEW lists, NEW pos, NEW b, Holds(lists, pos, b), Readable(lists, pos, b)
  PROVE  /\ RecordIntact =>
              \E k \in 0..(Len(lists[readFile]) - 1) :
                /\ Found = lists[readFile][k + 1]
                /\ readPos + RecordSize(Found) = pos[readFile][k + 1]
                /\ Len(replayed) = b[readFile - 1] + k
         /\ ~RecordIntact => ShortHeader \/ ShortBody
         /\ LeaveFile => Len(replayed) = b[readFile]
<1> DEFINE h == lists[readFile]
<1>1. /\ readFile \in 1..Len(files) /\ DOMAIN files = 1..Len(files)
      /\ \A i \in 1..Len(files) : Pipe(i) = files[i]
  BY LogSizes, NothingInFlight DEF LogInv, EngineTypeOK
<1>2. /\ h \in Seq(Record) /\ Len(h) \in Nat /\ Parsed(files[readFile], h, pos[readFile])
      /\ CleanEnd(files[readFile], pos[readFile][Len(h)])
      /\ b[readFile] = b[readFile - 1] + Len(h)
  BY <1>1, LenProperties DEF Holds, LogParsed, Readable, Split
<1>3. PICK k \in 0..Len(h) : readPos = pos[readFile][k] /\ Len(replayed) = b[readFile - 1] + k
  BY DEF Readable
<1> HIDE DEF h
<1>4. CASE k < Len(h)
  <2>1. /\ RecordIntact /\ ~LeaveFile /\ Found = h[k + 1]
        /\ readPos + RecordSize(Found) = pos[readFile][k + 1]
    BY <1>1, <1>2, <1>3, <1>4, ReadsNext
  <2>2. k \in 0..(Len(h) - 1)
    BY <1>2, <1>4
  <2> QED
    BY <1>3, <2>1, <2>2 DEF h
<1>5. CASE k = Len(h)
  <2>1. /\ ~RecordIntact
        /\ CleanEnd(files[readFile], readPos) => ShortHeader \/ ShortBody
    BY <1>1, <1>2, <1>3, <1>5, ReadsNoMore
  <2> QED
    BY <1>2, <1>3, <1>5, <2>1
<1> QED
  BY <1>2, <1>4, <1>5

\* So it never reports Corruption (wal.cpp 276-332).
LEMMA NothingCorrupt ==
  ASSUME LogInv, EngineTypeOK, SettledInv, KeepsInv
  PROVE  ~RecoverCorrupt
<1> SUFFICES ASSUME RecoverCorrupt PROVE FALSE
  OBVIOUS
<1>1. /\ pc = "recover" /\ stream = << >> /\ buffer = << >>
      /\ HeaderGarbled \/ (HeaderIntact /\ ~ShortBody /\ ~RecordIntact)
  BY DEF RecoverCorrupt, Reading, SettledInv
<1>2. PICK lists, pos, b : Holds(lists, pos, b) /\ Readable(lists, pos, b)
  BY <1>1 DEF KeepsInv
<1>3. ~RecordIntact => ShortHeader \/ ShortBody
  BY <1>1, <1>2, ReadableReads
<1> QED
  BY <1>1, <1>3 DEF HeaderGarbled, HeaderIntact, ShortBody, RecordIntact

\* One record more.
LEMMA RecoverRecordKeeps ==
  ASSUME LogInv, EngineTypeOK, SettledInv, KeepsInv, RecoverRecord
  PROVE  KeepsInv'
<1>1. /\ UNCHANGED walVars /\ pc = "recover" /\ RecordIntact
      /\ stream = << >> /\ buffer = << >>
      /\ UNCHANGED <<pc, readFile, history, stable, restarts>>
      /\ readPos' = readPos + RecordSize(Found) /\ replayed' = Append(replayed, Found)
  BY DEF RecoverRecord, Reading, SettledInv
<1>2. PICK lists, pos, b : /\ Holds(lists, pos, b) /\ Readable(lists, pos, b)
                           /\ Again => Intact(lists, pos, b)
  BY <1>1 DEF KeepsInv
<1>3. SamePipes /\ UNCHANGED <<files, synced>>
  BY <1>1 DEF SamePipes, Pipe, InFlightBytes, Carries, Current, walVars
<1>4. Holds(lists, pos, b)' /\ (Again' => Intact(lists, pos, b)')
  BY <1>1, <1>2, <1>3, QuietKeeps DEF Again
<1>5. PICK k \in 0..(Len(lists[readFile]) - 1) :
        /\ Found = lists[readFile][k + 1]
        /\ readPos + RecordSize(Found) = pos[readFile][k + 1]
        /\ Len(replayed) = b[readFile - 1] + k
  BY <1>1, <1>2, ReadableReads
<1>6. /\ Found \in Record /\ replayed \in Seq(Record) /\ Len(replayed) \in Nat
      /\ readFile \in 1..Len(files) /\ lists[readFile] \in Seq(Record)
      /\ Len(lists[readFile]) \in Nat /\ DOMAIN files = 1..Len(files)
  BY <1>1, <1>2, FoundIsRecord, LogSizes, LenProperties
     DEF EngineTypeOK, Holds, LogParsed, LogInv
<1>7. /\ Len(replayed') = Len(replayed) + 1 /\ replayed'[Len(replayed) + 1] = Found
      /\ \A j \in 1..Len(replayed) : replayed'[j] = replayed[j]
  <2> HIDE DEF Found
  <2> QED
    BY <1>1, <1>6, AppendProperties
<1>8. b[readFile - 1] \in Nat
  <2>1. b \in [0..Len(files) -> Nat] /\ readFile - 1 \in 0..Len(files)
    BY <1>2, <1>6 DEF Holds, Split
  <2> QED
    BY <2>1
<1>9. k + 1 \in 1..Len(lists[readFile]) /\ k + 1 \in 0..Len(lists[readFile]) /\ k \in Nat
  BY <1>6
<1>10. Found = history[Len(replayed) + 1]
  <2>1. lists[readFile][k + 1] = history[b[readFile - 1] + (k + 1)]
    BY <1>2, <1>6, <1>9 DEF Holds, Split
  <2>2. b[readFile - 1] + (k + 1) = Len(replayed) + 1
    BY <1>5, <1>8, <1>9
  <2> QED
    BY <1>5, <2>1, <2>2
<1>11. Len(replayed') = b[readFile - 1] + (k + 1)
  BY <1>5, <1>7, <1>8, <1>9
<1>12. \A j \in 1..Len(replayed') : replayed'[j] = history'[j]
  <2> SUFFICES ASSUME NEW j \in 1..Len(replayed') PROVE replayed'[j] = history[j]
    BY <1>1
  <2>1. j \in 1..Len(replayed) \/ j = Len(replayed) + 1
    BY <1>6, <1>7
  <2> HIDE DEF Found
  <2> QED
    BY <1>2, <1>7, <1>10, <2>1 DEF Readable
<1>13. Readable(lists, pos, b)'
  <2>1. readPos' = pos[readFile][k + 1]
    BY <1>1, <1>5
  <2>2. \A i \in 1..Len(files) : CleanEnd(Pipe(i)', pos[i][Len(lists[i])])
    BY <1>2, <1>3, <1>6 DEF Readable, SamePipes
  <2> QED
    BY <1>1, <1>3, <1>9, <1>11, <1>12, <2>1, <2>2 DEF Readable
<1> QED
  BY <1>1, <1>4, <1>13 DEF KeepsInv

\* The next file.
LEMMA NextFileKeeps ==
  ASSUME LogInv, EngineTypeOK, SettledInv, KeepsInv, RecoverNextFile
  PROVE  KeepsInv'
<1>1. /\ UNCHANGED walVars /\ pc = "recover" /\ LeaveFile /\ readFile < Len(files)
      /\ stream = << >> /\ buffer = << >>
      /\ UNCHANGED <<pc, history, stable, restarts, replayed>>
      /\ readPos' = 0 /\ readFile' = readFile + 1
  BY DEF RecoverNextFile, Reading, SettledInv
<1>2. PICK lists, pos, b : /\ Holds(lists, pos, b) /\ Readable(lists, pos, b)
                           /\ Again => Intact(lists, pos, b)
  BY <1>1 DEF KeepsInv
<1>3. SamePipes /\ UNCHANGED <<files, synced>>
  BY <1>1 DEF SamePipes, Pipe, InFlightBytes, Carries, Current, walVars
<1>4. Holds(lists, pos, b)' /\ (Again' => Intact(lists, pos, b)')
  BY <1>1, <1>2, <1>3, QuietKeeps DEF Again
<1>5. Len(replayed) = b[readFile]
  BY <1>1, <1>2, ReadableReads
<1>6. /\ readFile \in 1..Len(files) /\ readFile + 1 \in 1..Len(files) /\ Len(files) \in Nat
      /\ DOMAIN files = 1..Len(files) /\ (readFile + 1) - 1 = readFile
  BY <1>1, LogSizes DEF EngineTypeOK, LogInv, Current
<1>7. /\ lists[readFile + 1] \in Seq(Record) /\ Len(lists[readFile + 1]) \in Nat
      /\ pos[readFile + 1][0] = 0 /\ b[readFile] \in Nat
  <2>1. lists[readFile + 1] \in Seq(Record) /\ Parsed(Pipe(readFile + 1), lists[readFile + 1], pos[readFile + 1])
    BY <1>2, <1>6 DEF Holds, LogParsed
  <2>2. b \in [0..Len(files) -> Nat] /\ readFile \in 0..Len(files)
    BY <1>2, <1>6 DEF Holds, Split
  <2> QED
    BY <2>1, <2>2, LenProperties DEF Parsed, Laid
<1>8. Readable(lists, pos, b)'
  <2>1. 0 \in 0..Len(lists[readFile']) /\ readPos' = pos[readFile'][0]
    BY <1>1, <1>7
  <2>2. Len(replayed') = b[readFile' - 1] + 0
    BY <1>1, <1>5, <1>6, <1>7
  <2>3. \A i \in 1..Len(files) : CleanEnd(Pipe(i)', pos[i][Len(lists[i])])
    BY <1>2, <1>3, <1>6 DEF Readable, SamePipes
  <2>4. \A j \in 1..Len(replayed') : replayed'[j] = history'[j]
    BY <1>1, <1>2 DEF Readable
  <2> QED
    BY <1>3, <2>1, <2>2, <2>3, <2>4 DEF Readable
<1> QED
  BY <1>1, <1>4, <1>8 DEF KeepsInv

\* Recover ends with the mutations of all the records it could read, which
\* are the history from then on.
LEMMA RecoverDoneKeeps ==
  ASSUME LogInv, EngineTypeOK, SettledInv, KeepsInv, RecoverDone
  PROVE  /\ KeepsInv'
         /\ Len(replayed) \in stable..Len(history)
         /\ \A j \in 1..Len(replayed) : replayed[j] = history[j]
<1>0. PICK n \in Nat \ {0} :
      /\ n = Len(files) /\ n \in 1..n /\ DOMAIN files = 1..n /\ readFile = n
      /\ replayed \in Seq(Record) /\ history \in Seq(Record) /\ stable \in Nat
      /\ Len(replayed) \in Nat
  BY LogSizes, LenProperties DEF LogInv, EngineTypeOK, Current, RecoverDone
<1>1. /\ UNCHANGED walVars /\ pc = "recover" /\ pc' = "idle" /\ LeaveFile
      /\ stream = << >> /\ buffer = << >> /\ UNCHANGED <<files, synced>>
      /\ UNCHANGED <<stable, restarts>> /\ history' = replayed
  BY DEF RecoverDone, ServeRecovered, Reading, SettledInv, walVars
<1>2. PICK lists, pos, b : /\ Holds(lists, pos, b) /\ Readable(lists, pos, b)
                           /\ Again => Intact(lists, pos, b)
  BY <1>1 DEF KeepsInv
<1>3. SamePipes
  BY <1>1 DEF SamePipes, Pipe, InFlightBytes, Carries, Current, walVars
<1>4. Len(replayed) = b[n] /\ \A j \in 1..Len(replayed) : replayed[j] = history[j]
  <2>1. Len(replayed) = b[readFile]
    BY <1>1, <1>2, ReadableReads
  <2> QED
    BY <1>0, <1>2, <2>1 DEF Readable
<1>5. RecordLists(lists, n) /\ Split(lists, b, history, n) /\ stable <= b[n] /\ LogParsed(lists, pos)
  BY <1>0, <1>2 DEF RecordLists, Holds, LogParsed
<1>6. Len(replayed) \in stable..Len(history)
  <2>1. b[n] <= Len(history) /\ Len(history) \in Nat
    BY <1>0, <1>5, LenProperties DEF Split
  <2> QED
    BY <1>0, <1>4, <1>5, <2>1
<1>7. Holds(lists, pos, b)'
  <2>1. Split(lists, b, replayed, n)
    BY <1>0, <1>4, <1>5, SplitPrefix
  <2>2. LogParsed(lists, pos)'
    BY <1>0, <1>1, <1>3, <1>5, SameParsed DEF LogInv
  <2> QED
    BY <1>0, <1>1, <1>5, <2>1, <2>2 DEF Holds
<1>8. ASSUME Again'
      PROVE  Intact(lists, pos, b)'
  <2>1. Intact(lists, pos, b)
    BY <1>1, <1>2, <1>8 DEF Again
  <2>2. \A i \in 1..n : Whole(lists, pos, i)'
    BY <1>0, <1>3, <2>1 DEF SamePipes, Intact, Whole
  <2>3. \A kind, i : Safe(kind, i)' = Safe(kind, i)
    BY <1>1 DEF Safe
  <2> QED
    BY <1>0, <1>1, <2>1, <2>2, <2>3 DEF Intact
<1>9. (b[Len(files)] = Len(history))'
  BY <1>0, <1>1, <1>4
<1> QED
  BY <1>1, <1>4, <1>6, <1>7, <1>8, <1>9 DEF KeepsInv

-----------------------------------------------------------------------------
(* Every step.                                                             *)

\* A step that leaves Recover out and the pipes alone.
LEMMA QuietStepKeeps ==
  ASSUME LogInv, KeepsInv, SamePipes, UNCHANGED <<files, synced, history, stable, restarts>>,
         pc # "recover", pc' # "recover"
  PROVE  KeepsInv'
<1>1. CASE Again
  <2>1. PICK lists, pos, b : /\ Holds(lists, pos, b) /\ Intact(lists, pos, b)
                             /\ b[Len(files)] = Len(history)
    BY <1>1 DEF KeepsInv
  <2>2. Holds(lists, pos, b)' /\ Intact(lists, pos, b)'
    BY <2>1, QuietKeeps
  <2> QED
    BY <2>1, <2>2 DEF KeepsInv
<1>2. CASE ~Again
  BY <1>2 DEF KeepsInv, Again
<1> QED
  BY <1>1, <1>2

\* A Sync, at the end of WriteRecord, of a mutation or of the client.
LEMMA SyncStepKeeps ==
  ASSUME LogInv, LogInv', EngineTypeOK, KeepsInv, SyncSucceeds,
         UNCHANGED <<history, restarts>>, stable' = Len(history),
         pc # "recover", pc' # "recover"
  PROVE  KeepsInv'
<1>1. CASE Again
  <2>1. PICK lists, pos, b : /\ Holds(lists, pos, b) /\ Intact(lists, pos, b)
                             /\ b[Len(files)] = Len(history)
    BY <1>1 DEF KeepsInv
  <2>2. (Holds(lists, pos, b) /\ Intact(lists, pos, b) /\ b[Len(files)] = Len(history))'
    BY <2>1, SyncKeeps
  <2> QED
    BY <2>2 DEF KeepsInv
<1>2. CASE ~Again
  BY <1>2 DEF KeepsInv, Again
<1> QED
  BY <1>1, <1>2

\* Put and Delete.
LEMMA LogMutationKeeps ==
  ASSUME RecoverySound, LogInv, LogInv', EngineTypeOK, SettledInv, KeepsInv,
         NEW k \in Key, NEW v \in Value \cup {Tombstone}, LogMutation(k, v)
  PROVE  KeepsInv'
<1>0. /\ pc = "idle" /\ pc' # "recover" /\ ~Faults /\ isOpen
      /\ stable' = stable /\ restarts' = restarts
  BY EngineAssumption DEF LogMutation, LogInv, Healthy, RecoverySound, recoverVars
<1>1. PICK r \in Record : WriteRecord(r) /\ history' = Append(history, r)
  <2> DEFINE r == [seq |-> sequenceNumber, key |-> k, val |-> v]
  <2>1. r \in Record
    BY DEF EngineTypeOK, Record
  <2> QED
    BY <2>1 DEF LogMutation
<1>2. CASE Again
  <2>1. PICK lists, pos, b : /\ Holds(lists, pos, b) /\ Intact(lists, pos, b)
                             /\ b[Len(files)] = Len(history)
    BY <1>0, <1>2 DEF KeepsInv
  <2>2. "power" \in CrashKinds => Settled
    BY <1>0, <1>2 DEF SettledInv
  <2>3. \E g, q, c : (Holds(g, q, c) /\ Intact(g, q, c) /\ c[Len(files)] = Len(history))'
    BY <1>0, <1>1, <2>1, <2>2, AppendKeeps, RotateKeeps DEF WriteRecord, ReopenAndAppend
  <2> QED
    BY <1>0, <2>3 DEF KeepsInv
<1>3. CASE ~Again
  BY <1>0, <1>3 DEF KeepsInv, Again
<1> QED
  BY <1>2, <1>3

\* Until the last restart has recovered, every step keeps the history in the log.
LEMMA KeepsStep ==
  ASSUME RecoverySound, LogInv, LogInv', EngineTypeOK, SettledInv, SettledInv',
         KeepsInv, [Next]_vars
  PROVE  KeepsInv'
<1>0. ~Faults /\ streamGood = TRUE /\ WalTypeOK
  BY DEF RecoverySound, SettledInv, LogInv
<1>1. ASSUME NEW k \in Key, NEW v \in Value \cup {Tombstone}, LogMutation(k, v)
      PROVE  KeepsInv'
  BY <1>1, LogMutationKeeps
<1>2. CASE WalSyncOnWrite \/ SyncMutation \/ EngineSync
  <2>1. SyncSucceeds /\ stable' = Len(history)
    BY <1>0, <1>2 DEF WalSyncOnWrite, SyncMutation, EngineSync, SyncFails, Refused
  <2>2. /\ pc # "recover" /\ pc' # "recover" /\ history' = history /\ restarts' = restarts
    BY <1>2 DEF WalSyncOnWrite, SyncMutation, EngineSync, SettledInv, recoverVars
  <2> QED
    BY <2>1, <2>2, SyncStepKeeps
<1>3. CASE ApplyMutation
  <2>1. SamePipes /\ UNCHANGED <<files, synced, history, stable, restarts>>
    BY <1>3 DEF ApplyMutation, SamePipes, Pipe, InFlightBytes, Carries, Current, walVars, recoverVars
  <2> QED
    BY <1>3, <2>1, QuietStepKeeps DEF ApplyMutation
<1>4. CASE EngineFlush
  <2>1. SamePipes
    BY <1>0, <1>4, FlushPipes DEF EngineFlush
  <2>2. UNCHANGED <<files, synced, history, stable, restarts, pc>> /\ pc # "recover"
    BY <1>4 DEF EngineFlush, Flush, engineVars
  <2> QED
    BY <2>1, <2>2, QuietStepKeeps
<1>5. CASE DiskRefusesWrite
  BY <1>0, <1>5 DEF DiskRefusesWrite, StreamWriteFails, Refused
<1>6. CASE Recovery
  BY <1>6, NothingCorrupt, RecoverRecordKeeps, NextFileKeeps, RecoverDoneKeeps DEF Recovery
<1>7. CASE Shutdown
  BY <1>7, ShutdownKeeps
<1>8. CASE Crash
  BY <1>8, CrashKeeps DEF Crash
<1>9. CASE UNCHANGED vars
  <2>1. /\ SamePipes
        /\ UNCHANGED <<files, synced, history, stable, restarts, pc, readFile, readPos, replayed>>
    BY <1>9 DEF vars, walVars, engineVars, SamePipes, Pipe, InFlightBytes, Carries, Current
  <2>2. CASE pc # "recover"
    BY <2>1, <2>2, QuietStepKeeps
  <2>3. CASE pc = "recover"
    <3>1. PICK lists, pos, b : /\ Holds(lists, pos, b) /\ Readable(lists, pos, b)
                               /\ Again => Intact(lists, pos, b)
      BY <2>3 DEF KeepsInv
    <3>2. Holds(lists, pos, b)' /\ (Again' => Intact(lists, pos, b)')
      BY <2>1, <3>1, QuietKeeps DEF Again
    <3>3. DOMAIN files = 1..Len(files)
      BY LogSizes DEF LogInv
    <3>4. Readable(lists, pos, b)'
      BY <2>1, <3>1, <3>3 DEF Readable, SamePipes
    <3> QED
      BY <2>1, <2>3, <3>2, <3>4 DEF KeepsInv
  <2> QED
    BY <2>2, <2>3
<1>11. ASSUME NEW k \in Key, NEW v \in Value \cup {Tombstone}, MutationOverruns(k, v)
       PROVE  KeepsInv'
  <2>1. /\ SamePipes /\ pc # "recover" /\ pc' = pc
        /\ UNCHANGED <<files, synced, history, stable, restarts>>
    BY <1>11 DEF MutationOverruns, Overrun, engineVars, SamePipes, Pipe, InFlightBytes, Carries,
                 Current
  <2> QED
    BY <2>1, QuietStepKeeps
<1> QED
  BY <1>1, <1>2, <1>3, <1>4, <1>5, <1>6, <1>7, <1>8, <1>9, <1>11 DEF Next, Client

-----------------------------------------------------------------------------
(* The engine is a durable map.                                            *)

\* No mutation was refused and no recovery failed.
NothingLost == refused = {} /\ recovery = "ok"

DurableInv == SettledInv /\ KeepsInv /\ ReplayInv /\ NothingLost

\* Nothing makes a call fail.
LEMMA NothingLostStep ==
  ASSUME RecoverySound, LogInv, EngineTypeOK, SettledInv, KeepsInv, NothingLost, [Next]_vars
  PROVE  NothingLost'
<1>1. ~Faults /\ streamGood = TRUE
  BY DEF RecoverySound, SettledInv
<1>2. ~SyncFails /\ ~DiskRefusesWrite /\ ~RecoverCorrupt
  BY <1>1, NothingCorrupt DEF SyncFails, DiskRefusesWrite, StreamWriteFails, Refused
<1>3. CASE Client
  BY <1>2, <1>3 DEF Client, LogMutation, MutationOverruns, WalSyncOnWrite, SyncMutation, ApplyMutation,
                    EngineFlush, EngineSync, engineVars, recoverVars, NothingLost
<1>4. CASE Recovery
  BY <1>2, <1>4 DEF Recovery, RecoverRecord, RecoverNextFile, RecoverDone, ServeRecovered,
                    NothingLost
<1>5. CASE Shutdown \/ Crash
  BY <1>5 DEF Shutdown, Crash, StartRecovery, NothingLost
<1>6. CASE UNCHANGED vars
  BY <1>6 DEF vars, engineVars, NothingLost
<1> QED
  BY <1>2, <1>3, <1>4, <1>5, <1>6 DEF Next

\* The first constructor serves the empty map.
LEMMA InitDurable ==
  ASSUME RecoverySound
  PROVE  Init => DurableInv /\ DM!DMInit
<1> SUFFICES ASSUME RecoverySound, Init PROVE DurableInv /\ DM!DMInit
  OBVIOUS
<1>1. /\ history = << >> /\ refused = {} /\ recovery = "ok" /\ pc = "idle" /\ tree = EmptyTree
      /\ stable = 0 /\ Len(history) = 0
      /\ files = << << >> >> /\ synced = <<0>> /\ stream = << >> /\ buffer = << >>
      /\ streamGood = TRUE /\ syncPending = FALSE
  BY DEF Init, WalInit, Opens, RecoverySound
<1>2. KeepsInv
  BY InitKeeps
<1>3. SettledInv
  <2>1. Len(files) = 1 /\ synced[1] = 0 /\ files[1] = << >> /\ Len(<< >>) = 0
    BY <1>1
  <2> QED
    BY <1>1, <2>1 DEF SettledInv, Settled, Current
<1>4. ReplayInv
  BY <1>1, ReplayedNothing DEF ReplayInv
<1>5. DM!DMInit
  BY <1>1 DEF DM!DMInit, DM!EmptyMap, EmptyTree
<1> QED
  BY <1>1, <1>2, <1>3, <1>4, <1>5 DEF DurableInv, NothingLost

\* What Recover serves is a prefix of the history with everything stable.
LEMMA RecoverDoneReturns ==
  ASSUME LogInv, EngineTypeOK, EngineTypeOK', SettledInv, KeepsInv, ReplayInv', RecoverDone
  PROVE  DM!Return /\ IsPrefix(SubSeq(history, 1, stable), history')
<1>1. /\ pc = "recover" /\ pc' = "idle" /\ history' = replayed /\ refused' = {}
      /\ stable' = stable
  BY DEF RecoverDone, ServeRecovered, Reading
<1>2. /\ Len(replayed) \in stable..Len(history)
      /\ \A j \in 1..Len(replayed) : replayed[j] = history[j]
  BY RecoverDoneKeeps
<1>3. /\ history \in Seq(Record) /\ replayed \in Seq(Record) /\ stable \in Nat
      /\ Len(history) \in Nat /\ Len(replayed) \in Nat
  BY LenProperties DEF EngineTypeOK
<1>4. PICK n \in stable..Len(history) : n = Len(replayed) /\ n \in Nat
  BY <1>2, <1>3
<1>5. SubSeq(history, 1, n) = replayed
  <2>1. \A j \in 1..n : history[j] \in Record
    BY <1>3, <1>4, ElementOfSeq
  <2>2. /\ SubSeq(history, 1, n) \in Seq(Record) /\ Len(SubSeq(history, 1, n)) = n
        /\ \A j \in 1..n : SubSeq(history, 1, n)[j] = history[j]
    BY <1>3, <1>4, <2>1, SubSeqProperties
  <2> QED
    BY <1>2, <1>3, <1>4, <2>2, SeqEqual
<1>6. tree' = DM!Replay(replayed)
  BY <1>1, <1>3, DurableReplay DEF ReplayInv
<1>7. DM!Return
  BY <1>1, <1>4, <1>5, <1>6 DEF DM!Return
<1>8. IsPrefix(SubSeq(history, 1, stable), replayed)
  <2>1. \A j \in 1..stable : history[j] \in Record /\ replayed[j] \in Record
    BY <1>2, <1>3, <1>4, ElementOfSeq
  <2> DEFINE s == SubSeq(history, 1, stable)
             t == SubSeq(replayed, 1, stable)
  <2>2. /\ s \in Seq(Record) /\ Len(s) = stable
        /\ \A j \in 1..stable : s[j] = history[j]
    BY <1>3, <2>1, SubSeqProperties
  <2>3. /\ t \in Seq(Record) /\ Len(t) = stable
        /\ \A j \in 1..stable : t[j] = replayed[j]
    BY <1>3, <2>1, SubSeqProperties
  <2>4. /\ SubSeq(s, 1, stable) \in Seq(Record) /\ Len(SubSeq(s, 1, stable)) = stable
        /\ \A j \in 1..stable : SubSeq(s, 1, stable)[j] = s[j]
    <3>1. \A j \in 1..stable : s[j] \in Record
      BY <2>1, <2>2
    <3> HIDE DEF s
    <3> QED
      BY <1>3, <2>2, <3>1, SubSeqProperties
  <2> HIDE DEF s, t
  <2>5. SubSeq(s, 1, stable) = t
    BY <1>2, <1>3, <2>2, <2>3, <2>4, SeqEqual
  <2> QED
    BY <1>2, <1>3, <2>2, <2>5 DEF IsPrefix, s, t
<1> QED
  BY <1>1, <1>7, <1>8

\* Every step is one of the map, or none that it shows.
LEMMA EngineStepsMap ==
  ASSUME RecoverySound, LogInv, LogInv', EngineTypeOK, EngineTypeOK', DurableInv, DurableInv',
         [Next]_vars
  PROVE  [DM!DMNext]_(DM!dmVars)
<1>0. /\ ~Faults /\ streamGood = TRUE /\ SettledInv /\ KeepsInv /\ ReplayInv /\ ReplayInv'
      /\ refused = {} /\ refused' = {} /\ Len(history) \in Nat /\ history \in Seq(Record)
      /\ history' \in Seq(Record) /\ tree # Down
  BY LenProperties, EngineAssumption
     DEF RecoverySound, SettledInv, DurableInv, NothingLost, EngineTypeOK
<1>1. ASSUME NEW k \in Key, NEW v \in Value \cup {Tombstone}, LogMutation(k, v)
      PROVE  DM!Accept
  <2> DEFINE r == [seq |-> sequenceNumber, key |-> k, val |-> v]
  <2>1. /\ pc = "idle" /\ pc' \in {"sync", "apply"} /\ tree' = tree /\ stable' = stable
        /\ history' = Append(history, r)
    BY <1>1, EngineAssumption DEF LogMutation
  <2>2. sequenceNumber \in 1..MaxSequence
    BY <1>1, SizesAssumption DEF LogMutation, EngineTypeOK
  <2>3. r \in DM!Mutation /\ r \in Record
    BY <2>2 DEF DM!Mutation, Record
  <2> HIDE DEF r
  <2>4. Len(history') = Len(history) + 1
    BY <1>0, <2>1, <2>3, AppendProperties
  <2> QED
    BY <1>0, <2>1, <2>3, <2>4 DEF DM!Accept
<1>2. CASE WalSyncOnWrite \/ SyncMutation \/ EngineSync
  <2>1. SyncSucceeds /\ stable' = Len(history)
    BY <1>0, <1>2 DEF WalSyncOnWrite, SyncMutation, EngineSync, SyncFails, Refused
  <2>2. /\ pc # "recover" /\ pc' # "recover" /\ history' = history /\ tree' = tree
        /\ pc' \in {"sync", "apply"} <=> pc \in {"sync", "apply"}
    BY <1>0, <1>2 DEF WalSyncOnWrite, SyncMutation, EngineSync, SyncFails, Refused,
                      SettledInv, recoverVars
  <2> QED
    BY <1>0, <2>1, <2>2 DEF DM!Stabilise, DM!DMNext
<1>3. CASE ApplyMutation
  <2>1. /\ pc = "apply" /\ pc' = "idle" /\ history' = history /\ stable' = stable
    BY <1>3 DEF ApplyMutation
  <2>2. tree' = DM!Replay(history)
    BY <1>0, <2>1, DurableReplay DEF ReplayInv
  <2> QED
    BY <1>0, <2>1, <2>2 DEF DM!Apply, DM!DMNext
<1>4. CASE EngineFlush
  BY <1>4 DEF EngineFlush, engineVars, DM!dmVars
<1>5. CASE DiskRefusesWrite
  BY <1>0, <1>5 DEF DiskRefusesWrite, StreamWriteFails, Refused
<1>6. CASE RecoverRecord \/ RecoverNextFile
  BY <1>6 DEF RecoverRecord, RecoverNextFile, Reading, DM!dmVars
<1>7. CASE RecoverDone
  BY <1>0, <1>7, RecoverDoneReturns DEF DM!DMNext
<1>8. CASE RecoverCorrupt
  BY <1>0, <1>8, NothingCorrupt
<1>9. CASE Shutdown \/ Crash
  BY <1>9 DEF Shutdown, Crash, StartRecovery, DM!Stop, DM!DMNext
<1>10. CASE UNCHANGED vars
  BY <1>10 DEF vars, engineVars, DM!dmVars
<1>11. ASSUME NEW k \in Key, NEW v \in Value \cup {Tombstone}, MutationOverruns(k, v)
       PROVE  UNCHANGED DM!dmVars
  BY <1>11 DEF MutationOverruns, engineVars, DM!dmVars
<1> QED
  BY <1>1, <1>2, <1>3, <1>4, <1>5, <1>6, <1>7, <1>8, <1>9, <1>10, <1>11
     DEF Next, Client, Recovery, DM!DMNext

\* The invariant the theorems rest on.
LEMMA DurableInvariant ==
  ASSUME RecoverySound
  PROVE  Spec => []DurableInv
<1>1. Init => DurableInv
  BY InitDurable
<1>2. DurableInv /\ EngineInv /\ EngineInv' /\ [Next]_vars => DurableInv'
  <2> SUFFICES ASSUME DurableInv, EngineInv, EngineInv', [Next]_vars
               PROVE  DurableInv'
    OBVIOUS
  <2>1. /\ SettledInv /\ KeepsInv /\ ReplayInv /\ NothingLost
        /\ LogInv /\ LogInv' /\ EngineTypeOK /\ EngineTypeOK'
    BY DEF DurableInv, EngineInv
  <2>2. SettledInv'
    BY <2>1, SettledStep
  <2>3. KeepsInv'
    BY <2>1, <2>2, KeepsStep
  <2>4. ReplayInv' /\ NothingLost'
    BY <2>1, ReplayInvStep, NothingLostStep
  <2> QED
    BY <2>2, <2>3, <2>4 DEF DurableInv
<1> QED
  BY <1>1, <1>2, EngineInvariant, PTL DEF Spec

\* The engine is a DurableMap (kv_engine.cpp 7-17, 39-133): it logs a mutation
\* before it shows it, one at a time, and comes back from a shutdown or a crash
\* as the replay of a prefix of what it had logged, with everything a Sync that
\* returned OK covered, however its records fall into buffers and files.
THEOREM EngineIsDurable ==
  ASSUME RecoverySound
  PROVE  Spec => ImplementsDurableMap
<1>1. Init => DM!DMInit
  BY InitDurable
<1>2. /\ DurableInv /\ DurableInv' /\ EngineInv /\ EngineInv' /\ [Next]_vars
         => [DM!DMNext]_(DM!dmVars)
  BY EngineStepsMap DEF EngineInv
<1> QED
  BY <1>1, <1>2, EngineInvariant, DurableInvariant, PTL
     DEF Spec, ImplementsDurableMap, DM!DMSpec

\* Whatever was logged before the last successful Sync comes back, first and in
\* order, after every restart (wal.cpp 200-222, 258-340).
THEOREM StableAlwaysSurvives ==
  ASSUME RecoverySound
  PROVE  Spec => StableSurvives
<1> DEFINE Survives == pc = "recover" /\ pc' = "idle" => IsPrefix(SubSeq(history, 1, stable), history')
<1>1. DurableInv /\ DurableInv' /\ EngineInv /\ EngineInv' /\ [Next]_vars => [Survives]_vars
  <2> SUFFICES ASSUME DurableInv, DurableInv', EngineInv, EngineInv', [Next]_vars,
                      pc = "recover", pc' = "idle"
               PROVE  IsPrefix(SubSeq(history, 1, stable), history')
    OBVIOUS
  <2>1. /\ SettledInv /\ KeepsInv /\ ReplayInv'
        /\ LogInv /\ EngineTypeOK /\ EngineTypeOK'
    BY DEF DurableInv, EngineInv
  <2>2. RecoverDone
    <3>1. ~RecoverCorrupt
      BY <2>1, NothingCorrupt
    <3> QED
      BY <2>1, <3>1 DEF Next, Client, LogMutation, MutationOverruns, WalSyncOnWrite, SyncMutation, ApplyMutation,
             EngineFlush, EngineSync, DiskRefusesWrite, Recovery, RecoverRecord, RecoverNextFile,
             Shutdown, Crash, StartRecovery, engineVars, vars, SettledInv
  <2> QED
    BY <2>1, <2>2, RecoverDoneReturns
<1> QED
  BY <1>1, EngineInvariant, DurableInvariant, PTL DEF Spec, StableSurvives

\* No Recover reports Corruption (wal.cpp 276-332).  Without RecoverySound one
\* may: a record logged after a torn one makes it look whole but wrong.
THEOREM TornTailAlwaysIgnored ==
  ASSUME RecoverySound
  PROVE  Spec => []TornTailIgnored
<1>1. DurableInv => TornTailIgnored
  BY DEF DurableInv, NothingLost, TornTailIgnored
<1> QED
  BY <1>1, DurableInvariant, PTL

-----------------------------------------------------------------------------
(* The files put together.                                                 *)

\* What the files hold one after the other is the history when it splits into
\* them.
LEMMA SplitFlattens ==
  ASSUME NEW n \in Nat \ {0}, NEW lists \in Seq(Seq(Record)), Len(lists) = n,
         NEW b, NEW h \in Seq(Record), Split(lists, b, h, n), b[n] = Len(h)
  PROVE  FlattenSeq(lists) = h
<1> DEFINE start == [i \in 0..n |-> SubSeq(h, 1, b[i])]
           Body(f) == [i \in 1..Len(lists) |->
                         IF i = 1 THEN lists[i] ELSE f[i - 1] \o lists[i]]
           whole == CHOOSE f : f = Body(f)
<1>1. /\ Len(h) \in Nat /\ RecordLists(lists, n) /\ b[0] = 0
      /\ \A i \in 1..n : lists[i] \in Seq(Record)
  BY LenProperties, ElementOfSeq DEF RecordLists, Split
<1>2. /\ \A i \in 0..n : b[i] \in Nat /\ b[i] <= Len(h)
      /\ \A i \in 1..n : /\ Len(lists[i]) \in Nat /\ b[i - 1] \in Nat
                         /\ b[i] = b[i - 1] + Len(lists[i])
  BY <1>1, SplitGrows
<1>3. ASSUME NEW i \in 0..n
      PROVE  /\ start[i] \in Seq(Record) /\ Len(start[i]) = b[i]
             /\ \A j \in 1..b[i] : start[i][j] = h[j]
  <2>1. \A j \in 1..b[i] : h[j] \in Record
    BY <1>1, <1>2, ElementOfSeq
  <2> QED
    BY <1>1, <1>2, <2>1, SubSeqProperties
<1> HIDE DEF start
<1>4. ASSUME NEW i \in 1..n, NEW m \in 1..Len(lists[i])
      PROVE  lists[i][m] = h[b[i - 1] + m]
  BY DEF Split
<1>5. ASSUME NEW i \in 1..n
      PROVE  start[i - 1] \o lists[i] = start[i]
  <2> DEFINE s == start[i - 1]
             l == lists[i]
             c == s \o l
  <2>1. /\ s \in Seq(Record) /\ Len(s) = b[i - 1] /\ \A j \in 1..b[i - 1] : s[j] = h[j]
        /\ l \in Seq(Record) /\ b[i - 1] \in Nat /\ b[i] \in Nat
        /\ Len(l) \in Nat /\ b[i] = b[i - 1] + Len(l)
        /\ \A m \in 1..Len(l) : l[m] = h[b[i - 1] + m]
    <3>1. i - 1 \in 0..n
      OBVIOUS
    <3> QED
      BY <1>1, <1>2, <1>3, <1>4, <3>1
  <2> HIDE DEF s, l
  <2>2. /\ c \in Seq(Record) /\ Len(c) = Len(s) + Len(l)
        /\ \A j \in 1..(Len(s) + Len(l)) : c[j] = IF j <= Len(s) THEN s[j] ELSE l[j - Len(s)]
    BY <2>1, ConcatProperties
  <2> HIDE DEF c
  <2>3. ASSUME NEW j \in 1..b[i] PROVE c[j] = h[j]
    <3>1. CASE j <= Len(s)
      BY <2>1, <2>2, <3>1
    <3>2. CASE ~(j <= Len(s))
      <4>1. j - Len(s) \in 1..Len(l) /\ b[i - 1] + (j - Len(s)) = j
        BY <2>1, <3>2
      <4>2. l[j - Len(s)] = h[b[i - 1] + (j - Len(s))]
        BY <2>1, <4>1
      <4> QED
        BY <2>1, <2>2, <3>2, <4>1, <4>2
    <3> QED
      BY <3>1, <3>2
  <2>4. /\ start[i] \in Seq(Record) /\ Len(start[i]) = Len(c)
        /\ \A j \in 1..Len(c) : start[i][j] = c[j]
    BY <1>3, <2>1, <2>2, <2>3
  <2>5. start[i] = c
    BY <2>2, <2>4, SeqEqual
  <2> QED
    BY <2>5 DEF c, s, l
<1>6. start[1] = lists[1]
  <2>1. /\ start[1] \in Seq(Record) /\ lists[1] \in Seq(Record) /\ 1 \in 1..n
        /\ Len(start[1]) = b[1] /\ b[1] = b[0] + Len(lists[1]) /\ Len(lists[1]) \in Nat
    <3>1. 1 \in 1..n /\ 1 \in 0..n /\ 1 - 1 = 0
      OBVIOUS
    <3> QED
      BY <1>1, <1>2, <1>3, <3>1
  <2>2. ASSUME NEW j \in 1..Len(lists[1]) PROVE start[1][j] = lists[1][j]
    <3>1. lists[1][j] = h[b[1 - 1] + j] /\ b[1 - 1] = 0 /\ j \in 1..b[1] /\ 1 \in 0..n
      BY <1>1, <1>4, <2>1
    <3>2. start[1][j] = h[j]
      BY <1>3, <3>1
    <3> QED
      BY <3>1, <3>2
  <2> QED
    BY <1>1, <2>1, <2>2, SeqEqual
<1> DEFINE runs == [i \in 1..n |-> start[i]]
<1>7. runs = Body(runs)
  <2>1. ASSUME NEW i \in 1..n
        PROVE  start[i] = IF i = 1 THEN lists[i] ELSE runs[i - 1] \o lists[i]
    <3>1. CASE i = 1
      BY <1>6, <3>1
    <3>2. CASE i # 1
      <4>1. runs[i - 1] = start[i - 1]
        BY <3>2
      <4> QED
        BY <1>5, <3>2, <4>1
    <3> QED
      BY <3>1, <3>2
  <2> QED
    BY <2>1
<1>8. FlattenSeq(lists) = whole[n]
  BY DEF FlattenSeq
<1>9. \A f : f = Body(f) => \A i \in 1..n : f[i] = IF i = 1 THEN lists[i] ELSE f[i - 1] \o lists[i]
  OBVIOUS
<1> HIDE DEF Body, runs
<1>10. whole = Body(whole)
  BY <1>7
<1> HIDE DEF whole
<1> DEFINE S == {i \in Nat : i + 1 <= n => whole[i + 1] = start[i + 1]}
<1>11. 0 \in S
  BY <1>6, <1>9, <1>10
<1>12. ASSUME NEW i \in Nat, i \in S
       PROVE  i + 1 \in S
  <2> SUFFICES ASSUME (i + 1) + 1 <= n PROVE whole[(i + 1) + 1] = start[(i + 1) + 1]
    OBVIOUS
  <2>1. (i + 1) + 1 \in 1..n /\ (i + 1) + 1 # 1 /\ ((i + 1) + 1) - 1 = i + 1 /\ i + 1 <= n
    OBVIOUS
  <2>2. whole[(i + 1) + 1] = whole[i + 1] \o lists[(i + 1) + 1]
    BY <1>9, <1>10, <2>1
  <2>3. start[i + 1] \o lists[(i + 1) + 1] = start[(i + 1) + 1]
    BY <1>5, <2>1
  <2> QED
    BY <1>12, <2>1, <2>2, <2>3
<1> HIDE DEF S
<1>13. n - 1 \in S
  <2>1. n - 1 \in Nat
    OBVIOUS
  <2> QED
    BY <1>11, <1>12, <2>1, SetInduction
<1>14. whole[n] = start[n]
  BY <1>13 DEF S
<1>15. start[n] = h
  <2>1. n \in 0..n
    OBVIOUS
  <2>2. /\ start[n] \in Seq(Record) /\ Len(start[n]) = Len(h)
        /\ \A j \in 1..Len(h) : start[n][j] = h[j]
    BY <1>3, <2>1
  <2> QED
    BY <2>2, SeqEqual
<1> QED
  BY <1>8, <1>14, <1>15

-----------------------------------------------------------------------------
(* The log holds the history.                                              *)

\* The records in each file and on their way to it.
FileRecords == [i \in 1..Len(files) |-> RecordedIn(Pipe(i))]

\* Put together they are the history, to the last mutation.
HeldInv ==
  pc # "recover" =>
    \E b : Split(FileRecords, b, history, Len(files)) /\ b[Len(files)] = Len(history)

\* They are records.
LEMMA FileRecordsTypes ==
  ASSUME WalTypeOK
  PROVE  /\ FileRecords \in Seq(Seq(Record)) /\ Len(FileRecords) = Len(files)
         /\ RecordLists(FileRecords, Len(files))
         /\ \A i \in 1..Len(files) : FileRecords[i] = RecordedIn(Pipe(i))
<1>1. PICK n \in Nat : n = Len(files) /\ DOMAIN files = 1..n
  BY LogSizes, LenProperties DEF WalTypeOK
<1>2. ASSUME NEW i \in 1..n PROVE RecordedIn(Pipe(i)) \in Seq(Record)
  <2>1. Pipe(i) \in Seq(Cell)
    BY <1>1, PipeTypes
  <2>2. PICK acc : Finds(acc, Pipe(i)) /\ RecordedIn(Pipe(i)) = acc[Len(Pipe(i))]
    BY <2>1, RecordedFinds
  <2>3. Len(Pipe(i)) \in 0..Len(Pipe(i))
    BY <2>1, LenProperties
  <2> QED
    BY <2>2, <2>3 DEF Finds
<1>3. FileRecords = [i \in 1..n |-> RecordedIn(Pipe(i))]
  BY <1>1 DEF FileRecords
<1>4. FileRecords \in Seq(Seq(Record)) /\ Len(FileRecords) = n
  <2>1. FileRecords \in [1..n -> Seq(Record)]
    BY <1>2, <1>3
  <2> QED
    BY <1>1, <2>1, IsASeq, LenProperties
<1> QED
  BY <1>1, <1>2, <1>3, <1>4 DEF RecordLists

\* On a good stream, a file with the two layers above it is what it will be
\* when they have been written out.
LEMMA VolatileIsPipe ==
  ASSUME WalTypeOK, streamGood, isOpen, NEW i \in DOMAIN files
  PROVE  WithVolatile(i) = Pipe(i)
<1>1. CASE i = Current
  <2>1. CellSeqs(files[i], stream, buffer)
    BY LogSizes DEF CellSeqs, WalTypeOK
  <2>2. Together(files[i], stream \o buffer, files[i], stream, buffer)
    BY <2>1, Associates
  <2>3. WithVolatile(i) = (files[i] \o stream) \o buffer
    BY <1>1 DEF WithVolatile, Spilled
  <2>4. Pipe(i) = files[i] \o (stream \o buffer)
    BY <1>1 DEF Pipe, InFlightBytes, Carries
  <2> QED
    BY <2>2, <2>3, <2>4, Zenon DEF Together
<1>2. CASE i # Current
  BY <1>2 DEF WithVolatile, Pipe
<1> QED
  BY <1>1, <1>2

\* So the invariant gives the property.
LEMMA HeldIsHistory ==
  ASSUME LogInv, EngineTypeOK, ~Faults, HeldInv
  PROVE  LogHoldsHistory
<1> SUFFICES ASSUME pc # "recover"
             PROVE  FlattenSeq([i \in DOMAIN files |-> RecordedIn(WithVolatile(i))]) = history
  BY DEF LogHoldsHistory
<1>1. PICK n \in Nat \ {0} :
        /\ WalTypeOK /\ streamGood /\ isOpen /\ history \in Seq(Record)
        /\ n = Len(files) /\ DOMAIN files = 1..n
  BY LogSizes DEF LogInv, Healthy, EngineTypeOK, Current
<1>2. FileRecords = [i \in DOMAIN files |-> RecordedIn(WithVolatile(i))]
  <2>1. \A i \in 1..n : RecordedIn(WithVolatile(i)) = RecordedIn(Pipe(i))
    BY <1>1, VolatileIsPipe
  <2> QED
    BY <1>1, <2>1, Zenon DEF FileRecords
<1>3. PICK b : Split(FileRecords, b, history, n) /\ b[n] = Len(history)
  BY <1>1 DEF HeldInv
<1>4. FileRecords \in Seq(Seq(Record)) /\ Len(FileRecords) = n
  BY <1>1, FileRecordsTypes
<1> QED
  BY <1>1, <1>2, <1>3, <1>4, SplitFlattens

\* A new log holds no record.
LEMMA InitHeld == Init => HeldInv
<1> SUFFICES ASSUME Init PROVE HeldInv
  OBVIOUS
<1>1. /\ files = << << >> >> /\ stream = << >> /\ buffer = << >>
      /\ history = << >> /\ << >> \o << >> = << >> /\ Len(<< >>) = 0
  BY DEF Init, WalInit
<1>2. Len(files) = 1 /\ files[1] = << >> /\ 1..1 = {1} /\ 1..0 = {}
  BY <1>1
<1>3. RecordedIn(Pipe(1)) = << >>
  BY <1>1, <1>2, RecordedNothing DEF Pipe, InFlightBytes, Current
<1>4. FileRecords[1] = << >>
  BY <1>2, <1>3 DEF FileRecords
<1> DEFINE b == [i \in 0..1 |-> 0]
<1>5. b \in [0..1 -> Nat] /\ b[0] = 0 /\ b[1] = 0
  OBVIOUS
<1> HIDE DEF b
<1>6. Split(FileRecords, b, history, Len(files))
  BY <1>1, <1>2, <1>4, <1>5 DEF Split
<1> QED
  BY <1>1, <1>2, <1>5, <1>6 DEF HeldInv

\* A mutation logged adds its record behind all others.
LEMMA LogMutationHeld ==
  ASSUME LogInv, EngineTypeOK, ~Faults, HeldInv, pc # "recover", NEW r \in Record,
         WriteRecord(r), history' = Append(history, r)
  PROVE  HeldInv'
<1>0. PICK n \in Nat \ {0} :
      /\ WalTypeOK /\ streamGood /\ isOpen /\ Carries /\ history \in Seq(Record)
      /\ n = Len(files) /\ Current = n /\ DOMAIN files = 1..n
  BY LogSizes DEF LogInv, Healthy, Carries, EngineTypeOK, Current
<1>1. /\ RecordLists(FileRecords, n) /\ \A i \in 1..n : FileRecords[i] = RecordedIn(Pipe(i))
      /\ \A i \in 1..n : Pipe(i) \in Seq(Cell)
  BY <1>0, FileRecordsTypes, PipeTypes
<1>2. PICK lists, b :
        /\ lists = FileRecords /\ RecordLists(lists, n)
        /\ Split(lists, b, history, n) /\ b[n] = Len(history)
  BY <1>0, <1>1 DEF HeldInv
<1>3. CASE AppendToCurrent(r)
  <2>1. /\ Len(files') = n
        /\ \A i \in 1..n : Pipe(i)' = IF i = n THEN Pipe(i) \o Encoding(r) ELSE Pipe(i)
    BY <1>0, <1>3, AppendPipes
  <2>2. ASSUME NEW i \in 1..n
        PROVE  FileRecords'[i] = IF i = n THEN Append(FileRecords[i], r) ELSE FileRecords[i]
    <3>1. FileRecords'[i] = RecordedIn(Pipe(i)')
      BY <2>1 DEF FileRecords
    <3>2. CASE i = n
      <4>1. Pipe(i)' = Pipe(i) \o Encoding(r)
        BY <2>1, <3>2
      <4>2. Pipe(i) \o Encoding(r) \in Seq(Cell)
        BY <1>1, EncodingProperties, ConcatProperties
      <4>3. RecordedIn(Pipe(i)') = Append(RecordedIn(Pipe(i)), r)
        BY <1>1, <4>1, <4>2, RecordedMore
      <4> QED
        BY <1>1, <3>1, <3>2, <4>3
    <3>3. CASE i # n
      <4>1. Pipe(i)' = Pipe(i)
        BY <2>1, <3>3
      <4> QED
        BY <1>1, <3>1, <3>3, <4>1
    <3> QED
      BY <3>2, <3>3
  <2>3. \E c : Split(FileRecords', c, Append(history, r), n) /\ c[n] = Len(Append(history, r))
    <3>1. PICK g : g = FileRecords'
      OBVIOUS
    <3>2. \A i \in 1..n : g[i] = IF i = n THEN Append(lists[i], r) ELSE lists[i]
      BY <1>2, <2>2, <3>1
    <3>3. PICK c : /\ Split(g, c, Append(history, r), n) /\ c[n] = Len(Append(history, r))
                   /\ \A i \in 0..(n - 1) : c[i] = b[i]
      BY <1>0, <1>2, <3>2, SplitAppend
    <3> QED
      BY <3>1, <3>3, Zenon
  <2> QED
    BY <2>1, <2>3 DEF HeldInv
<1>4. CASE RotateAndAppend(r)
  <2>1. /\ Len(files') = n + 1 /\ Pipe(n + 1)' = Encoding(r)
        /\ \A i \in 1..n : Pipe(i)' = Pipe(i)
    <3>1. \A i : i = Len(files) + 1 => Pipe(i)' = Encoding(r)
      BY <1>0, <1>4, RotatePipes
    <3> QED
      BY <1>0, <1>4, <3>1, RotatePipes
  <2>2. \A i \in 1..(n + 1) : FileRecords'[i] = RecordedIn(Pipe(i)')
    BY <2>1 DEF FileRecords
  <2>3. \A i \in 1..n : FileRecords'[i] = FileRecords[i]
    <3> SUFFICES ASSUME NEW i \in 1..n PROVE FileRecords'[i] = FileRecords[i]
      OBVIOUS
    <3>1. i \in 1..(n + 1) /\ Pipe(i)' = Pipe(i)
      BY <2>1
    <3> QED
      BY <1>1, <2>2, <3>1
  <2>4. FileRecords'[n + 1] = <<r>>
    <3>1. << >> \in Seq(Cell) /\ Encoding(r) \in Seq(Cell) /\ << >> \o Encoding(r) = Encoding(r)
      BY EmptySeq, EncodingProperties, ConcatEmptySeq
    <3>2. RecordedIn(Encoding(r)) = Append(RecordedIn(<< >>), r)
      BY <3>1, RecordedMore
    <3>3. Append(<< >>, r) = <<r>> /\ RecordedIn(Encoding(r)) = <<r>>
      <4>1. Append(<< >>, r) = <<r>>
        OBVIOUS
      <4> QED
        BY <3>2, <4>1, RecordedNothing, Zenon
    <3>4. n + 1 \in 1..(n + 1)
      OBVIOUS
    <3> QED
      BY <2>1, <2>2, <3>3, <3>4
  <2>5. \E c : /\ Split(FileRecords', c, Append(history, r), n + 1)
               /\ c[n + 1] = Len(Append(history, r))
    <3>1. PICK g : g = FileRecords'
      OBVIOUS
    <3>2. \A i \in 1..n : g[i] = lists[i]
      BY <1>2, <2>3, <3>1
    <3>3. OneMore(g, lists, n, r)
      BY <2>4, <3>1, <3>2 DEF OneMore
    <3>4. PICK c : /\ Split(g, c, Append(history, r), n + 1)
                   /\ c[n + 1] = Len(Append(history, r)) /\ \A i \in 0..n : c[i] = b[i]
      BY <1>0, <1>2, <3>3, SplitRotate
    <3> QED
      BY <3>1, <3>4, Zenon
  <2> QED
    BY <2>1, <2>5 DEF HeldInv
<1> QED
  BY <1>0, <1>3, <1>4 DEF WriteRecord, ReopenAndAppend

\* A step that only moves bytes along changes nothing.
LEMMA QuietHeld ==
  ASSUME LogInv, HeldInv, SamePipes, history' = history, pc # "recover"
  PROVE  HeldInv'
<1>1. DOMAIN files = 1..Len(files)
  BY LogSizes DEF LogInv
<1>2. FileRecords' = FileRecords
  <2>1. \A i \in 1..Len(files) : RecordedIn(Pipe(i)') = RecordedIn(Pipe(i))
    BY <1>1 DEF SamePipes
  <2> QED
    BY <2>1, Zenon DEF FileRecords, SamePipes
<1> QED
  BY <1>2 DEF HeldInv, SamePipes

\* Recover has delivered all records there are in the files.
LEMMA RecoverDoneHeld ==
  ASSUME LogInv, EngineTypeOK, SettledInv, KeepsInv, RecoverDone
  PROVE  HeldInv'
<1>0. PICK n \in Nat \ {0} :
      /\ n = Len(files) /\ n \in 1..n /\ DOMAIN files = 1..n /\ readFile = n
      /\ replayed \in Seq(Record) /\ history \in Seq(Record)
  BY LogSizes DEF LogInv, EngineTypeOK, Current, RecoverDone
<1>1. /\ UNCHANGED walVars /\ pc = "recover" /\ LeaveFile
      /\ stream = << >> /\ buffer = << >> /\ files' = files /\ history' = replayed
  BY DEF RecoverDone, ServeRecovered, Reading, SettledInv, walVars
<1>2. PICK lists, pos, b : Holds(lists, pos, b) /\ Readable(lists, pos, b)
  BY <1>1 DEF KeepsInv
<1>3. Len(replayed) = b[n] /\ \A j \in 1..Len(replayed) : replayed[j] = history[j]
  <2>1. Len(replayed) = b[readFile]
    BY <1>1, <1>2, ReadableReads
  <2> QED
    BY <1>0, <1>2, <2>1 DEF Readable
<1>4. RecordLists(lists, n) /\ Split(lists, b, history, n)
  BY <1>0, <1>2 DEF RecordLists, Holds, LogParsed
<1>5. Split(lists, b, replayed, n)
  BY <1>0, <1>3, <1>4, SplitPrefix
<1>6. ASSUME NEW i \in 1..n
      PROVE  FileRecords'[i] = lists[i]
  <2>1. Pipe(i)' = Pipe(i)
    BY <1>1 DEF Pipe, InFlightBytes, Carries, Current, walVars
  <2>2. FileRecords'[i] = RecordedIn(Pipe(i))
    BY <1>0, <1>1, <2>1 DEF FileRecords
  <2>3. /\ Pipe(i) \in Seq(Cell) /\ lists[i] \in Seq(Record)
        /\ Parsed(Pipe(i), lists[i], pos[i]) /\ CleanEnd(Pipe(i), pos[i][Len(lists[i])])
    BY <1>0, <1>2, PipeTypes DEF Holds, LogParsed, Readable, LogInv
  <2> QED
    BY <2>2, <2>3, RecordedParsed
<1>7. Split(FileRecords', b, replayed, n)
  BY <1>5, <1>6 DEF Split
<1> QED
  BY <1>0, <1>1, <1>3, <1>7 DEF HeldInv

\* So every step keeps the history in the log.
LEMMA HeldStep ==
  ASSUME RecoverySound, LogInv, EngineTypeOK, SettledInv, KeepsInv, HeldInv, [Next]_vars
  PROVE  HeldInv'
<1>0. ~Faults /\ streamGood = TRUE /\ WalTypeOK
  BY DEF RecoverySound, SettledInv, LogInv
<1>1. ASSUME NEW k \in Key, NEW v \in Value \cup {Tombstone}, LogMutation(k, v)
      PROVE  HeldInv'
  <2> DEFINE r == [seq |-> sequenceNumber, key |-> k, val |-> v]
  <2>1. r \in Record
    BY DEF EngineTypeOK, Record
  <2>2. WriteRecord(r) /\ history' = Append(history, r) /\ pc # "recover"
    BY <1>1 DEF LogMutation
  <2> HIDE DEF r
  <2> QED
    BY <1>0, <2>1, <2>2, LogMutationHeld
<1>2. CASE WalSyncOnWrite \/ SyncMutation \/ EngineSync
  <2>1. SyncSucceeds /\ history' = history /\ pc # "recover"
    BY <1>0, <1>2 DEF WalSyncOnWrite, SyncMutation, EngineSync, SyncFails, Refused, SettledInv
  <2> QED
    BY <1>0, <2>1, SyncPipes, QuietHeld
<1>3. CASE ApplyMutation
  <2>1. SamePipes /\ history' = history /\ pc # "recover"
    BY <1>3 DEF ApplyMutation, SamePipes, Pipe, InFlightBytes, Carries, Current, walVars, recoverVars
  <2> QED
    BY <2>1, QuietHeld
<1>4. CASE EngineFlush
  <2>1. SamePipes /\ history' = history /\ pc # "recover"
    BY <1>0, <1>4, FlushPipes DEF EngineFlush, engineVars
  <2> QED
    BY <2>1, QuietHeld
<1>5. CASE DiskRefusesWrite
  BY <1>0, <1>5 DEF DiskRefusesWrite, StreamWriteFails, Refused
<1>6. CASE RecoverRecord \/ RecoverNextFile
  BY <1>6 DEF RecoverRecord, RecoverNextFile, Reading, HeldInv
<1>7. CASE RecoverDone
  BY <1>7, RecoverDoneHeld
<1>8. CASE RecoverCorrupt
  BY <1>8, NothingCorrupt
<1>9. CASE Shutdown \/ Crash
  BY <1>9 DEF Shutdown, Crash, StartRecovery, HeldInv
<1>10. CASE UNCHANGED vars
  <2>1. SamePipes /\ history' = history /\ pc' = pc
    BY <1>10 DEF vars, walVars, engineVars, SamePipes, Pipe, InFlightBytes, Carries, Current
  <2>2. CASE pc # "recover"
    BY <2>1, <2>2, QuietHeld
  <2>3. CASE pc = "recover"
    BY <2>1, <2>3 DEF HeldInv
  <2> QED
    BY <2>2, <2>3
<1>11. ASSUME NEW k \in Key, NEW v \in Value \cup {Tombstone}, MutationOverruns(k, v)
       PROVE  HeldInv'
  <2>1. SamePipes /\ history' = history /\ pc # "recover"
    BY <1>11 DEF MutationOverruns, Overrun, engineVars, SamePipes, Pipe, InFlightBytes, Carries,
                 Current
  <2> QED
    BY <2>1, QuietHeld
<1> QED
  BY <1>1, <1>2, <1>3, <1>4, <1>5, <1>6, <1>7, <1>8, <1>9, <1>10, <1>11
     DEF Next, Client, Recovery

\* The records in the log, with those on their way to it, are the mutations
\* accepted since the engine was opened and those it was opened with: none is
\* lost, repeated or out of order, however they fall into buffers and files
\* (wal.cpp 91-188, 258-340).
THEOREM LogAlwaysHoldsHistory ==
  ASSUME RecoverySound
  PROVE  Spec => []LogHoldsHistory
<1>1. Init => HeldInv
  BY InitHeld
<1>2. HeldInv /\ DurableInv /\ EngineInv /\ [Next]_vars => HeldInv'
  BY HeldStep DEF DurableInv, EngineInv
<1>3. HeldInv /\ DurableInv /\ EngineInv => LogHoldsHistory
  BY HeldIsHistory DEF DurableInv, EngineInv, RecoverySound
<1> QED
  BY <1>1, <1>2, <1>3, EngineInvariant, DurableInvariant, PTL DEF Spec
=============================================================================
