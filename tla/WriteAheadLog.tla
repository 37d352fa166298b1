--------------------------- MODULE WriteAheadLog ---------------------------
(***************************************************************************)
(* The write-ahead log of src/wal/wal.cpp: one append-only sequence of     *)
(* files, wal_0.log, wal_1.log, ..., written through two volatile layers,  *)
(*                                                                         *)
(*    write_buffer  ->  current_file (a std::ofstream)  ->  the file       *)
(*                                                                         *)
(* and made durable by an fsync of the current file only.  A byte string   *)
(* is a sequence of cells [rec, off]: cell number off of the encoding of   *)
(* record rec.  Field contents and checksums are abstracted to that; sizes *)
(* and the place where a write can be torn are kept.                       *)
(***************************************************************************)
EXTENDS Naturals, Sequences

CONSTANTS
  Key, Value,       \* what clients store
  Tombstone,        \* the value field of a delete record (an empty Slice)
  HeaderSize,       \* WalRecordHeader::kHeaderSize
  KeySize,          \* size of each key
  ValueSize,        \* size of each value
  BufferSize,       \* write_buffer.size(): WalOptions::buffer_size, at least 1
  MaxFileSize,      \* WalOptions::max_file_size
  SyncOnWrite,      \* WalOptions::sync_on_write
  MaxSequence,      \* bound: sequence numbers 1..MaxSequence are ever written
  CrashKinds,       \* environment: the crashes that happen
  TornWrites,       \* environment: may a crash cut a file inside a record?
  Faults            \* environment: may the OS refuse an open, a write or an fsync?

ASSUME SizesAssumption ==
  /\ Tombstone \notin Value
  /\ HeaderSize \in Nat \ {0}
  /\ KeySize \in [Key -> Nat]
  /\ ValueSize \in [Value -> Nat]
  /\ BufferSize \in Nat \ {0}
  /\ MaxFileSize \in Nat
  /\ MaxSequence \in Nat

ASSUME FlagsAssumption ==
  /\ SyncOnWrite \in BOOLEAN
  /\ TornWrites \in BOOLEAN
  /\ Faults \in BOOLEAN
  /\ CrashKinds \subseteq {"process", "power"}

VARIABLES
  files,            \* contents of wal_0.log, wal_1.log, ... as the OS has them
  synced,           \* how much of each file is known to be on the medium
  isOpen,           \* current_file.is_open(); the last of files is only the
                    \* place of the next file when current_file is not
  stream,           \* bytes inside current_file's stream buffer
  streamGood,       \* current_file.good()
  buffer,           \* write_buffer[0 .. buffer_offset)
  currentFileSize,  \* current_file_size
  syncPending,      \* WriteRecord has appended and is about to Sync
  overrun           \* the record whose copy ran past write_buffer, if any: what
                    \* the program does then is undefined, and not modelled

walVars ==
  <<files, synced, isOpen, stream, streamGood, buffer, currentFileSize, syncPending,
    overrun>>

-----------------------------------------------------------------------------
(* Records and their encoding.                                             *)

Record == [seq : Nat, key : Key, val : Value \cup {Tombstone}]

ValueSizeOf(r) == IF r.val = Tombstone THEN 0 ELSE ValueSize[r.val]

RecordSize(r) == HeaderSize + KeySize[r.key] + ValueSizeOf(r)

Cell == [rec : Record, off : Nat]

\* Cells first+1 .. first+size of the encoding of r.
Cells(r, first, size) == [i \in 1..size |-> [rec |-> r, off |-> first + i]]

HeaderBytes(r) == Cells(r, 0, HeaderSize)
KeyBytes(r)    == Cells(r, HeaderSize, KeySize[r.key])
ValueBytes(r)  == Cells(r, HeaderSize + KeySize[r.key], ValueSizeOf(r))

-----------------------------------------------------------------------------
(* The two volatile layers.                                                *)

Current == Len(files)           \* current_file_number + 1

\* What current_file.open may come to.
Opens == IF Faults THEN BOOLEAN ELSE {TRUE}

\* FlushBuffer: current_file.write(write_buffer); a failed stream ignores it.
Flushed(good, s, b) == IF good THEN s \o b ELSE s

\* Mutant of Room: the piece itself is forgotten.
RoomBeforeCopy(b, piece) == Len(b) <= BufferSize

\* Copy one piece into write_buffer, flushing first when it does not fit.  With
\* no file open FlushBuffer does nothing, and the piece goes behind the rest.
Room(b, piece) == Len(b) + Len(piece) <= BufferSize
StreamAfter(good, s, b, piece) == IF Room(b, piece) THEN s ELSE Flushed(good, s, b)
MadeRoom(open, b, piece) == IF open /\ ~Room(b, piece) THEN << >> ELSE b
BufferAfter(open, b, piece) == MadeRoom(open, b, piece) \o piece

\* write_buffer before and after each of the three copies of r into b.
Copies(open, r, b) ==
  LET b1 == BufferAfter(open, b, HeaderBytes(r))
      b2 == BufferAfter(open, b1, KeyBytes(r))
  IN  <<b, b1, b2, BufferAfter(open, b2, ValueBytes(r))>>

\* No copy runs past the end of write_buffer.
InBounds(copies) == \A i \in 1..4 : Len(copies[i]) <= BufferSize

\* The header, key and value of r, copied in that order on top of s and b.
AppendPieces(open, good, r, s, b) ==
  LET c == Copies(open, r, b)
      s1 == StreamAfter(good, s, c[1], HeaderBytes(r))
      s2 == StreamAfter(good, s1, c[2], KeyBytes(r))
  IN  /\ InBounds(c)
      /\ buffer' = c[4]
      /\ stream' = StreamAfter(good, s2, c[3], ValueBytes(r))

-----------------------------------------------------------------------------
(* Operations.                                                             *)

WalInit ==
  /\ files = << << >> >>
  /\ synced = <<0>>
  /\ isOpen \in Opens
  /\ stream = << >>
  /\ streamGood = isOpen
  /\ buffer = << >>
  /\ currentFileSize = 0
  /\ syncPending = FALSE
  /\ overrun = {}

\* Mutant of MustRotate: the size before the record decides.
MustRotateWhenFull(r) == currentFileSize >= MaxFileSize

MustRotate(r) == currentFileSize + RecordSize(r) > MaxFileSize

\* WriteRecord when the record fits the current file.
AppendToCurrent(r) ==
  /\ ~syncPending
  /\ ~MustRotate(r)
  /\ AppendPieces(isOpen, streamGood, r, stream, buffer)
  /\ currentFileSize' = currentFileSize + RecordSize(r)
  /\ syncPending' = SyncOnWrite
  /\ UNCHANGED <<files, synced, isOpen, streamGood, overrun>>

\* How much of the bytes handed to the OS it takes, when nobody looks.
Accepted(pending) ==
  IF streamGood /\ ~Faults THEN {Len(pending)} ELSE 0..Len(pending)

\* WriteRecord through RotateLog: flush, close without fsync, open the next
\* file.  The status of neither the write nor the open is looked at.
RotateAndAppend(r) ==
  /\ ~syncPending
  /\ MustRotate(r)
  /\ isOpen
  /\ LET pending == Flushed(streamGood, stream, buffer) IN
       \E n \in Accepted(pending) :
         files' = Append([files EXCEPT ![Current] = @ \o SubSeq(pending, 1, n)], << >>)
  /\ synced' = Append(synced, 0)
  /\ \E open \in Opens :
       /\ isOpen' = open
       /\ streamGood' = open
       /\ AppendPieces(open, open, r, << >>, << >>)
  /\ currentFileSize' = RecordSize(r)
  /\ syncPending' = SyncOnWrite
  /\ UNCHANGED overrun

\* The same with no file open: what waits in write_buffer stays there.
ReopenAndAppend(r) ==
  /\ ~syncPending
  /\ MustRotate(r)
  /\ ~isOpen
  /\ \E open \in Opens :
       /\ isOpen' = open
       /\ streamGood' = open
       /\ AppendPieces(open, open, r, << >>, buffer)
  /\ currentFileSize' = RecordSize(r)
  /\ syncPending' = SyncOnWrite
  /\ UNCHANGED <<files, synced, overrun>>

WriteRecord(r) == AppendToCurrent(r) \/ RotateAndAppend(r) \/ ReopenAndAppend(r)

\* Whether current_file is open, and what write_buffer holds, at the first
\* copy of WriteRecord.
CopyStarts(r) ==
  IF MustRotate(r) THEN {[open |-> o, left |-> IF isOpen THEN << >> ELSE buffer] : o \in Opens}
  ELSE {[open |-> isOpen, left |-> buffer]}

\* WriteRecord, when a copy does run past the end of write_buffer.
Overrun(r) ==
  /\ ~syncPending
  /\ \E start \in CopyStarts(r) :
       /\ ~InBounds(Copies(start.open, r, start.left))
       /\ overrun' = {[rec |-> r, open |-> start.open]}
  /\ UNCHANGED <<files, synced, isOpen, stream, streamGood, buffer, currentFileSize,
                 syncPending>>

\* Mutant of Flush: buffer_offset is not reset.
FlushKeepingBuffer ==
  /\ ~syncPending
  /\ stream' = Flushed(streamGood, stream, buffer)
  /\ UNCHANGED <<files, synced, isOpen, streamGood, buffer, currentFileSize, syncPending,
                 overrun>>

\* WriteAheadLog::Flush empties write_buffer into the stream, and no further;
\* with no file open it does nothing.
Flush ==
  /\ ~syncPending
  /\ stream' = Flushed(streamGood, stream, buffer)
  /\ buffer' = IF isOpen THEN << >> ELSE buffer
  /\ UNCHANGED <<files, synced, isOpen, streamGood, currentFileSize, syncPending, overrun>>

\* The OS takes only part of the bytes the stream hands it: badbit is set, and
\* stays set until the next file is opened.
Refused(pending) ==
  /\ Faults
  /\ streamGood
  /\ \E n \in 0..(Len(pending) - 1), dropRest \in BOOLEAN :
       /\ files' = [files EXCEPT ![Current] = @ \o SubSeq(pending, 1, n)]
       /\ stream' = IF dropRest THEN << >> ELSE SubSeq(pending, n + 1, Len(pending))
  /\ streamGood' = FALSE

\* Mutants of SyncSucceeds: write_buffer is not flushed first; the state of
\* the stream is not looked at.
SyncWithoutBuffer ==
  /\ streamGood
  /\ files' = [files EXCEPT ![Current] = @ \o stream]
  /\ synced' = [synced EXCEPT ![Current] = Len(files'[Current])]
  /\ stream' = << >>
  /\ syncPending' = FALSE
  /\ UNCHANGED <<isOpen, streamGood, buffer, currentFileSize, overrun>>

SyncAnyStream ==
  /\ files' = [files EXCEPT ![Current] = @ \o Flushed(streamGood, stream, buffer)]
  /\ synced' = [synced EXCEPT ![Current] = Len(files'[Current])]
  /\ stream' = << >>
  /\ buffer' = << >>
  /\ syncPending' = FALSE
  /\ UNCHANGED <<isOpen, streamGood, currentFileSize, overrun>>

\* Sync, all the way: buffer, stream, then fsync of the current file.
SyncSucceeds ==
  /\ streamGood
  /\ files' = [files EXCEPT ![Current] = @ \o (stream \o buffer)]
  /\ synced' = [synced EXCEPT ![Current] = Len(files'[Current])]
  /\ stream' = << >>
  /\ buffer' = << >>
  /\ syncPending' = FALSE
  /\ UNCHANGED <<isOpen, streamGood, currentFileSize, overrun>>

\* Sync returning IOError: no file is open, the stream is bad or turns bad, or
\* the fsync itself fails.  Only without a file does write_buffer stay.
SyncFails ==
  /\ \/ /\ ~streamGood
        /\ UNCHANGED <<files, stream, streamGood>>
     \/ Refused(stream \o buffer)
     \/ /\ streamGood
        /\ Faults
        /\ files' = [files EXCEPT ![Current] = @ \o (stream \o buffer)]
        /\ stream' = << >>
        /\ UNCHANGED streamGood
  /\ buffer' = IF isOpen THEN << >> ELSE buffer
  /\ syncPending' = FALSE
  /\ UNCHANGED <<synced, isOpen, currentFileSize, overrun>>

-----------------------------------------------------------------------------
(* The environment: a refused write, a shutdown, a crash.                  *)

\* The stream writes on its own, at any time, and is refused.
StreamWriteFails ==
  /\ Refused(stream)
  /\ UNCHANGED <<synced, isOpen, buffer, currentFileSize, syncPending, overrun>>

\* What is kept per file, when the constructor opens the highest-numbered one
\* there is, or finds none or cannot: then a new one has its place.
Slots(open, s, new) ==
  LET kept == IF isOpen THEN s ELSE SubSeq(s, 1, Len(s) - 1)
  IN  IF open /\ kept # << >> THEN kept ELSE Append(kept, new)

\* The constructor, over files with these contents, this much of them synced.
Reopened(contents, safe) ==
  /\ \E open \in Opens :
       /\ isOpen' = open
       /\ streamGood' = open
       /\ files' = Slots(open, contents, << >>)
       /\ synced' = Slots(open, safe, 0)
  /\ stream' = << >>
  /\ buffer' = << >>
  /\ currentFileSize' = Len(files'[Current'])
  /\ syncPending' = FALSE
  /\ UNCHANGED overrun

\* The destructor, then the constructor of the next run.
CloseAndReopen ==
  /\ ~syncPending
  /\ LET pending == Flushed(streamGood, stream, buffer) IN
       \E n \in Accepted(pending) :
         Reopened([files EXCEPT ![Current] = @ \o SubSeq(pending, 1, n)], synced)

\* What a file holds once the stream has spilled, and what a crash keeps.
Spilled(i) == IF i = Current THEN files[i] \o stream ELSE files[i]
Safe(kind, i) == IF kind = "power" THEN synced[i] ELSE Len(files[i])

AtRisk(kind) == {i \in DOMAIN files : Safe(kind, i) < Len(Spilled(i))}

AtRecordBoundary(data, n) == n > 0 => data[n].off = RecordSize(data[n].rec)

\* A crash, then the constructor.  write_buffer is lost; any prefix of the
\* stream may have been spilled; a power loss also takes any unsynced suffix
\* of any file.
CrashAndReopen(kind) ==
  \E cut \in [AtRisk(kind) -> UNION {Safe(kind, i)..Len(Spilled(i)) : i \in AtRisk(kind)}] :
    LET kept == [i \in DOMAIN files |->
                   IF i \in AtRisk(kind) THEN cut[i] ELSE Len(Spilled(i))] IN
      /\ \A i \in DOMAIN files :
           /\ kept[i] \in Safe(kind, i)..Len(Spilled(i))
           /\ ~TornWrites => AtRecordBoundary(Spilled(i), kept[i])
      /\ Reopened([i \in DOMAIN files |-> SubSeq(Spilled(i), 1, kept[i])],
                  IF kind = "power" THEN kept ELSE synced)

-----------------------------------------------------------------------------
(* The log on its own: any client, writing fresh sequence numbers.         *)

RecordsToWrite ==
  [seq : 1..MaxSequence, key : Key, val : Value \cup {Tombstone}]

WalNext ==
  /\ overrun = {}
  /\ \/ \E r \in RecordsToWrite : WriteRecord(r) \/ Overrun(r)
     \/ Flush
     \/ SyncSucceeds
     \/ SyncFails
     \/ StreamWriteFails
     \/ CloseAndReopen
     \/ \E kind \in CrashKinds : CrashAndReopen(kind)

WalSpec == WalInit /\ [][WalNext]_walVars

-----------------------------------------------------------------------------
(* Properties.                                                             *)

\* Types of the log's state (wal.cpp 51-65).
WalTypeOK ==
  /\ files \in Seq(Seq(Cell))
  /\ files # << >>
  /\ synced \in Seq(Nat)
  /\ Len(synced) = Len(files)
  /\ isOpen \in BOOLEAN
  /\ stream \in Seq(Cell)
  /\ streamGood \in BOOLEAN
  /\ buffer \in Seq(Cell)
  /\ currentFileSize \in Nat
  /\ syncPending \in BOOLEAN
  /\ overrun \subseteq [rec : Record, open : BOOLEAN]

\* A piece of r is longer than the whole of write_buffer.
Oversized(r) ==
  \/ HeaderSize > BufferSize
  \/ KeySize[r.key] > BufferSize
  \/ ValueSizeOf(r) > BufferSize

\* The three memcpy calls of WriteRecord run past write_buffer in two cases
\* only, which the code tests for nowhere: a header, key or value longer than
\* the buffer, and a file that could not be opened, for which FlushBuffer does
\* not reset buffer_offset.  No other mix of sizes, rotations, flushes,
\* failures and restarts leads there (wal.cpp 97-111, 156-179, 192-197).
BufferFits == \A o \in overrun : Oversized(o.rec) \/ ~o.open

\* What a file opened late finds waiting in write_buffer, at most.
Leftover == IF Faults THEN BufferSize ELSE 0

\* current_file_size, which is advanced when a record is buffered and never
\* corrected, still bounds what the current file will hold; it does not count
\* what waited in write_buffer for a file that could not be opened before.
SizeCoversFile ==
  isOpen => Len(files[Current]) + Len(stream) + Len(buffer) <= currentFileSize + Leftover

\* No file, closed or current, outgrows max_file_size when every record fits
\* one, across rotations, failed streams, restarts and crashes; only one that
\* was opened late may, by what write_buffer holds (wal.cpp 105-110, 123-127).
FilesWithinLimit ==
  (\A r \in RecordsToWrite : RecordSize(r) <= MaxFileSize)
    => \A i \in DOMAIN files : Len(files[i]) <= MaxFileSize + Leftover
=============================================================================
