------------------------ MODULE WriteAheadLogProofs ------------------------
(***************************************************************************)
(* The write-ahead log keeps its types, copies past the end of its write   *)
(* buffer only for an oversized piece or with no file open, and keeps its  *)
(* files within max_file_size, for any sizes of records, buffer and files  *)
(* and any crashes and failures.  Then what each operation does to the     *)
(* bytes a file holds or may still get.                                    *)
(***************************************************************************)
EXTENDS WriteAheadLog, SequenceTheorems, TLAPS

-----------------------------------------------------------------------------
(* Pieces and buffers.                                                     *)

\* The three pieces of a record are cell sequences of the expected lengths
\* (wal.cpp 139-179).
LEMMA PieceProperties ==
  ASSUME NEW r \in Record
  PROVE  /\ HeaderBytes(r) \in Seq(Cell) /\ Len(HeaderBytes(r)) = HeaderSize
         /\ KeyBytes(r) \in Seq(Cell) /\ Len(KeyBytes(r)) = KeySize[r.key]
         /\ ValueBytes(r) \in Seq(Cell) /\ Len(ValueBytes(r)) = ValueSizeOf(r)
         /\ HeaderSize \in Nat /\ KeySize[r.key] \in Nat /\ ValueSizeOf(r) \in Nat
<1>1. HeaderSize \in Nat /\ KeySize[r.key] \in Nat /\ ValueSizeOf(r) \in Nat
  <2>1. r.key \in Key /\ r.val \in Value \cup {Tombstone}
    BY DEF Record
  <2> QED
    BY <2>1, SizesAssumption DEF ValueSizeOf
<1>2. \A first, size \in Nat :
        Cells(r, first, size) \in Seq(Cell) /\ Len(Cells(r, first, size)) = size
  <2> SUFFICES ASSUME NEW first \in Nat, NEW size \in Nat
               PROVE  /\ Cells(r, first, size) \in [1..size -> Cell]
                      /\ Len(Cells(r, first, size)) = size
    BY SeqDef
  <2> QED
    BY DEF Cells, Cell
<1>3. 0 \in Nat /\ HeaderSize + KeySize[r.key] \in Nat
  BY <1>1
<1> QED
  BY <1>1, <1>2, <1>3, Zenon DEF HeaderBytes, KeyBytes, ValueBytes

\* Copying one piece: no byte is counted twice, and what leaves the buffer can
\* only go to the stream.
LEMMA CopyProperties ==
  ASSUME NEW s \in Seq(Cell), NEW b \in Seq(Cell), NEW piece \in Seq(Cell),
         NEW open \in BOOLEAN, NEW good \in BOOLEAN, open \/ ~good
  PROVE  /\ StreamAfter(good, s, b, piece) \in Seq(Cell)
         /\ BufferAfter(open, b, piece) \in Seq(Cell)
         /\ Len(StreamAfter(good, s, b, piece)) + Len(BufferAfter(open, b, piece))
              <= Len(s) + Len(b) + Len(piece)
<1> Len(s) \in Nat /\ Len(b) \in Nat /\ Len(piece) \in Nat
  BY LenProperties
<1>1. /\ b \o piece \in Seq(Cell) /\ Len(b \o piece) = Len(b) + Len(piece)
      /\ s \o b \in Seq(Cell) /\ Len(s \o b) = Len(s) + Len(b)
      /\ << >> \o piece = piece
  BY ConcatProperties, ConcatEmptySeq
<1>2. CASE Room(b, piece)
  BY <1>1, <1>2 DEF StreamAfter, BufferAfter, MadeRoom
<1>3. CASE ~Room(b, piece) /\ open
  <2>1. MadeRoom(open, b, piece) = << >>
    BY <1>3 DEF MadeRoom
  <2>2. BufferAfter(open, b, piece) = piece
    BY <1>1, <2>1 DEF BufferAfter
  <2>3. StreamAfter(good, s, b, piece) = IF good THEN s \o b ELSE s
    BY <1>3 DEF StreamAfter, Flushed
  <2> QED
    BY <1>1, <2>2, <2>3
<1>4. CASE ~Room(b, piece) /\ ~open
  <2>1. MadeRoom(open, b, piece) = b
    BY <1>4 DEF MadeRoom
  <2>2. StreamAfter(good, s, b, piece) = s
    BY <1>4 DEF StreamAfter, Flushed
  <2> QED
    BY <1>1, <2>1, <2>2 DEF BufferAfter
<1> QED
  BY <1>2, <1>3, <1>4

\* The three copies of a record, one by one.
LEMMA CopiesOneByOne ==
  ASSUME NEW open, NEW r, NEW b
  PROVE  LET c == Copies(open, r, b) IN
         /\ c[1] = b
         /\ c[2] = BufferAfter(open, c[1], HeaderBytes(r))
         /\ c[3] = BufferAfter(open, c[2], KeyBytes(r))
         /\ c[4] = BufferAfter(open, c[3], ValueBytes(r))
<1> DEFINE b1 == BufferAfter(open, b, HeaderBytes(r))
           b2 == BufferAfter(open, b1, KeyBytes(r))
           b3 == BufferAfter(open, b2, ValueBytes(r))
<1>1. Copies(open, r, b) = <<b, b1, b2, b3>>
  BY DEF Copies
<1>2. b1 = BufferAfter(open, b, HeaderBytes(r)) /\ b2 = BufferAfter(open, b1, KeyBytes(r))
      /\ b3 = BufferAfter(open, b2, ValueBytes(r))
  OBVIOUS
<1> HIDE DEF b1, b2, b3
<1> QED
  BY <1>1, <1>2

\* Copying a whole record on top of s and b.
LEMMA AppendPiecesProperties ==
  ASSUME NEW s \in Seq(Cell), NEW b \in Seq(Cell), NEW r \in Record,
         NEW open \in BOOLEAN, NEW good \in BOOLEAN, open \/ ~good,
         AppendPieces(open, good, r, s, b)
  PROVE  /\ stream' \in Seq(Cell)
         /\ buffer' \in Seq(Cell)
         /\ Len(buffer') <= BufferSize
         /\ Len(stream') + Len(buffer') <= Len(s) + Len(b) + RecordSize(r)
<1> DEFINE c == Copies(open, r, b)
           b1 == c[2]
           s1 == StreamAfter(good, s, b, HeaderBytes(r))
           b2 == c[3]
           s2 == StreamAfter(good, s1, b1, KeyBytes(r))
<1>a. /\ c[1] = b /\ b1 = BufferAfter(open, b, HeaderBytes(r))
      /\ b2 = BufferAfter(open, b1, KeyBytes(r))
      /\ c[4] = BufferAfter(open, b2, ValueBytes(r))
  BY CopiesOneByOne
<1>b. /\ InBounds(c) /\ buffer' = c[4]
      /\ stream' = StreamAfter(good, s2, b2, ValueBytes(r))
  BY <1>a DEF AppendPieces
<1> HIDE DEF c
<1>0. /\ HeaderBytes(r) \in Seq(Cell) /\ Len(HeaderBytes(r)) = HeaderSize
      /\ KeyBytes(r) \in Seq(Cell) /\ Len(KeyBytes(r)) = KeySize[r.key]
      /\ ValueBytes(r) \in Seq(Cell) /\ Len(ValueBytes(r)) = ValueSizeOf(r)
  BY PieceProperties
<1>1. /\ s1 \in Seq(Cell) /\ b1 \in Seq(Cell)
      /\ Len(s1) + Len(b1) <= Len(s) + Len(b) + HeaderSize
  <2> HIDE DEF b1
  <2> QED  BY <1>a, <1>0, CopyProperties
<1>2. /\ s2 \in Seq(Cell) /\ b2 \in Seq(Cell)
      /\ Len(s2) + Len(b2) <= Len(s1) + Len(b1) + KeySize[r.key]
  <2> HIDE DEF b1, s1, b2
  <2> QED  BY <1>a, <1>0, <1>1, CopyProperties
<1> HIDE DEF b2, s2
<1>3. /\ stream' \in Seq(Cell) /\ buffer' \in Seq(Cell)
      /\ Len(buffer') <= BufferSize
      /\ Len(stream') + Len(buffer') <= Len(s2) + Len(b2) + ValueSizeOf(r)
  <2>1. buffer' = BufferAfter(open, b2, ValueBytes(r))
    BY <1>a, <1>b
  <2>2. Len(buffer') <= BufferSize
    <3>1. 4 \in 1..4
      OBVIOUS
    <3> QED
      BY <1>b, <3>1 DEF InBounds
  <2>3. /\ StreamAfter(good, s2, b2, ValueBytes(r)) \in Seq(Cell)
        /\ BufferAfter(open, b2, ValueBytes(r)) \in Seq(Cell)
        /\ Len(StreamAfter(good, s2, b2, ValueBytes(r)))
             + Len(BufferAfter(open, b2, ValueBytes(r)))
             <= Len(s2) + Len(b2) + Len(ValueBytes(r))
    BY <1>0, <1>2, CopyProperties, Zenon
  <2> QED  BY <2>1, <2>2, <2>3, <1>b, <1>0
<1> HIDE DEF b1, s1
<1>4. /\ Len(s) \in Nat /\ Len(b) \in Nat /\ Len(s1) \in Nat /\ Len(b1) \in Nat
      /\ Len(s2) \in Nat /\ Len(b2) \in Nat /\ Len(stream') \in Nat /\ Len(buffer') \in Nat
  BY <1>1, <1>2, <1>3, LenProperties
<1>5. HeaderSize \in Nat /\ KeySize[r.key] \in Nat /\ ValueSizeOf(r) \in Nat
  BY PieceProperties
<1>6. Len(stream') + Len(buffer')
        <= Len(s) + Len(b) + HeaderSize + KeySize[r.key] + ValueSizeOf(r)
  <2>1. Len(s2) + Len(b2) <= Len(s) + Len(b) + HeaderSize + KeySize[r.key]
    BY <1>1, <1>2, <1>4, <1>5
  <2> QED
    BY <1>3, <1>4, <1>5, <2>1
<1>7. Len(s) + Len(b) + HeaderSize + KeySize[r.key] + ValueSizeOf(r)
        = Len(s) + Len(b) + RecordSize(r)
  BY <1>4, <1>5 DEF RecordSize
<1> QED
  BY <1>3, <1>6, <1>7

\* A stream that is not good takes nothing.
LEMMA AppendBad ==
  ASSUME NEW open \in BOOLEAN, NEW good \in BOOLEAN, NEW r \in Record, NEW s \in Seq(Cell),
         NEW b \in Seq(Cell), ~good, AppendPieces(open, good, r, s, b)
  PROVE  stream' = s
<1> DEFINE c == Copies(open, r, b)
           s1 == StreamAfter(good, s, c[1], HeaderBytes(r))
           s2 == StreamAfter(good, s1, c[2], KeyBytes(r))
<1>1. \A x, d, piece : StreamAfter(good, x, d, piece) = x
  BY DEF StreamAfter, Flushed
<1>2. stream' = StreamAfter(good, s2, c[3], ValueBytes(r))
  BY DEF AppendPieces
<1> HIDE DEF c
<1> QED
  BY <1>1, <1>2

\* With a file open, a piece no longer than write_buffer is copied within it.
LEMMA CopyInBounds ==
  ASSUME NEW b \in Seq(Cell), NEW piece \in Seq(Cell), Len(piece) <= BufferSize
  PROVE  Len(BufferAfter(TRUE, b, piece)) <= BufferSize
<1>1. /\ Len(b) \in Nat /\ Len(piece) \in Nat /\ BufferSize \in Nat
      /\ Len(b \o piece) = Len(b) + Len(piece) /\ << >> \o piece = piece
  BY LenProperties, ConcatProperties, ConcatEmptySeq, SizesAssumption
<1>2. CASE Room(b, piece)
  BY <1>1, <1>2 DEF BufferAfter, MadeRoom, Room
<1>3. CASE ~Room(b, piece)
  <2>1. MadeRoom(TRUE, b, piece) = << >>
    BY <1>3 DEF MadeRoom
  <2> QED
    BY <1>1, <2>1 DEF BufferAfter
<1> QED
  BY <1>2, <1>3

\* So are all three pieces of a record that is not oversized.
LEMMA RecordInBounds ==
  ASSUME NEW b \in Seq(Cell), NEW r \in Record, Len(b) <= BufferSize, ~Oversized(r)
  PROVE  InBounds(Copies(TRUE, r, b))
<1> DEFINE c == Copies(TRUE, r, b)
<1>1. /\ c[1] = b
      /\ c[2] = BufferAfter(TRUE, c[1], HeaderBytes(r))
      /\ c[3] = BufferAfter(TRUE, c[2], KeyBytes(r))
      /\ c[4] = BufferAfter(TRUE, c[3], ValueBytes(r))
  <2>1. ASSUME NEW open
        PROVE  /\ Copies(open, r, b)[1] = b
               /\ Copies(open, r, b)[2] = BufferAfter(open, Copies(open, r, b)[1], HeaderBytes(r))
               /\ Copies(open, r, b)[3] = BufferAfter(open, Copies(open, r, b)[2], KeyBytes(r))
               /\ Copies(open, r, b)[4] = BufferAfter(open, Copies(open, r, b)[3], ValueBytes(r))
    BY CopiesOneByOne
  <2> QED
    BY <2>1, Zenon
<1> HIDE DEF c
<1>2. /\ HeaderBytes(r) \in Seq(Cell) /\ KeyBytes(r) \in Seq(Cell) /\ ValueBytes(r) \in Seq(Cell)
      /\ Len(HeaderBytes(r)) <= BufferSize /\ Len(KeyBytes(r)) <= BufferSize
      /\ Len(ValueBytes(r)) <= BufferSize
  BY PieceProperties, SizesAssumption DEF Oversized
<1>c. \A x, piece \in Seq(Cell) :
        Len(piece) <= BufferSize
          => /\ BufferAfter(TRUE, x, piece) \in Seq(Cell)
             /\ Len(BufferAfter(TRUE, x, piece)) <= BufferSize
  <2> SUFFICES ASSUME NEW x \in Seq(Cell), NEW piece \in Seq(Cell), Len(piece) <= BufferSize
               PROVE  /\ BufferAfter(TRUE, x, piece) \in Seq(Cell)
                      /\ Len(BufferAfter(TRUE, x, piece)) <= BufferSize
    OBVIOUS
  <2>1. TRUE \in BOOLEAN /\ (TRUE \/ ~TRUE)
    OBVIOUS
  <2>2. BufferAfter(TRUE, x, piece) \in Seq(Cell)
    BY <2>1, CopyProperties, Zenon
  <2>3. Len(BufferAfter(TRUE, x, piece)) <= BufferSize
    BY CopyInBounds, Zenon
  <2> QED
    BY <2>2, <2>3, Zenon
<1>3. c[2] \in Seq(Cell) /\ Len(c[2]) <= BufferSize
  BY <1>1, <1>2, <1>c, Zenon
<1>4. c[3] \in Seq(Cell) /\ Len(c[3]) <= BufferSize
  BY <1>1, <1>2, <1>3, <1>c, Zenon
<1>5. Len(c[4]) <= BufferSize
  BY <1>1, <1>2, <1>4, <1>c, Zenon
<1>6. \A i \in 1..4 : i = 1 \/ i = 2 \/ i = 3 \/ i = 4
  OBVIOUS
<1>7. InBounds(c)
  BY <1>1, <1>3, <1>4, <1>5, <1>6 DEF InBounds
<1> QED
  BY <1>7 DEF c

-----------------------------------------------------------------------------
(* Files.                                                                  *)

\* Writing t at the end of the current file leaves the others alone.
LEMMA ExtendCurrent ==
  ASSUME WalTypeOK, NEW t \in Seq(Cell)
  PROVE  LET extended == [files EXCEPT ![Current] = @ \o t] IN
         /\ extended \in Seq(Seq(Cell))
         /\ Len(extended) = Len(files)
         /\ DOMAIN extended = DOMAIN files
         /\ \A i \in DOMAIN files :
              Len(extended[i]) = Len(files[i]) + (IF i = Current THEN Len(t) ELSE 0)
<1> DEFINE extended == [files EXCEPT ![Current] = @ \o t]
<1>1. /\ files \in Seq(Seq(Cell)) /\ Len(files) \in Nat \ {0}
      /\ DOMAIN files = 1..Len(files)
  BY LenProperties, EmptySeq DEF WalTypeOK
<1>2. Current \in 1..Len(files) /\ files[Current] \in Seq(Cell)
  BY <1>1, ElementOfSeq DEF Current
<1>3. files[Current] \o t \in Seq(Cell) /\ Len(files[Current] \o t) = Len(files[Current]) + Len(t)
  BY <1>2, ConcatProperties
<1>4. /\ extended = [files EXCEPT ![Current] = files[Current] \o t]
      /\ extended \in Seq(Seq(Cell))
      /\ Len(extended) = Len(files)
      /\ \A i \in 1..Len(files) :
           extended[i] = IF i = Current THEN files[Current] \o t ELSE files[i]
  BY <1>1, <1>2, <1>3, ExceptSeq
<1>5. DOMAIN extended = DOMAIN files
  BY <1>1, <1>4, LenProperties
<1>6. \A i \in 1..Len(files) : files[i] \in Seq(Cell) /\ Len(files[i]) \in Nat
  BY <1>1, ElementOfSeq, LenProperties
<1> HIDE DEF extended
<1>7. \A i \in DOMAIN files :
        Len(extended[i]) = Len(files[i]) + (IF i = Current THEN Len(t) ELSE 0)
  BY <1>1, <1>2, <1>3, <1>4, <1>6
<1> QED
  BY <1>4, <1>5, <1>7 DEF extended

-----------------------------------------------------------------------------
(* The inductive invariant.                                                *)

AllRecordsFit == \A r \in RecordsToWrite : RecordSize(r) <= MaxFileSize

\* What is synced of a file is in the file.
SyncedWithinFile == \A i \in DOMAIN files : synced[i] <= Len(files[i])

\* With no file open there is no stream, and the next file has nothing yet.
ClosedEmpty ==
  ~isOpen => /\ ~streamGood /\ stream = << >>
             /\ files[Current] = << >> /\ synced[Current] = 0

\* An OS that refuses nothing opens every file and writes every byte.
Healthy == ~Faults => isOpen /\ streamGood

\* What the current file holds or may still get.
Total == Len(files[Current]) + Len(stream) + Len(buffer)

\* SizeCoversFile is what makes FilesWithinLimit inductive: the limit is
\* tested against current_file_size, not against the file.
LogInv ==
  /\ WalTypeOK
  /\ Len(buffer) <= BufferSize
  /\ BufferFits
  /\ ClosedEmpty
  /\ Healthy
  /\ SizeCoversFile
  /\ SyncedWithinFile
  /\ AllRecordsFit /\ isOpen => Total <= MaxFileSize + Leftover
  /\ FilesWithinLimit

\* The state functions of LogInv have the sizes one expects.
LEMMA LogSizes ==
  ASSUME WalTypeOK
  PROVE  /\ Current \in DOMAIN files /\ Current \in Nat \ {0}
         /\ DOMAIN files = 1..Len(files) /\ DOMAIN synced = DOMAIN files
         /\ Len(stream) \in Nat /\ Len(buffer) \in Nat
         /\ \A i \in DOMAIN files :
              files[i] \in Seq(Cell) /\ Len(files[i]) \in Nat /\ synced[i] \in Nat
<1>1. Len(files) \in Nat \ {0} /\ DOMAIN files = 1..Len(files)
  BY LenProperties, EmptySeq DEF WalTypeOK
<1>2. DOMAIN synced = 1..Len(files)
  BY LenProperties DEF WalTypeOK
<1>3. \A i \in 1..Len(files) : files[i] \in Seq(Cell) /\ synced[i] \in Nat
  BY ElementOfSeq DEF WalTypeOK
<1>4. \A i \in 1..Len(files) : Len(files[i]) \in Nat
  BY <1>3, LenProperties
<1>5. Len(stream) \in Nat /\ Len(buffer) \in Nat
  BY LenProperties DEF WalTypeOK
<1> QED
  BY <1>1, <1>2, <1>3, <1>4, <1>5 DEF Current

\* The bounds are numbers.
LEMMA BoundsAreNumbers ==
  /\ MaxFileSize \in Nat /\ BufferSize \in Nat /\ Leftover \in Nat
  /\ Faults => Leftover = BufferSize
  /\ Faults \in BOOLEAN /\ SyncOnWrite \in BOOLEAN
  BY SizesAssumption, FlagsAssumption DEF Leftover

\* A record's size is a natural number (wal.cpp 121).
LEMMA RecordSizeNat ==
  ASSUME NEW r \in Record
  PROVE  RecordSize(r) \in Nat
<1>1. HeaderSize \in Nat /\ KeySize[r.key] \in Nat /\ ValueSizeOf(r) \in Nat
  BY PieceProperties
<1> QED
  BY <1>1 DEF RecordSize

\* A step whose bytes only move from buffer to stream to the current file,
\* or are lost on the way, keeps LogInv.  It may mark the current file as
\* synced.
LEMMA MovePreservesLogInv ==
  ASSUME LogInv, NEW t \in Seq(Cell),
         files' = [files EXCEPT ![Current] = @ \o t],
         stream' \in Seq(Cell), buffer' \in Seq(Cell),
         Len(buffer') <= Len(buffer),
         Len(t) + Len(stream') + Len(buffer') <= Len(stream) + Len(buffer),
         streamGood' \in BOOLEAN, syncPending' \in BOOLEAN,
         \/ synced' = synced
         \/ synced' = [synced EXCEPT ![Current] = Len(files'[Current])],
         UNCHANGED <<isOpen, currentFileSize, overrun>>,
         ClosedEmpty', Healthy'
  PROVE  LogInv'
<1> USE DEF LogInv
<1>1. /\ files' \in Seq(Seq(Cell)) /\ Len(files') = Len(files) /\ DOMAIN files' = DOMAIN files
      /\ \A i \in DOMAIN files :
           Len(files'[i]) = Len(files[i]) + (IF i = Current THEN Len(t) ELSE 0)
  BY ExtendCurrent
<1>2. Len(t) \in Nat /\ Len(stream') \in Nat /\ Len(buffer') \in Nat
  BY LenProperties
<1>3. files' # << >> /\ Current' = Current
  BY <1>1, LogSizes, EmptySeq DEF Current
<1>4. \A i \in DOMAIN files : Len(files'[i]) \in Nat
  BY <1>1, <1>2, LogSizes
<1>5. /\ synced' \in Seq(Nat) /\ Len(synced') = Len(synced)
      /\ \A i \in DOMAIN files :
           synced'[i] = synced[i] \/ (i = Current /\ synced'[i] = Len(files'[i]))
  <2>1. CASE synced' = synced
    BY <2>1 DEF WalTypeOK
  <2>2. CASE synced' = [synced EXCEPT ![Current] = Len(files'[Current])]
    <3>1. Current \in 1..Len(synced) /\ synced \in Seq(Nat)
      BY LogSizes DEF WalTypeOK
    <3> QED
      BY <2>2, <3>1, <1>4, LogSizes, ExceptSeq
  <2> QED
    BY <2>1, <2>2
<1>6. /\ Total \in Nat /\ Total' \in Nat /\ Total' <= Total
      /\ Len(files'[Current]) \in Nat /\ Len(files'[Current]) <= Total'
  <2>1. /\ Len(files[Current]) \in Nat /\ Len(stream) \in Nat /\ Len(buffer) \in Nat
    BY LogSizes
  <2>2. Len(files'[Current]) \in Nat /\ Len(files'[Current]) = Len(files[Current]) + Len(t)
    BY <1>1, <1>4, LogSizes
  <2>3. /\ Total = Len(files[Current]) + Len(stream) + Len(buffer)
        /\ Total' = Len(files'[Current]) + Len(stream') + Len(buffer')
    BY <1>3 DEF Total
  <2>4. Len(t) + Len(stream') + Len(buffer') <= Len(stream) + Len(buffer)
    OBVIOUS
  <2>5. Total \in Nat /\ Total' \in Nat
    BY ONLY <1>2, <2>1, <2>2, <2>3, SMTT(30)
  <2>6. Len(files'[Current]) <= Total'
    BY ONLY <1>2, <2>2, <2>3, SMTT(30)
  <2>7. Total' <= Total
    BY ONLY <1>2, <2>1, <2>2, <2>3, <2>4, SMTT(30)
  <2> QED
    BY ONLY <2>2, <2>5, <2>6, <2>7
<1>7. WalTypeOK'
  BY <1>1, <1>3, <1>5 DEF WalTypeOK
<1>8. SizeCoversFile'
  <2>1. SizeCoversFile <=> (isOpen => Total <= currentFileSize + Leftover)
    BY DEF SizeCoversFile, Total
  <2>2. SizeCoversFile' <=> (isOpen' => Total' <= currentFileSize' + Leftover)
    BY DEF SizeCoversFile, Total, Leftover
  <2>3. currentFileSize \in Nat
    BY DEF WalTypeOK
  <2> QED
    BY <1>6, <2>1, <2>2, <2>3, BoundsAreNumbers
<1>9. SyncedWithinFile'
  <2>1. ASSUME NEW i \in DOMAIN files
        PROVE  synced'[i] <= Len(files'[i])
    <3>1. synced[i] <= Len(files[i]) /\ synced[i] \in Nat /\ Len(files[i]) \in Nat
      BY LogSizes DEF SyncedWithinFile
    <3>2. Len(files[i]) <= Len(files'[i]) /\ Len(files'[i]) \in Nat
      BY <1>1, <1>2, <1>4, <3>1
    <3>3. synced'[i] = synced[i] \/ synced'[i] = Len(files'[i])
      BY <1>5
    <3> QED
      BY <3>1, <3>2, <3>3
  <2> QED
    BY <2>1, <1>1 DEF SyncedWithinFile
<1>10. AllRecordsFit /\ isOpen' => Total' <= MaxFileSize + Leftover
  BY <1>6, BoundsAreNumbers
<1>11. FilesWithinLimit'
  <2> SUFFICES ASSUME AllRecordsFit, NEW i \in DOMAIN files
               PROVE  Len(files'[i]) <= MaxFileSize + Leftover
    BY <1>1 DEF FilesWithinLimit, AllRecordsFit, Leftover
  <2>1. CASE i = Current /\ isOpen'
    BY <2>1, <1>6, <1>10, BoundsAreNumbers
  <2>2. CASE i = Current /\ ~isOpen'
    <3>1. files'[i] = << >>
      BY <1>3, <2>2 DEF ClosedEmpty
    <3> QED
      BY <3>1, BoundsAreNumbers
  <2>3. CASE i # Current
    <3>1. Len(files[i]) <= MaxFileSize + Leftover
      BY DEF FilesWithinLimit, AllRecordsFit
    <3> QED
      BY <2>3, <1>1, <3>1, LogSizes
  <2> QED
    BY <2>1, <2>2, <2>3
<1>12. BufferFits'
  BY DEF BufferFits, Oversized, ValueSizeOf
<1>13. Len(buffer') <= BufferSize
  BY <1>2, LogSizes, BoundsAreNumbers
<1> QED
  BY <1>7, <1>8, <1>9, <1>10, <1>11, <1>12, <1>13 DEF AllRecordsFit, Leftover

\* Adding nothing to the current file.
LEMMA ExtendByNothing ==
  ASSUME WalTypeOK
  PROVE  << >> \in Seq(Cell) /\ files = [files EXCEPT ![Current] = @ \o << >>]
<1>1. files[Current] \o << >> = files[Current]
  BY LogSizes, ConcatEmptySeq
<1>2. files = [files EXCEPT ![Current] = files[Current]]
  BY LogSizes, LenProperties DEF WalTypeOK
<1> QED
  BY <1>1, <1>2

\* Prefixes and suffixes of a cell sequence.
LEMMA CutProperties ==
  ASSUME NEW s \in Seq(Cell), NEW n \in 0..Len(s)
  PROVE  /\ SubSeq(s, 1, n) \in Seq(Cell) /\ Len(SubSeq(s, 1, n)) = n
         /\ SubSeq(s, n + 1, Len(s)) \in Seq(Cell)
         /\ Len(SubSeq(s, n + 1, Len(s))) = Len(s) - n
<1>1. Len(s) \in Nat /\ \A i \in 1..Len(s) : s[i] \in Cell
  BY LenProperties, ElementOfSeq
<1> QED
  BY <1>1, SubSeqProperties

\* What a stream may hold after FlushBuffer, on a good or a failed stream.
LEMMA FlushedProperties ==
  ASSUME NEW good \in BOOLEAN, NEW s \in Seq(Cell), NEW b \in Seq(Cell)
  PROVE  /\ Flushed(good, s, b) \in Seq(Cell)
         /\ Len(Flushed(good, s, b)) \in Nat
         /\ Len(Flushed(good, s, b)) <= Len(s) + Len(b)
  BY ConcatProperties, LenProperties DEF Flushed

-----------------------------------------------------------------------------
(* Each operation keeps LogInv.                                            *)

\* A new log is one empty file under empty buffers.
LEMMA InitLogInv == WalInit => LogInv
<1> SUFFICES ASSUME WalInit PROVE LogInv
  OBVIOUS
<1>1. /\ << >> \in Seq(Cell) /\ << << >> >> \in Seq(Seq(Cell)) /\ <<0>> \in Seq(Nat)
      /\ Len(<< >>) = 0 /\ Len(<< << >> >>) = 1 /\ Len(<<0>>) = 1
  OBVIOUS
<1>2. isOpen \in BOOLEAN /\ (~Faults => isOpen)
  BY BoundsAreNumbers DEF WalInit, Opens
<1>3. WalTypeOK
  BY <1>1, <1>2 DEF WalInit, WalTypeOK
<1>4. Current = 1 /\ DOMAIN files = {1} /\ files[1] = << >> /\ synced[1] = 0
  BY <1>1 DEF WalInit, Current
<1>5. ClosedEmpty /\ Healthy /\ BufferFits
  BY <1>2, <1>4 DEF WalInit, ClosedEmpty, Healthy, BufferFits
<1>6. Total = 0
  BY <1>1, <1>4 DEF WalInit, Total
<1>7. SizeCoversFile
  BY <1>1, <1>4, BoundsAreNumbers DEF WalInit, SizeCoversFile
<1> QED
  BY <1>1, <1>3, <1>4, <1>5, <1>6, <1>7, BoundsAreNumbers
     DEF WalInit, LogInv, SyncedWithinFile, FilesWithinLimit

\* WriteRecord within the current file, or with none open and none to be
\* opened yet (wal.cpp 156-183).
LEMMA AppendLogInv ==
  ASSUME LogInv, NEW r \in RecordsToWrite, AppendToCurrent(r)
  PROVE  LogInv'
<1>1. r \in Record /\ RecordSize(r) \in Nat
  BY RecordSizeNat, SizesAssumption DEF RecordsToWrite, Record
<1>2. WalTypeOK /\ currentFileSize \in Nat
  BY DEF LogInv, WalTypeOK
<1>3. /\ stream' \in Seq(Cell) /\ buffer' \in Seq(Cell)
      /\ Len(buffer') <= BufferSize
      /\ Len(stream') + Len(buffer') <= Len(stream) + Len(buffer) + RecordSize(r)
  <2>1. AppendPieces(isOpen, streamGood, r, stream, buffer)
    BY DEF AppendToCurrent
  <2>2. isOpen \/ ~streamGood
    BY DEF LogInv, ClosedEmpty
  <2> QED
    BY <1>1, <1>2, <2>1, <2>2, AppendPiecesProperties DEF WalTypeOK
<1>4. Len(stream') \in Nat /\ Len(buffer') \in Nat
  BY <1>3, LenProperties
<1>5. /\ files' = files /\ synced' = synced /\ streamGood' = streamGood
      /\ isOpen' = isOpen /\ overrun' = overrun
      /\ currentFileSize' = currentFileSize + RecordSize(r)
      /\ currentFileSize + RecordSize(r) <= MaxFileSize
      /\ syncPending' = SyncOnWrite
      /\ Current' = Current
  BY <1>1, <1>2, BoundsAreNumbers DEF AppendToCurrent, MustRotate, Current
<1>6. WalTypeOK'
  BY <1>1, <1>2, <1>3, <1>5, FlagsAssumption DEF WalTypeOK
<1>7. ~isOpen => stream' = << >>
  <2> SUFFICES ASSUME ~isOpen PROVE stream' = << >>
    OBVIOUS
  <2>1. stream = << >> /\ ~streamGood
    BY <1>2 DEF LogInv, ClosedEmpty, WalTypeOK
  <2>2. AppendPieces(isOpen, streamGood, r, stream, buffer)
    BY DEF AppendToCurrent
  <2>3. stream' = stream
    BY <1>1, <1>2, <2>1, <2>2, AppendBad DEF WalTypeOK
  <2> QED
    BY <2>1, <2>3
<1>8. ClosedEmpty' /\ Healthy' /\ BufferFits'
  BY <1>5, <1>7 DEF LogInv, ClosedEmpty, Healthy, BufferFits, Oversized, ValueSizeOf
<1>9. /\ Total \in Nat /\ Total' \in Nat /\ Total' <= Total + RecordSize(r)
      /\ isOpen => Total <= currentFileSize + Leftover
  <2>1. Len(files[Current]) \in Nat /\ Len(stream) \in Nat /\ Len(buffer) \in Nat
    BY <1>2, LogSizes
  <2>2. /\ Total = Len(files[Current]) + Len(stream) + Len(buffer)
        /\ Total' = Len(files[Current]) + Len(stream') + Len(buffer')
    BY <1>5 DEF Total
  <2>3. isOpen => Total <= currentFileSize + Leftover
    BY DEF LogInv, SizeCoversFile, Total
  <2> QED
    BY ONLY <1>1, <1>3, <1>4, <2>1, <2>2, <2>3
<1>10. SizeCoversFile'
  <2>1. SizeCoversFile' <=> (isOpen' => Total' <= currentFileSize' + Leftover)
    BY DEF SizeCoversFile, Total, Leftover
  <2> QED
    BY <1>1, <1>2, <1>5, <1>9, <2>1, BoundsAreNumbers
<1>11. isOpen' => Total' <= MaxFileSize + Leftover
  BY <1>1, <1>2, <1>5, <1>9, BoundsAreNumbers
<1>12. SyncedWithinFile' /\ FilesWithinLimit'
  BY <1>5 DEF LogInv, SyncedWithinFile, FilesWithinLimit, Leftover
<1> QED
  BY <1>3, <1>6, <1>8, <1>10, <1>11, <1>12 DEF LogInv, AllRecordsFit, Leftover

\* Adding an empty file at the end of the log.
LEMMA AppendEmptyFile ==
  ASSUME NEW fs \in Seq(Seq(Cell))
  PROVE  /\ Append(fs, << >>) \in Seq(Seq(Cell))
         /\ Append(fs, << >>) # << >>
         /\ Len(Append(fs, << >>)) = Len(fs) + 1
         /\ \A i \in 1..Len(fs) : Append(fs, << >>)[i] = fs[i]
         /\ Append(fs, << >>)[Len(fs) + 1] = << >>
  BY EmptySeq, AppendProperties

\* What the write that nobody looks at leaves in the current file.
LEMMA AcceptedBytes ==
  ASSUME WalTypeOK, NEW pending \in Seq(Cell), NEW n \in Accepted(pending)
  PROVE  /\ n \in 0..Len(pending)
         /\ (streamGood /\ ~Faults) => n = Len(pending)
  BY LenProperties DEF Accepted

\* WriteRecord through RotateLog (wal.cpp 123-127, 225-232).
LEMMA RotateLogInv ==
  ASSUME LogInv, NEW r \in RecordsToWrite, RotateAndAppend(r)
  PROVE  LogInv'
<1> DEFINE pending == Flushed(streamGood, stream, buffer)
<1>1. r \in Record /\ RecordSize(r) \in Nat
  BY RecordSizeNat, SizesAssumption DEF RecordsToWrite, Record
<1>2. WalTypeOK /\ streamGood \in BOOLEAN /\ isOpen
  BY DEF LogInv, WalTypeOK, RotateAndAppend
<1>3. pending \in Seq(Cell) /\ Len(pending) \in Nat /\ Len(pending) <= Len(stream) + Len(buffer)
  BY <1>2, FlushedProperties DEF WalTypeOK
<1>4. PICK n \in 0..Len(pending) :
        files' = Append([files EXCEPT ![Current] = @ \o SubSeq(pending, 1, n)], << >>)
  <2>1. PICK n \in Accepted(pending) :
          files' = Append([files EXCEPT ![Current] = @ \o SubSeq(pending, 1, n)], << >>)
    BY Zenon DEF RotateAndAppend
  <2>2. n \in 0..Len(pending)
    BY <1>2, <1>3, AcceptedBytes
  <2> QED
    BY <2>1, <2>2
<1> DEFINE t == SubSeq(pending, 1, n)
           old == [files EXCEPT ![Current] = @ \o t]
<1>5. t \in Seq(Cell) /\ Len(t) = n /\ n \in Nat /\ n <= Len(pending)
  <2> HIDE DEF pending
  <2> QED  BY <1>3, CutProperties
<1> HIDE DEF pending, t
<1>6. /\ old \in Seq(Seq(Cell)) /\ Len(old) = Len(files)
      /\ \A i \in DOMAIN files :
           Len(old[i]) = Len(files[i]) + (IF i = Current THEN n ELSE 0)
  BY <1>2, <1>5, ExtendCurrent
<1>7. files' = Append(old, << >>)
  BY <1>4 DEF t
<1> HIDE DEF old
<1>8. /\ files' \in Seq(Seq(Cell)) /\ files' # << >>
      /\ Len(files') = Len(files) + 1 /\ DOMAIN files' = 1..(Len(files) + 1)
      /\ \A i \in 1..Len(files) : files'[i] = old[i]
      /\ files'[Len(files) + 1] = << >>
  <2>1. Len(files) \in Nat
    BY <1>2, LenProperties DEF WalTypeOK
  <2>2. /\ files' \in Seq(Seq(Cell)) /\ files' # << >>
        /\ Len(files') = Len(old) + 1
        /\ \A i \in 1..Len(old) : files'[i] = old[i]
        /\ files'[Len(old) + 1] = << >>
    BY <1>6, <1>7, AppendEmptyFile
  <2>3. DOMAIN files' = 1..Len(files')
    BY <2>2, LenProperties
  <2> QED
    BY ONLY <1>6, <2>1, <2>2, <2>3
<1>9. /\ synced' \in Seq(Nat) /\ Len(synced') = Len(files')
      /\ \A i \in 1..Len(files) : synced'[i] = synced[i]
      /\ synced'[Len(files) + 1] = 0
  <2>1. synced' = Append(synced, 0) /\ synced \in Seq(Nat) /\ Len(synced) = Len(files)
    BY <1>2 DEF RotateAndAppend, WalTypeOK
  <2> QED
    BY <1>8, <2>1, AppendProperties
<1>a. PICK open \in Opens :
        isOpen' = open /\ streamGood' = open /\ AppendPieces(open, open, r, << >>, << >>)
  BY DEF RotateAndAppend
<1>b. open \in BOOLEAN /\ (~Faults => open)
  BY BoundsAreNumbers DEF Opens
<1>10. /\ stream' \in Seq(Cell) /\ buffer' \in Seq(Cell)
       /\ Len(buffer') <= BufferSize
       /\ Len(stream') + Len(buffer') <= RecordSize(r)
  <2> DEFINE none == << >>
  <2>1. none \in Seq(Cell) /\ Len(none) = 0 /\ AppendPieces(open, open, r, none, none)
    BY <1>a, EmptySeq
  <2> HIDE DEF none
  <2>2. /\ stream' \in Seq(Cell) /\ buffer' \in Seq(Cell)
        /\ Len(buffer') <= BufferSize
        /\ Len(stream') + Len(buffer') <= Len(none) + Len(none) + RecordSize(r)
    BY <1>1, <1>b, <2>1, AppendPiecesProperties
  <2> QED
    BY <1>1, <2>1, <2>2
<1>11. currentFileSize' = RecordSize(r) /\ syncPending' = SyncOnWrite /\ overrun' = overrun
  BY DEF RotateAndAppend
<1>12. WalTypeOK'
  BY <1>1, <1>2, <1>8, <1>9, <1>10, <1>11, <1>a, <1>b, FlagsAssumption DEF WalTypeOK
<1>13. Current' = Len(files) + 1 /\ Len(files'[Current']) = 0 /\ files'[Current'] = << >>
       /\ synced'[Current'] = 0
  BY <1>8, <1>9, EmptySeq DEF Current
<1>c. ~open => stream' = << >>
  <2> SUFFICES ASSUME ~open PROVE stream' = << >>
    OBVIOUS
  <2>1. << >> \in Seq(Cell)
    BY EmptySeq
  <2> QED
    BY <1>1, <1>a, <1>b, <2>1, AppendBad
<1>d. ClosedEmpty' /\ Healthy'
  BY <1>a, <1>b, <1>c, <1>13 DEF ClosedEmpty, Healthy
<1>e. BufferFits'
  BY <1>11 DEF LogInv, BufferFits, Oversized, ValueSizeOf
<1>f. Total' <= RecordSize(r) /\ Total' \in Nat
  <2>1. Len(stream') \in Nat /\ Len(buffer') \in Nat
    BY <1>10, LenProperties
  <2>2. Total' = Len(files'[Current']) + Len(stream') + Len(buffer')
    BY DEF Total
  <2> QED
    BY <1>1, <1>10, <1>13, <2>1, <2>2
<1>14. SizeCoversFile'
  <2>1. SizeCoversFile' <=> (isOpen' => Total' <= currentFileSize' + Leftover)
    BY DEF SizeCoversFile, Total, Leftover
  <2> QED
    BY <1>1, <1>11, <1>f, <2>1, BoundsAreNumbers
<1>15. ASSUME NEW i \in 1..Len(files)
       PROVE  /\ Len(files'[i]) \in Nat /\ Len(files[i]) \in Nat /\ synced[i] \in Nat
              /\ Len(files[i]) <= Len(files'[i])
              /\ i # Current => files'[i] = old[i] /\ Len(old[i]) = Len(files[i])
              /\ i = Current => Len(files'[i]) <= Total
  <2>1. /\ i \in DOMAIN files /\ Len(files[i]) \in Nat /\ synced[i] \in Nat
        /\ Len(stream) \in Nat /\ Len(buffer) \in Nat
    BY <1>2, LogSizes
  <2>2. Len(files'[i]) = Len(files[i]) + (IF i = Current THEN n ELSE 0)
    BY <1>6, <1>8, <2>1
  <2>4. i = Current => Len(files'[i]) <= Total
    BY <1>2, <1>3, <1>5, <2>1, <2>2 DEF Total
  <2>5. Len(files'[i]) \in Nat /\ Len(files[i]) <= Len(files'[i])
    BY <1>5, <2>1, <2>2
  <2>6. files'[i] = old[i]
    BY <1>8
  <2>7. i # Current => Len(files'[i]) = Len(files[i])
    BY <2>1, <2>2
  <2> QED
    BY <2>1, <2>4, <2>5, <2>6, <2>7
<1>16. SyncedWithinFile'
  <2>1. \A i \in 1..Len(files) : synced[i] <= Len(files[i])
    BY <1>2, LogSizes DEF LogInv, SyncedWithinFile
  <2>2. ASSUME NEW i \in 1..Len(files)
        PROVE  synced'[i] <= Len(files'[i])
    <3>1. synced[i] <= Len(files[i]) /\ synced'[i] = synced[i]
      BY <1>9, <2>1
    <3> QED
      BY <1>15, <3>1
  <2> QED
    BY <1>8, <1>9, <1>13, <1>2, <2>2, LogSizes DEF SyncedWithinFile, Current
<1>17. AllRecordsFit => Total' <= MaxFileSize + Leftover
  <2>1. AllRecordsFit => RecordSize(r) <= MaxFileSize
    BY DEF AllRecordsFit
  <2> QED
    BY <1>1, <1>f, <2>1, BoundsAreNumbers
<1>18. FilesWithinLimit'
  <2> SUFFICES ASSUME AllRecordsFit, NEW i \in 1..(Len(files) + 1)
               PROVE  Len(files'[i]) <= MaxFileSize + Leftover
    BY <1>8 DEF FilesWithinLimit, AllRecordsFit, Leftover
  <2>1. CASE i = Len(files) + 1
    BY <2>1, <1>13, BoundsAreNumbers
  <2>2. CASE i \in 1..Len(files) /\ i = Current
    <3>1. Total <= MaxFileSize + Leftover /\ Total \in Nat
      BY <1>2, LogSizes DEF LogInv, Total
    <3> QED
      BY <2>2, <3>1, <1>15, BoundsAreNumbers
  <2>3. CASE i \in 1..Len(files) /\ i # Current
    <3>1. Len(files[i]) <= MaxFileSize + Leftover
      BY <2>3, <1>2, LogSizes DEF LogInv, FilesWithinLimit, AllRecordsFit
    <3> QED
      BY <2>3, <3>1, <1>15
  <2> QED
    BY <1>2, <2>1, <2>2, <2>3, LogSizes
<1> QED
  BY <1>10, <1>12, <1>d, <1>e, <1>14, <1>16, <1>17, <1>18 DEF LogInv, AllRecordsFit, Leftover

\* WriteRecord through RotateLog with no file open: what waits in write_buffer
\* goes to the file that is opened, if it is.
LEMMA ReopenLogInv ==
  ASSUME LogInv, NEW r \in RecordsToWrite, ReopenAndAppend(r)
  PROVE  LogInv'
<1>1. r \in Record /\ RecordSize(r) \in Nat
  BY RecordSizeNat, SizesAssumption DEF RecordsToWrite, Record
<1>2. /\ WalTypeOK /\ ~isOpen /\ buffer \in Seq(Cell) /\ Len(buffer) \in Nat
      /\ Len(buffer) <= BufferSize /\ Faults
      /\ files[Current] = << >> /\ synced[Current] = 0
  BY LogSizes DEF LogInv, WalTypeOK, ReopenAndAppend, Healthy, ClosedEmpty
<1>3. PICK open \in Opens :
        isOpen' = open /\ streamGood' = open /\ AppendPieces(open, open, r, << >>, buffer)
  BY DEF ReopenAndAppend
<1>4. open \in BOOLEAN
  BY BoundsAreNumbers DEF Opens
<1>5. /\ stream' \in Seq(Cell) /\ buffer' \in Seq(Cell)
      /\ Len(buffer') <= BufferSize
      /\ Len(stream') + Len(buffer') <= Len(buffer) + RecordSize(r)
  <2> DEFINE none == << >>
  <2>1. none \in Seq(Cell) /\ Len(none) = 0 /\ AppendPieces(open, open, r, none, buffer)
    BY <1>3, EmptySeq
  <2> HIDE DEF none
  <2>2. /\ stream' \in Seq(Cell) /\ buffer' \in Seq(Cell)
        /\ Len(buffer') <= BufferSize
        /\ Len(stream') + Len(buffer') <= Len(none) + Len(buffer) + RecordSize(r)
    BY <1>1, <1>2, <1>4, <2>1, AppendPiecesProperties
  <2> QED
    BY <1>1, <1>2, <2>1, <2>2
<1>6. /\ currentFileSize' = RecordSize(r) /\ syncPending' = SyncOnWrite
      /\ UNCHANGED <<files, synced, overrun, Current>>
  BY DEF ReopenAndAppend, Current
<1>7. WalTypeOK'
  BY <1>1, <1>2, <1>3, <1>4, <1>5, <1>6, FlagsAssumption DEF WalTypeOK
<1>8. ~open => stream' = << >>
  <2> SUFFICES ASSUME ~open PROVE stream' = << >>
    OBVIOUS
  <2>1. << >> \in Seq(Cell)
    BY EmptySeq
  <2> QED
    BY <1>1, <1>2, <1>3, <1>4, <2>1, AppendBad
<1>9. ClosedEmpty' /\ Healthy' /\ BufferFits'
  BY <1>2, <1>3, <1>4, <1>6, <1>8
     DEF LogInv, ClosedEmpty, Healthy, BufferFits, Oversized, ValueSizeOf
<1>10. Total' \in Nat /\ Total' <= RecordSize(r) + Leftover
  <2>1. Len(stream') \in Nat /\ Len(buffer') \in Nat /\ Len(files'[Current']) = 0
    BY <1>2, <1>5, <1>6, LenProperties
  <2>2. Total' = Len(files'[Current']) + Len(stream') + Len(buffer')
    BY DEF Total
  <2> QED
    BY <1>1, <1>2, <1>5, <2>1, <2>2, BoundsAreNumbers
<1>11. SizeCoversFile'
  <2>1. SizeCoversFile' <=> (isOpen' => Total' <= currentFileSize' + Leftover)
    BY DEF SizeCoversFile, Total, Leftover
  <2> QED
    BY <1>6, <1>10, <2>1
<1>12. AllRecordsFit => Total' <= MaxFileSize + Leftover
  <2>1. AllRecordsFit => RecordSize(r) <= MaxFileSize
    BY DEF AllRecordsFit
  <2> QED
    BY <1>1, <1>10, <2>1, BoundsAreNumbers
<1>13. SyncedWithinFile' /\ FilesWithinLimit'
  BY <1>6 DEF LogInv, SyncedWithinFile, FilesWithinLimit, Leftover
<1> QED
  BY <1>5, <1>7, <1>9, <1>11, <1>12, <1>13 DEF LogInv, AllRecordsFit, Leftover

\* A copy that runs past write_buffer is one of an oversized piece, or one with
\* no file open.
LEMMA OverrunLogInv ==
  ASSUME LogInv, NEW r \in RecordsToWrite, Overrun(r)
  PROVE  LogInv'
<1>1. r \in Record
  BY SizesAssumption DEF RecordsToWrite, Record
<1>2. /\ buffer \in Seq(Cell) /\ Len(buffer) <= BufferSize /\ isOpen \in BOOLEAN
      /\ << >> \in Seq(Cell) /\ Len(<< >>) <= BufferSize
  BY EmptySeq, BoundsAreNumbers DEF LogInv, WalTypeOK
<1>3. PICK start \in CopyStarts(r) :
        /\ ~InBounds(Copies(start.open, r, start.left))
        /\ overrun' = {[rec |-> r, open |-> start.open]}
  BY DEF Overrun
<1>4. /\ start.open \in BOOLEAN /\ start.left \in Seq(Cell) /\ Len(start.left) <= BufferSize
  <2>1. CASE MustRotate(r)
    <3>1. PICK o \in Opens : start = [open |-> o, left |-> IF isOpen THEN << >> ELSE buffer]
      BY <2>1 DEF CopyStarts
    <3>2. o \in BOOLEAN
      BY DEF Opens
    <3>3. start.open = o /\ start.left = (IF isOpen THEN << >> ELSE buffer)
      BY <3>1
    <3> QED
      BY <1>2, <3>2, <3>3
  <2>2. CASE ~MustRotate(r)
    <3>1. start.open = isOpen /\ start.left = buffer
      BY <2>2 DEF CopyStarts
    <3> QED
      BY <1>2, <3>1
  <2> QED
    BY <2>1, <2>2
<1>5. Oversized(r) \/ ~start.open
  <2> SUFFICES ASSUME ~Oversized(r), start.open = TRUE PROVE FALSE
    BY <1>4
  <2> QED
    BY <1>1, <1>3, <1>4, RecordInBounds
<1>6. UNCHANGED <<files, synced, isOpen, stream, streamGood, buffer, currentFileSize, syncPending>>
  BY DEF Overrun
<1>7. BufferFits'
  BY <1>3, <1>5 DEF BufferFits, Oversized, ValueSizeOf
<1>8. WalTypeOK'
  BY <1>1, <1>3, <1>4, <1>6 DEF LogInv, WalTypeOK
<1> QED
  BY <1>6, <1>7, <1>8
     DEF LogInv, ClosedEmpty, Healthy, SizeCoversFile, Current, Total, SyncedWithinFile,
         FilesWithinLimit, AllRecordsFit, Leftover

\* Flush (wal.cpp 192-197).
LEMMA FlushLogInv ==
  ASSUME LogInv, Flush
  PROVE  LogInv'
<1> DEFINE t == << >>
<1>1. WalTypeOK
  BY DEF LogInv
<1>2. t \in Seq(Cell) /\ Len(t) = 0 /\ files = [files EXCEPT ![Current] = @ \o t]
  BY <1>1, ExtendByNothing, EmptySeq
<1>3. /\ files' = files /\ synced' = synced /\ Current' = Current
      /\ UNCHANGED <<isOpen, currentFileSize, overrun, streamGood>>
      /\ streamGood' \in BOOLEAN /\ syncPending' \in BOOLEAN
  BY <1>1 DEF Flush, WalTypeOK, Current
<1>4. CASE isOpen
  <2>1. /\ stream' \in Seq(Cell) /\ Len(stream') \in Nat
        /\ Len(stream') <= Len(stream) + Len(buffer)
    BY <1>1, FlushedProperties DEF Flush, WalTypeOK
  <2>2. buffer' = t
    BY <1>4 DEF Flush
  <2> HIDE DEF t
  <2>3. Len(t) + Len(stream') + Len(buffer') <= Len(stream) + Len(buffer)
    BY <1>1, <1>2, <2>1, <2>2, LogSizes
  <2>4. Len(buffer') <= Len(buffer) /\ buffer' \in Seq(Cell)
    BY <1>1, <1>2, <2>2, LogSizes
  <2>5. ClosedEmpty' /\ Healthy'
    BY <1>3, <1>4 DEF LogInv, ClosedEmpty, Healthy
  <2>6. files' = [files EXCEPT ![Current] = @ \o t]
    BY <1>2, <1>3
  <2> QED
    BY <1>2, <1>3, <2>1, <2>3, <2>4, <2>5, <2>6, MovePreservesLogInv
<1>5. CASE ~isOpen
  <2>1. stream' = stream /\ buffer' = buffer
    BY <1>5 DEF Flush, Flushed, LogInv, ClosedEmpty
  <2> QED
    BY <1>3, <2>1
       DEF LogInv, WalTypeOK, BufferFits, Oversized, ValueSizeOf, ClosedEmpty, Healthy,
           SizeCoversFile, Current, Total, SyncedWithinFile, FilesWithinLimit, AllRecordsFit,
           Leftover
<1> QED
  BY <1>4, <1>5

\* What Sync does to the bytes, whether or not the fsync succeeds.
LEMMA SyncMovesBytes ==
  ASSUME LogInv, isOpen,
         files' = [files EXCEPT ![Current] = @ \o (stream \o buffer)],
         stream' = << >>, buffer' = << >>,
         UNCHANGED <<isOpen, streamGood, currentFileSize, overrun>>, syncPending' = FALSE,
         \/ synced' = synced
         \/ synced' = [synced EXCEPT ![Current] = Len(files'[Current])]
  PROVE  LogInv'
<1> DEFINE t == stream \o buffer
<1>1. WalTypeOK
  BY DEF LogInv
<1>2. t \in Seq(Cell) /\ Len(t) = Len(stream) + Len(buffer)
  BY <1>1, ConcatProperties DEF WalTypeOK
<1>3. files' = [files EXCEPT ![Current] = @ \o t]
  OBVIOUS
<1> HIDE DEF t
<1>4. stream' \in Seq(Cell) /\ buffer' \in Seq(Cell) /\ Len(stream') = 0 /\ Len(buffer') = 0
  BY EmptySeq
<1>5. /\ Len(t) + Len(stream') + Len(buffer') <= Len(stream) + Len(buffer)
      /\ Len(buffer') <= Len(buffer)
  BY <1>1, <1>2, <1>4, LogSizes
<1>6. streamGood' \in BOOLEAN /\ syncPending' \in BOOLEAN
  BY <1>1 DEF WalTypeOK
<1>7. ClosedEmpty' /\ Healthy'
  BY DEF LogInv, ClosedEmpty, Healthy
<1> QED
  BY <1>2, <1>3, <1>4, <1>5, <1>6, <1>7, MovePreservesLogInv

\* Sync, when it returns OK (wal.cpp 199-223).
LEMMA SyncSucceedsLogInv ==
  ASSUME LogInv, SyncSucceeds
  PROVE  LogInv'
<1>1. isOpen
  BY DEF SyncSucceeds, LogInv, ClosedEmpty
<1> QED
  BY <1>1, SyncMovesBytes DEF SyncSucceeds

\* A write the OS refuses: the file grows by no more than was handed to it.
LEMMA RefusedLogInv ==
  ASSUME LogInv, NEW pending \in Seq(Cell), Refused(pending),
         buffer' \in Seq(Cell), Len(buffer') <= Len(buffer),
         Len(pending) + Len(buffer') <= Len(stream) + Len(buffer),
         UNCHANGED <<synced, isOpen, currentFileSize, overrun>>, syncPending' \in BOOLEAN
  PROVE  LogInv'
<1>1. WalTypeOK /\ isOpen /\ Faults
  BY DEF LogInv, Refused, ClosedEmpty
<1>2. Len(stream) \in Nat /\ Len(buffer) \in Nat /\ Len(pending) \in Nat /\ Len(buffer') \in Nat
  BY <1>1, LogSizes, LenProperties
<1>3. PICK n \in 0..(Len(pending) - 1), dropRest \in BOOLEAN :
        /\ files' = [files EXCEPT ![Current] = @ \o SubSeq(pending, 1, n)]
        /\ stream' = IF dropRest THEN << >> ELSE SubSeq(pending, n + 1, Len(pending))
  BY DEF Refused
<1> DEFINE t == SubSeq(pending, 1, n)
<1>4. /\ t \in Seq(Cell) /\ Len(t) = n /\ n \in Nat
      /\ SubSeq(pending, n + 1, Len(pending)) \in Seq(Cell)
      /\ Len(SubSeq(pending, n + 1, Len(pending))) = Len(pending) - n
  <2>1. n \in 0..Len(pending)
    BY <1>2
  <2> QED
    BY <2>1, CutProperties
<1>5. stream' \in Seq(Cell) /\ Len(stream') \in Nat /\ Len(stream') <= Len(pending) - n
  BY <1>2, <1>3, <1>4, EmptySeq
<1>6. streamGood' = FALSE
  BY DEF Refused
<1>7. Len(t) + Len(stream') + Len(buffer') <= Len(stream) + Len(buffer)
  BY <1>2, <1>4, <1>5
<1>8. files' = [files EXCEPT ![Current] = @ \o t]
  BY <1>3
<1>9. ClosedEmpty' /\ Healthy'
  BY <1>1 DEF ClosedEmpty, Healthy
<1> HIDE DEF t
<1> QED
  BY <1>4, <1>5, <1>6, <1>7, <1>8, <1>9, MovePreservesLogInv

\* Sync, when it returns IOError (wal.cpp 199-219).
LEMMA SyncFailsLogInv ==
  ASSUME LogInv, SyncFails
  PROVE  LogInv'
<1>1. /\ WalTypeOK /\ stream \in Seq(Cell) /\ buffer \in Seq(Cell)
      /\ Len(stream) \in Nat /\ Len(buffer) \in Nat
  BY LogSizes DEF LogInv, WalTypeOK
<1>2. /\ buffer' = IF isOpen THEN << >> ELSE buffer
      /\ UNCHANGED <<synced, isOpen, currentFileSize, overrun>> /\ syncPending' = FALSE
      /\ buffer' \in Seq(Cell) /\ Len(buffer') <= Len(buffer)
  BY <1>1, EmptySeq DEF SyncFails
<1>3. CASE UNCHANGED <<files, stream, streamGood>>
  <2> DEFINE t == << >>
  <2>1. t \in Seq(Cell) /\ Len(t) = 0 /\ files = [files EXCEPT ![Current] = @ \o t]
    BY <1>1, ExtendByNothing, EmptySeq
  <2> HIDE DEF t
  <2>2. /\ Len(t) + Len(stream') + Len(buffer') <= Len(stream) + Len(buffer)
        /\ stream' \in Seq(Cell) /\ streamGood' \in BOOLEAN /\ syncPending' \in BOOLEAN
    <3>1. Len(buffer') \in Nat
      BY <1>2, LenProperties
    <3>2. stream' = stream /\ streamGood' \in BOOLEAN
      BY <1>1, <1>3 DEF WalTypeOK
    <3>3. Len(t) + Len(stream') + Len(buffer') <= Len(stream) + Len(buffer)
      BY <1>1, <1>2, <2>1, <3>1, <3>2
    <3> QED
      BY <1>1, <1>2, <3>2, <3>3
  <2>3. files' = [files EXCEPT ![Current] = @ \o t]
    BY <1>3, <2>1
  <2>4. ClosedEmpty' /\ Healthy'
    BY <1>2, <1>3 DEF LogInv, ClosedEmpty, Healthy, Current
  <2> QED
    BY <1>2, <2>1, <2>2, <2>3, <2>4, MovePreservesLogInv
<1>4. CASE Refused(stream \o buffer)
  <2> DEFINE p == stream \o buffer
  <2>1. p \in Seq(Cell) /\ Len(p) = Len(stream) + Len(buffer)
    BY <1>1, ConcatProperties
  <2>2. Refused(p)
    BY <1>4
  <2> HIDE DEF p
  <2>3. buffer' = << >> /\ Len(<< >>) = 0
    BY <1>2, <2>2 DEF Refused, LogInv, ClosedEmpty
  <2>4. Len(p) + Len(buffer') <= Len(stream) + Len(buffer)
    BY <1>1, <2>1, <2>3
  <2> QED
    BY <1>2, <2>1, <2>2, <2>4, RefusedLogInv
<1>5. CASE /\ streamGood /\ streamGood' = streamGood
           /\ files' = [files EXCEPT ![Current] = @ \o (stream \o buffer)]
           /\ stream' = << >>
  <2>1. isOpen
    BY <1>5 DEF LogInv, ClosedEmpty
  <2> QED
    BY <1>2, <1>5, <2>1, SyncMovesBytes
<1> QED
  BY <1>3, <1>4, <1>5 DEF SyncFails

\* The stream's own write, refused.
LEMMA StreamWriteFailsLogInv ==
  ASSUME LogInv, StreamWriteFails
  PROVE  LogInv'
<1>1. /\ WalTypeOK /\ stream \in Seq(Cell) /\ buffer \in Seq(Cell)
      /\ Len(stream) \in Nat /\ Len(buffer) \in Nat
  BY LogSizes DEF LogInv, WalTypeOK
<1>2. /\ Refused(stream) /\ buffer' = buffer
      /\ UNCHANGED <<synced, isOpen, currentFileSize, overrun>> /\ syncPending' \in BOOLEAN
  BY <1>1 DEF StreamWriteFails, WalTypeOK
<1> QED
  BY <1>1, <1>2, RefusedLogInv

\* The files there are, when the constructor looks, and the slots it makes.
Kept == IF isOpen THEN Len(files) ELSE Len(files) - 1
SlotCount(open) == IF open /\ Kept # 0 THEN Kept ELSE Kept + 1

\* How many slots there are, at least and at most.
LEMMA SlotCounts ==
  ASSUME WalTypeOK, NEW open \in BOOLEAN
  PROVE  /\ Kept \in Nat /\ SlotCount(open) \in Nat \ {0}
         /\ Kept <= SlotCount(open) /\ SlotCount(open) <= Kept + 1
         /\ Kept <= Len(files) /\ Len(files) <= Kept + 1
         /\ isOpen => Kept = Len(files)
         /\ ~open => SlotCount(open) = Kept + 1
         /\ isOpen /\ open => SlotCount(open) = Len(files)
<1>1. Len(files) \in Nat \ {0} /\ isOpen \in BOOLEAN
  BY LogSizes DEF Current, WalTypeOK
<1> QED
  BY <1>1 DEF Kept, SlotCount

\* The constructor's slots: those there are, and one more for a new file.
LEMMA SlotsProperties ==
  ASSUME WalTypeOK, NEW open \in BOOLEAN, NEW S, NEW s \in Seq(S), NEW new \in S,
         Len(s) = Len(files)
  PROVE  /\ Slots(open, s, new) \in Seq(S) /\ Len(Slots(open, s, new)) = SlotCount(open)
         /\ \A i \in 1..SlotCount(open) :
              Slots(open, s, new)[i] = IF i <= Kept THEN s[i] ELSE new
<1> DEFINE kept == IF isOpen THEN s ELSE SubSeq(s, 1, Len(s) - 1)
<1>1. /\ Len(files) \in Nat \ {0} /\ isOpen \in BOOLEAN /\ \A i \in 1..Len(s) : s[i] \in S
      /\ Kept \in Nat
  BY LogSizes, ElementOfSeq, SlotCounts DEF Current, WalTypeOK
<1>2. kept \in Seq(S) /\ Len(kept) = Kept /\ \A i \in 1..Kept : kept[i] = s[i]
  <2>1. CASE isOpen
    BY <1>1, <2>1 DEF Kept
  <2>2. CASE ~isOpen
    <3>1. Len(s) - 1 \in 0..Len(s) /\ Kept = Len(s) - 1
      BY <1>1, <2>2 DEF Kept
    <3> QED
      BY <1>1, <2>2, <3>1, SubSeqProperties
  <2> QED
    BY <2>1, <2>2
<1>3. Slots(open, s, new) = IF open /\ kept # << >> THEN kept ELSE Append(kept, new)
  BY DEF Slots
<1> HIDE DEF kept
<1>5. kept # << >> <=> Kept # 0
  BY <1>1, <1>2, EmptySeq
<1>6. CASE open /\ Kept # 0
  <2>1. Slots(open, s, new) = kept /\ SlotCount(open) = Kept
    BY <1>3, <1>5, <1>6 DEF SlotCount
  <2> QED
    BY <1>1, <1>2, <2>1
<1>7. CASE ~(open /\ Kept # 0)
  <2>1. Slots(open, s, new) = Append(kept, new) /\ SlotCount(open) = Kept + 1
    BY <1>3, <1>5, <1>7 DEF SlotCount
  <2> QED
    BY <1>1, <1>2, <2>1, AppendProperties
<1> QED
  BY <1>6, <1>7

\* The constructor, over files that are within the limit and hold what is
\* synced of them.
LEMMA ReopenedLogInv ==
  ASSUME LogInv, NEW contents \in Seq(Seq(Cell)), NEW safe \in Seq(Nat),
         Reopened(contents, safe), Len(contents) = Len(files), Len(safe) = Len(files),
         \A i \in 1..Len(files) :
           /\ safe[i] <= Len(contents[i])
           /\ AllRecordsFit => Len(contents[i]) <= MaxFileSize + Leftover
  PROVE  /\ LogInv' /\ stream' = << >> /\ buffer' = << >> /\ streamGood' = isOpen'
         /\ Len(files') <= Len(files) + 1
         /\ isOpen => Len(files) <= Len(files')
         /\ isOpen /\ ~Faults => Len(files') = Len(files)
         /\ Len(files') \in Nat \ {0} /\ Len(synced') = Len(files')
         /\ \A i \in 1..Len(files') :
              \/ i <= Len(files) /\ files'[i] = contents[i] /\ synced'[i] = safe[i]
              \/ files'[i] = << >> /\ synced'[i] = 0 /\ ~(isOpen /\ i <= Len(files))
<1>1. WalTypeOK /\ isOpen \in BOOLEAN /\ Len(files) \in Nat \ {0}
  BY LogSizes DEF LogInv, WalTypeOK, Current
<1>2. PICK open \in Opens :
        /\ isOpen' = open /\ streamGood' = open
        /\ files' = Slots(open, contents, << >>) /\ synced' = Slots(open, safe, 0)
  BY DEF Reopened
<1>3. /\ stream' = << >> /\ buffer' = << >> /\ currentFileSize' = Len(files'[Current'])
      /\ syncPending' = FALSE /\ overrun' = overrun
  BY DEF Reopened
<1>4. open \in BOOLEAN /\ (~Faults => open) /\ << >> \in Seq(Cell) /\ 0 \in Nat /\ Len(<< >>) = 0
  BY EmptySeq, BoundsAreNumbers DEF Opens
<1> DEFINE m == Kept
           n == SlotCount(open)
<1>5. /\ files' \in Seq(Seq(Cell)) /\ Len(files') = n
      /\ \A i \in 1..n : files'[i] = IF i <= m THEN contents[i] ELSE << >>
  <2> DEFINE S == Seq(Cell)
             none == << >>
  <2>1. contents \in Seq(S) /\ none \in S
    BY <1>4
  <2> HIDE DEF S, none
  <2>2. /\ Slots(open, contents, none) \in Seq(S)
        /\ Len(Slots(open, contents, none)) = n
        /\ \A i \in 1..n : Slots(open, contents, none)[i] = IF i <= m THEN contents[i] ELSE none
    BY <1>1, <1>4, <2>1, SlotsProperties
  <2> QED
    BY <1>2, <2>2, Zenon DEF S, none
<1>6. /\ synced' \in Seq(Nat) /\ Len(synced') = n
      /\ \A i \in 1..n : synced'[i] = IF i <= m THEN safe[i] ELSE 0
  <2> DEFINE S == Nat
             none == 0
  <2>1. safe \in Seq(S) /\ none \in S
    BY <1>4
  <2> HIDE DEF S, none
  <2>2. /\ Slots(open, safe, none) \in Seq(S)
        /\ Len(Slots(open, safe, none)) = n
        /\ \A i \in 1..n : Slots(open, safe, none)[i] = IF i <= m THEN safe[i] ELSE none
    BY <1>1, <1>4, <2>1, SlotsProperties
  <2> QED
    BY <1>2, <2>2, Zenon DEF S, none
<1>7. /\ m \in Nat /\ n \in Nat \ {0} /\ m <= n /\ n <= m + 1 /\ m <= Len(files)
      /\ Len(files) <= m + 1
      /\ (isOpen => m = Len(files)) /\ (~open => n = m + 1)
      /\ (isOpen /\ open => n = Len(files))
  BY <1>1, <1>4, SlotCounts
<1> HIDE DEF m, n
<1>8. /\ Current' = n /\ n \in 1..n /\ files' # << >> /\ DOMAIN files' = 1..n
      /\ \A i \in 1..n : files'[i] \in Seq(Cell) /\ Len(files'[i]) \in Nat
  BY <1>5, <1>7, EmptySeq, LenProperties, ElementOfSeq DEF Current
<1>9. \A i \in 1..n :
        \/ i <= Len(files) /\ files'[i] = contents[i] /\ synced'[i] = safe[i]
        \/ files'[i] = << >> /\ synced'[i] = 0 /\ ~(isOpen /\ i <= Len(files))
  <2> SUFFICES ASSUME NEW i \in 1..n
               PROVE  \/ i <= Len(files) /\ files'[i] = contents[i] /\ synced'[i] = safe[i]
                      \/ files'[i] = << >> /\ synced'[i] = 0 /\ ~(isOpen /\ i <= Len(files))
    OBVIOUS
  <2>1. CASE i <= m
    <3>1. files'[i] = contents[i] /\ synced'[i] = safe[i]
      BY <1>5, <1>6, <2>1
    <3>2. i <= Len(files)
      BY <1>1, <1>7, <2>1
    <3> QED
      BY <3>1, <3>2
  <2>2. CASE ~(i <= m)
    <3>1. files'[i] = << >> /\ synced'[i] = 0
      BY <1>5, <1>6, <2>2
    <3>2. ~(isOpen /\ i <= Len(files))
      BY <1>1, <1>7, <2>2
    <3> QED
      BY <3>1, <3>2
  <2> QED
    BY <2>1, <2>2
<1>10. \A i \in 1..n :
         /\ synced'[i] <= Len(files'[i])
         /\ AllRecordsFit => Len(files'[i]) <= MaxFileSize + Leftover
  <2> SUFFICES ASSUME NEW i \in 1..n
               PROVE  /\ synced'[i] <= Len(files'[i])
                      /\ AllRecordsFit => Len(files'[i]) <= MaxFileSize + Leftover
    OBVIOUS
  <2>1. CASE i <= Len(files) /\ files'[i] = contents[i] /\ synced'[i] = safe[i]
    <3>1. i \in 1..Len(files)
      BY <1>1, <1>7, <2>1
    <3> QED
      BY <2>1, <3>1
  <2>2. CASE files'[i] = << >> /\ synced'[i] = 0
    BY <1>4, <2>2, BoundsAreNumbers
  <2> QED
    BY <1>9, <2>1, <2>2
<1>11. WalTypeOK'
  <2>1. currentFileSize' \in Nat
    BY <1>3, <1>8
  <2> QED
    BY <1>1, <1>2, <1>3, <1>4, <1>5, <1>6, <1>8, <2>1 DEF WalTypeOK
<1>12. ClosedEmpty' /\ Healthy'
  <2>1. ~open => files'[n] = << >> /\ synced'[n] = 0
    BY <1>5, <1>6, <1>7
  <2> QED
    BY <1>2, <1>3, <1>4, <1>8, <2>1 DEF ClosedEmpty, Healthy
<1>13. BufferFits' /\ Len(buffer') <= BufferSize
  BY <1>3, <1>4, BoundsAreNumbers DEF LogInv, BufferFits, Oversized, ValueSizeOf
<1>14. Total' = Len(files'[n]) /\ Len(files'[n]) \in Nat /\ currentFileSize' = Len(files'[n])
  <2>1. Total' = Len(files'[n]) + Len(stream') + Len(buffer')
    BY <1>8 DEF Total
  <2> QED
    BY <1>3, <1>4, <1>8, <2>1
<1>15. SizeCoversFile'
  <2>1. SizeCoversFile' <=> (isOpen' => Total' <= currentFileSize' + Leftover)
    BY DEF SizeCoversFile, Total, Leftover
  <2> QED
    BY <1>14, <2>1, BoundsAreNumbers
<1>16. SyncedWithinFile'
  BY <1>8, <1>10 DEF SyncedWithinFile
<1>17. AllRecordsFit => Total' <= MaxFileSize + Leftover
  BY <1>8, <1>10, <1>14
<1>18. FilesWithinLimit'
  BY <1>8, <1>10 DEF FilesWithinLimit, AllRecordsFit, Leftover
<1>19. LogInv'
  BY <1>11, <1>12, <1>13, <1>15, <1>16, <1>17, <1>18 DEF LogInv, AllRecordsFit, Leftover
<1> QED
  BY <1>1, <1>2, <1>3, <1>4, <1>5, <1>6, <1>7, <1>9, <1>19

\* What the destructor leaves in the files.
LEMMA ClosedContents ==
  ASSUME LogInv, CloseAndReopen
  PROVE  \E contents \in Seq(Seq(Cell)), n \in 0..Len(Flushed(streamGood, stream, buffer)) :
           /\ Reopened(contents, synced)
           /\ n \in Accepted(Flushed(streamGood, stream, buffer))
           /\ contents = [files EXCEPT ![Current] =
                            @ \o SubSeq(Flushed(streamGood, stream, buffer), 1, n)]
<1> DEFINE pending == Flushed(streamGood, stream, buffer)
<1>1. WalTypeOK /\ streamGood \in BOOLEAN
  BY DEF LogInv, WalTypeOK
<1>2. pending \in Seq(Cell)
  BY <1>1, FlushedProperties DEF WalTypeOK
<1>3. PICK n \in Accepted(pending) :
        Reopened([files EXCEPT ![Current] = @ \o SubSeq(pending, 1, n)], synced)
  BY Zenon DEF CloseAndReopen
<1> HIDE DEF pending
<1>4. n \in 0..Len(pending)
  BY <1>1, <1>2, AcceptedBytes
<1>5. SubSeq(pending, 1, n) \in Seq(Cell)
  BY <1>2, <1>4, CutProperties
<1>6. [files EXCEPT ![Current] = @ \o SubSeq(pending, 1, n)] \in Seq(Seq(Cell))
  BY <1>1, <1>5, ExtendCurrent
<1> QED
  BY <1>3, <1>4, <1>6 DEF pending

\* What the destructor leaves is within the limit, and holds what was synced.
LEMMA ClosedSizes ==
  ASSUME LogInv, NEW contents, NEW n \in 0..Len(Flushed(streamGood, stream, buffer)),
         contents = [files EXCEPT ![Current] =
                       @ \o SubSeq(Flushed(streamGood, stream, buffer), 1, n)]
  PROVE  /\ Len(contents) = Len(files)
         /\ \A i \in 1..Len(files) :
              /\ synced[i] <= Len(contents[i])
              /\ AllRecordsFit => Len(contents[i]) <= MaxFileSize + Leftover
<1> DEFINE pending == Flushed(streamGood, stream, buffer)
<1>1. WalTypeOK /\ streamGood \in BOOLEAN
  BY DEF LogInv, WalTypeOK
<1>2. pending \in Seq(Cell) /\ Len(pending) \in Nat /\ Len(pending) <= Len(stream) + Len(buffer)
  BY <1>1, FlushedProperties DEF WalTypeOK
<1>3. n \in 0..Len(pending) /\ contents = [files EXCEPT ![Current] = @ \o SubSeq(pending, 1, n)]
  OBVIOUS
<1> DEFINE t == SubSeq(pending, 1, n)
<1>4. t \in Seq(Cell) /\ Len(t) = n /\ n \in Nat /\ n <= Len(pending)
  <2> HIDE DEF pending
  <2> QED  BY ONLY <1>2, <1>3, CutProperties
<1> HIDE DEF pending
<1>5. contents = [files EXCEPT ![Current] = @ \o t]
  BY <1>3
<1> HIDE DEF t
<1>6. /\ Len(contents) = Len(files) /\ DOMAIN files = 1..Len(files)
      /\ \A i \in DOMAIN files :
           Len(contents[i]) = Len(files[i]) + (IF i = Current THEN Len(t) ELSE 0)
      /\ Len(t) \in Nat /\ \A i \in DOMAIN files : Len(files[i]) \in Nat
  BY <1>1, <1>4, <1>5, ExtendCurrent, LogSizes
<1>c. ASSUME NEW i \in 1..Len(files)
      PROVE  /\ i # Current => Len(contents[i]) = Len(files[i])
             /\ i = Current => Len(contents[i]) = Len(files[i]) + Len(t)
  <2>1. Len(contents[i]) = Len(files[i]) + (IF i = Current THEN Len(t) ELSE 0)
        /\ Len(files[i]) \in Nat
    BY <1>6
  <2>2. CASE i = Current
    BY <2>1, <2>2
  <2>3. CASE i # Current
    BY <2>1, <2>3
  <2> QED
    BY <2>2, <2>3
<1>7. ASSUME NEW i \in 1..Len(files)
      PROVE  /\ synced[i] <= Len(contents[i])
             /\ AllRecordsFit => Len(contents[i]) <= MaxFileSize + Leftover
  <2>1. /\ Len(files[i]) \in Nat /\ synced[i] \in Nat /\ synced[i] <= Len(files[i])
        /\ AllRecordsFit => Len(files[i]) <= MaxFileSize + Leftover
    BY <1>1, <1>6, LogSizes DEF LogInv, SyncedWithinFile, FilesWithinLimit, AllRecordsFit
  <2>2. CASE i # Current
    <3>1. Len(contents[i]) = Len(files[i])
      BY <1>c, <2>2
    <3> QED
      BY ONLY <2>1, <3>1
  <2>3. CASE i = Current /\ ~isOpen
    <3>1. Len(t) = 0 /\ Len(contents[i]) = Len(files[i]) + Len(t)
      <4>1. pending = << >> /\ Len(pending) = 0
        BY <2>3, EmptySeq DEF pending, LogInv, ClosedEmpty, Flushed
      <4> QED
        BY <1>4, <1>c, <2>3, <4>1
    <3> QED
      BY ONLY <2>1, <3>1
  <2>4. CASE i = Current /\ isOpen
    <3>1. AllRecordsFit => Total <= MaxFileSize + Leftover
      BY <2>4 DEF LogInv
    <3>2. Total = Len(files[i]) + Len(stream) + Len(buffer)
      BY <2>4 DEF Total
    <3>3. Len(stream) \in Nat /\ Len(buffer) \in Nat /\ Len(contents[i]) = Len(files[i]) + Len(t)
      BY <1>1, <1>6, <2>4, LogSizes
    <3> QED
      BY ONLY <1>2, <1>4, <2>1, <3>1, <3>2, <3>3, BoundsAreNumbers
  <2> QED
    BY <2>2, <2>3, <2>4
<1> QED
  BY <1>6, <1>7

\* The destructor and the next constructor (wal.cpp 66-95).
LEMMA CloseAndReopenLogInv ==
  ASSUME LogInv, CloseAndReopen
  PROVE  LogInv'
<1>1. PICK contents \in Seq(Seq(Cell)), n \in 0..Len(Flushed(streamGood, stream, buffer)) :
        /\ Reopened(contents, synced)
        /\ contents = [files EXCEPT ![Current] =
                         @ \o SubSeq(Flushed(streamGood, stream, buffer), 1, n)]
  BY ClosedContents
<1>2. /\ Len(contents) = Len(files)
      /\ \A i \in 1..Len(files) :
           /\ synced[i] <= Len(contents[i])
           /\ AllRecordsFit => Len(contents[i]) <= MaxFileSize + Leftover
  BY <1>1, ClosedSizes
<1>3. synced \in Seq(Nat) /\ Len(synced) = Len(files)
  BY DEF LogInv, WalTypeOK
<1> QED
  BY <1>1, <1>2, <1>3, ReopenedLogInv

\* What a file holds once the stream has spilled: its own cells and, if it is
\* the current file, the stream's.
LEMMA SpilledProperties ==
  ASSUME LogInv, NEW i \in DOMAIN files
  PROVE  /\ Spilled(i) \in Seq(Cell)
         /\ Len(Spilled(i)) = Len(files[i]) + (IF i = Current THEN Len(stream) ELSE 0)
         /\ Len(files[i]) \in Nat /\ synced[i] \in Nat /\ Len(stream) \in Nat
         /\ synced[i] <= Len(files[i])
<1>1. /\ files[i] \in Seq(Cell) /\ Len(files[i]) \in Nat /\ synced[i] \in Nat
      /\ stream \in Seq(Cell) /\ Len(stream) \in Nat
  BY LogSizes DEF LogInv, WalTypeOK
<1>2. /\ files[i] \o stream \in Seq(Cell)
      /\ Len(files[i] \o stream) = Len(files[i]) + Len(stream)
  BY <1>1, ConcatProperties
<1>3. synced[i] <= Len(files[i])
  BY DEF LogInv, SyncedWithinFile
<1>4. CASE i = Current
  BY <1>1, <1>2, <1>3, <1>4 DEF Spilled
<1>5. CASE i # Current
  BY <1>1, <1>3, <1>5 DEF Spilled
<1> QED
  BY <1>4, <1>5

\* What a crash leaves in the files.
LEMMA CrashContents ==
  ASSUME LogInv, NEW kind \in {"process", "power"}, CrashAndReopen(kind)
  PROVE  \E contents \in Seq(Seq(Cell)), kept \in Seq(Nat) :
           /\ Reopened(contents, IF kind = "power" THEN kept ELSE synced)
           /\ Len(contents) = Len(files) /\ Len(kept) = Len(files)
           /\ \A i \in 1..Len(files) :
                /\ kept[i] \in 0..Len(Spilled(i)) /\ kept[i] >= Safe(kind, i)
                /\ contents[i] = SubSeq(Spilled(i), 1, kept[i])
                /\ Len(contents[i]) = kept[i]
                /\ ~TornWrites => AtRecordBoundary(Spilled(i), kept[i])
<1>1. WalTypeOK /\ DOMAIN files = 1..Len(files) /\ Len(files) \in Nat
  BY LogSizes DEF LogInv, WalTypeOK, Current
<1>2. PICK cut \in [AtRisk(kind) -> UNION {Safe(kind, i)..Len(Spilled(i)) : i \in AtRisk(kind)}] :
        LET kept == [i \in DOMAIN files |->
                       IF i \in AtRisk(kind) THEN cut[i] ELSE Len(Spilled(i))] IN
          /\ \A i \in DOMAIN files :
               /\ kept[i] \in Safe(kind, i)..Len(Spilled(i))
               /\ ~TornWrites => AtRecordBoundary(Spilled(i), kept[i])
          /\ Reopened([i \in DOMAIN files |-> SubSeq(Spilled(i), 1, kept[i])],
                      IF kind = "power" THEN kept ELSE synced)
  BY DEF CrashAndReopen
<1> DEFINE kept == [i \in DOMAIN files |->
                      IF i \in AtRisk(kind) THEN cut[i] ELSE Len(Spilled(i))]
           contents == [i \in DOMAIN files |-> SubSeq(Spilled(i), 1, kept[i])]
<1>3. /\ \A i \in DOMAIN files :
           /\ kept[i] \in Safe(kind, i)..Len(Spilled(i))
           /\ ~TornWrites => AtRecordBoundary(Spilled(i), kept[i])
      /\ Reopened(contents, IF kind = "power" THEN kept ELSE synced)
  BY <1>2
<1>4. DOMAIN kept = 1..Len(files)
  BY <1>1
<1> HIDE DEF kept
<1>5. ASSUME NEW i \in 1..Len(files)
      PROVE  /\ kept[i] \in Nat /\ kept[i] \in 0..Len(Spilled(i)) /\ kept[i] >= Safe(kind, i)
             /\ contents[i] \in Seq(Cell) /\ Len(contents[i]) = kept[i]
             /\ contents[i] = SubSeq(Spilled(i), 1, kept[i])
  <2>1. /\ Spilled(i) \in Seq(Cell) /\ Len(Spilled(i)) \in Nat /\ Safe(kind, i) \in Nat
    BY <1>1, SpilledProperties, LenProperties DEF Safe
  <2>2. kept[i] \in Safe(kind, i)..Len(Spilled(i))
    BY <1>1, <1>3
  <2>3. kept[i] \in 0..Len(Spilled(i)) /\ kept[i] \in Nat /\ kept[i] >= Safe(kind, i)
    BY <2>1, <2>2
  <2>4. contents[i] = SubSeq(Spilled(i), 1, kept[i])
    BY <1>1
  <2> QED
    BY <2>1, <2>3, <2>4, CutProperties
<1>6. kept \in Seq(Nat) /\ Len(kept) = Len(files)
  <2>1. kept \in [1..Len(files) -> Nat]
    <3>1. kept = [i \in 1..Len(files) |-> kept[i]]
      BY <1>1 DEF kept
    <3> QED
      BY <1>5, <3>1
  <2> QED
    BY <1>1, <2>1, SeqDef
<1>7. contents \in Seq(Seq(Cell)) /\ Len(contents) = Len(files)
  <2>1. DOMAIN contents = 1..Len(files) /\ contents \in [1..Len(files) -> Seq(Cell)]
    BY <1>1, <1>5
  <2> HIDE DEF contents
  <2> DEFINE T == Seq(Cell)
  <2> HIDE DEF T
  <2>2. contents \in [1..Len(files) -> T]
    BY <2>1 DEF T
  <2>3. contents \in Seq(T) /\ Len(contents) = Len(files)
    BY <1>1, <2>2, SeqDef
  <2> QED
    BY <2>3 DEF T
<1> HIDE DEF contents
<1> QED
  BY <1>1, <1>3, <1>5, <1>6, <1>7

\* What a crash leaves is within the limit, and holds what is then synced.
LEMMA CrashSizes ==
  ASSUME LogInv, NEW kind \in CrashKinds, NEW contents, NEW kept,
         \A i \in 1..Len(files) :
           /\ kept[i] \in 0..Len(Spilled(i)) /\ kept[i] >= Safe(kind, i)
           /\ Len(contents[i]) = kept[i]
  PROVE  LET safe == IF kind = "power" THEN kept ELSE synced IN
         \A i \in 1..Len(files) :
           /\ safe[i] <= Len(contents[i])
           /\ AllRecordsFit => Len(contents[i]) <= MaxFileSize + Leftover
<1>1. WalTypeOK /\ DOMAIN files = 1..Len(files)
  BY LogSizes DEF LogInv
<1> DEFINE safe == IF kind = "power" THEN kept ELSE synced
<1>4. ASSUME NEW i \in 1..Len(files)
      PROVE  /\ safe[i] <= Len(contents[i])
             /\ AllRecordsFit => Len(contents[i]) <= MaxFileSize + Leftover
  <2>1. /\ Len(Spilled(i)) = Len(files[i]) + (IF i = Current THEN Len(stream) ELSE 0)
        /\ Len(files[i]) \in Nat /\ synced[i] \in Nat /\ Len(stream) \in Nat
        /\ synced[i] <= Len(files[i])
    BY <1>1, SpilledProperties
  <2>2. kept[i] \in Nat /\ kept[i] <= Len(Spilled(i)) /\ Len(contents[i]) = kept[i]
        /\ kept[i] >= Safe(kind, i)
    <3>1. /\ kept[i] \in 0..Len(Spilled(i)) /\ kept[i] >= Safe(kind, i)
          /\ Len(contents[i]) = kept[i]
      OBVIOUS
    <3>2. Len(Spilled(i)) \in Nat
      <4>1. Spilled(i) \in Seq(Cell)
        BY <1>1, SpilledProperties
      <4> QED
        BY <4>1, LenProperties
    <3> QED
      BY <3>1, <3>2
  <2>3. safe[i] <= Len(contents[i])
    <3>1. CASE kind = "power"
      BY <2>2, <3>1
    <3>2. CASE kind # "power"
      BY <2>1, <2>2, <3>2 DEF Safe
    <3> QED
      BY <3>1, <3>2
  <2>4. AllRecordsFit => Len(contents[i]) <= MaxFileSize + Leftover
    <3> SUFFICES ASSUME AllRecordsFit PROVE Len(contents[i]) <= MaxFileSize + Leftover
      OBVIOUS
    <3>1. Len(files[i]) <= MaxFileSize + Leftover
      BY <1>1 DEF LogInv, FilesWithinLimit, AllRecordsFit
    <3>2. CASE i # Current
      BY <2>1, <2>2, <3>1, <3>2, BoundsAreNumbers
    <3>3. CASE i = Current /\ isOpen
      <4>1. /\ Total <= MaxFileSize + Leftover /\ Len(buffer) \in Nat
            /\ Total = Len(files[i]) + Len(stream) + Len(buffer)
        BY <1>1, <3>3, LogSizes DEF LogInv, Total
      <4> QED
        BY <2>1, <2>2, <3>3, <4>1, BoundsAreNumbers
    <3>4. CASE i = Current /\ ~isOpen
      <4>1. Len(stream) = 0
        BY <3>4 DEF LogInv, ClosedEmpty
      <4> QED
        BY <2>1, <2>2, <3>1, <3>4, <4>1, BoundsAreNumbers
    <3> QED
      BY <3>2, <3>3, <3>4
  <2> QED
    BY <2>3, <2>4
<1> QED
  BY <1>4

\* A crash, then the constructor: every file is cut within what it had.
LEMMA CrashLogInv ==
  ASSUME LogInv, NEW kind \in CrashKinds, CrashAndReopen(kind)
  PROVE  LogInv'
<1>1. kind \in {"process", "power"} /\ synced \in Seq(Nat) /\ Len(synced) = Len(files)
  BY FlagsAssumption DEF LogInv, WalTypeOK
<1>2. PICK contents \in Seq(Seq(Cell)), kept \in Seq(Nat) :
        /\ Reopened(contents, IF kind = "power" THEN kept ELSE synced)
        /\ Len(contents) = Len(files) /\ Len(kept) = Len(files)
        /\ \A i \in 1..Len(files) :
             /\ kept[i] \in 0..Len(Spilled(i)) /\ kept[i] >= Safe(kind, i)
             /\ Len(contents[i]) = kept[i]
  BY <1>1, CrashContents
<1> DEFINE safe == IF kind = "power" THEN kept ELSE synced
<1>3. safe \in Seq(Nat) /\ Len(safe) = Len(files) /\ Reopened(contents, safe)
  BY <1>1, <1>2
<1>4. \A i \in 1..Len(files) :
        /\ safe[i] <= Len(contents[i])
        /\ AllRecordsFit => Len(contents[i]) <= MaxFileSize + Leftover
  BY <1>2, CrashSizes
<1> HIDE DEF safe
<1> QED
  BY <1>2, <1>3, <1>4, ReopenedLogInv

-----------------------------------------------------------------------------
(* Theorems.                                                               *)

\* LogInv survives every step of any client of the log.
LEMMA NextLogInv == LogInv /\ [WalNext]_walVars => LogInv'
<1> SUFFICES ASSUME LogInv, [WalNext]_walVars PROVE LogInv'
  OBVIOUS
<1>1. ASSUME NEW r \in RecordsToWrite, WriteRecord(r) PROVE LogInv'
  BY <1>1, AppendLogInv, RotateLogInv, ReopenLogInv DEF WriteRecord
<1>2. ASSUME NEW r \in RecordsToWrite, Overrun(r) PROVE LogInv'
  BY <1>2, OverrunLogInv
<1>3. CASE Flush
  BY <1>3, FlushLogInv
<1>4. CASE SyncSucceeds
  BY <1>4, SyncSucceedsLogInv
<1>5. CASE SyncFails
  BY <1>5, SyncFailsLogInv
<1>6. CASE StreamWriteFails
  BY <1>6, StreamWriteFailsLogInv
<1>7. CASE CloseAndReopen
  BY <1>7, CloseAndReopenLogInv
<1>8. ASSUME NEW kind \in CrashKinds, CrashAndReopen(kind) PROVE LogInv'
  BY <1>8, CrashLogInv
<1>9. CASE UNCHANGED walVars
  BY <1>9 DEF walVars, LogInv, WalTypeOK, BufferFits, SizeCoversFile, Current, Total,
              ClosedEmpty, Healthy, SyncedWithinFile, FilesWithinLimit, AllRecordsFit,
              Leftover, Oversized, ValueSizeOf
<1> QED
  BY <1>1, <1>2, <1>3, <1>4, <1>5, <1>6, <1>7, <1>8, <1>9 DEF WalNext

\* The log's state keeps its types and its invariant in every behaviour of
\* any client that writes each record through WriteRecord.
THEOREM LogInvariant == WalSpec => []LogInv
  BY InitLogInv, NextLogInv, PTL DEF WalSpec

\* For records and buffers of any size and an OS that refuses anything at any
\* time: WriteRecord copies past the end of write_buffer only for a piece that
\* is longer than it, or with no file open (wal.cpp 97-111, 156-179, 192-197).
THEOREM OnlyTwoWaysToOverrun == WalSpec => []BufferFits
<1>1. LogInv => BufferFits
  BY DEF LogInv
<1> QED
  BY <1>1, LogInvariant, PTL

\* No log file outgrows max_file_size when every record fits one (wal.cpp
\* 123-127), but by what waited in write_buffer for a file opened late.
THEOREM FilesNeverOutgrowLimit == WalSpec => []FilesWithinLimit
<1>1. LogInv => FilesWithinLimit
  BY DEF LogInv
<1> QED
  BY <1>1, LogInvariant, PTL

\* current_file_size never falls behind what is in the file or on its way to
\* it, so that the rotation test errs on the safe side (wal.cpp 123-127).
THEOREM SizeAlwaysCoversFile == WalSpec => []SizeCoversFile
<1>1. LogInv => SizeCoversFile
  BY DEF LogInv
<1> QED
  BY <1>1, LogInvariant, PTL

-----------------------------------------------------------------------------
(* Pipes: a file and the bytes that may still reach it.                    *)

\* What is copied into write_buffer may still get to a file: to the current one
\* until its stream fails, or to the one that is opened next.
Carries == streamGood <=> isOpen

\* The bytes that may still be written to the current file.
InFlightBytes == IF Carries THEN stream \o buffer ELSE stream

Pipe(i) == IF i = Current THEN files[i] \o InFlightBytes ELSE files[i]

\* s is a prefix of t.
Cut(s, t) == Len(s) <= Len(t) /\ \A j \in 1..Len(s) : s[j] = t[j]

Encoding(r) == Cells(r, 0, RecordSize(r))

\* A piece of a record's encoding holds the cells it names.
LEMMA CellsProperties ==
  ASSUME NEW r \in Record, NEW first \in Nat, NEW size \in Nat
  PROVE  /\ Cells(r, first, size) \in Seq(Cell) /\ Len(Cells(r, first, size)) = size
         /\ \A m \in 1..size : Cells(r, first, size)[m] = [rec |-> r, off |-> first + m]
<1>1. Cells(r, first, size) \in [1..size -> Cell] /\ Len(Cells(r, first, size)) = size
  BY DEF Cells, Cell
<1>2. Cells(r, first, size) \in Seq(Cell)
  BY <1>1, SeqDef
<1> QED
  BY <1>1, <1>2 DEF Cells

\* The encoding of a record has its size, and is its three pieces in order
\* (wal.cpp 139-179).
LEMMA EncodingProperties ==
  ASSUME NEW r \in Record
  PROVE  /\ Encoding(r) \in Seq(Cell) /\ Len(Encoding(r)) = RecordSize(r)
         /\ RecordSize(r) \in Nat \ {0} /\ HeaderSize <= RecordSize(r)
         /\ \A m \in 1..RecordSize(r) : Encoding(r)[m] = [rec |-> r, off |-> m]
         /\ Encoding(r) = (HeaderBytes(r) \o KeyBytes(r)) \o ValueBytes(r)
<1> DEFINE ks == KeySize[r.key]
           vs == ValueSizeOf(r)
<1>1. HeaderSize \in Nat \ {0} /\ ks \in Nat /\ vs \in Nat
  BY PieceProperties, SizesAssumption
<1>2. RecordSize(r) = HeaderSize + ks + vs
  BY DEF RecordSize
<1> HIDE DEF ks, vs
<1>3. RecordSize(r) \in Nat \ {0} /\ HeaderSize <= RecordSize(r)
  BY <1>1, <1>2
<1>4. ASSUME NEW first \in Nat, NEW size \in Nat
      PROVE  /\ Cells(r, first, size) \in Seq(Cell) /\ Len(Cells(r, first, size)) = size
             /\ \A m \in 1..size : Cells(r, first, size)[m] = [rec |-> r, off |-> first + m]
  BY CellsProperties
<1>5. /\ Encoding(r) \in Seq(Cell) /\ Len(Encoding(r)) = RecordSize(r)
      /\ \A m \in 1..RecordSize(r) : Encoding(r)[m] = [rec |-> r, off |-> m]
  <2>1. 0 \in Nat /\ RecordSize(r) \in Nat /\ \A m \in 1..RecordSize(r) : 0 + m = m
    BY <1>3
  <2> QED
    BY <1>4, <2>1, Zenon DEF Encoding
<1> DEFINE h == HeaderBytes(r)
           k == KeyBytes(r)
           v == ValueBytes(r)
<1>6. /\ h \in Seq(Cell) /\ Len(h) = HeaderSize
      /\ \A m \in 1..HeaderSize : h[m] = [rec |-> r, off |-> m]
  <2>1. 0 \in Nat /\ HeaderSize \in Nat /\ \A m \in 1..HeaderSize : 0 + m = m
    BY <1>1
  <2> QED
    BY <1>4, <2>1, Zenon DEF HeaderBytes
<1>7. /\ k \in Seq(Cell) /\ Len(k) = ks
      /\ \A m \in 1..ks : k[m] = [rec |-> r, off |-> HeaderSize + m]
  <2>1. HeaderSize \in Nat /\ ks \in Nat
    BY <1>1
  <2> QED
    BY <1>4, <2>1, Zenon DEF KeyBytes, ks
<1>8. /\ v \in Seq(Cell) /\ Len(v) = vs
      /\ \A m \in 1..vs : v[m] = [rec |-> r, off |-> HeaderSize + ks + m]
  <2>1. HeaderSize + ks \in Nat /\ vs \in Nat
    BY <1>1
  <2> QED
    BY <1>4, <2>1, Zenon DEF ValueBytes, ks, vs
<1> HIDE DEF h, k, v
<1> DEFINE hk == h \o k
<1>9. /\ hk \in Seq(Cell) /\ Len(hk) = HeaderSize + ks
      /\ \A m \in 1..(HeaderSize + ks) : hk[m] = IF m <= HeaderSize THEN h[m] ELSE k[m - HeaderSize]
  BY <1>6, <1>7, ConcatProperties, ZenonT(60)
<1> HIDE DEF hk
<1>10. \A m \in 1..(HeaderSize + ks) : hk[m] = [rec |-> r, off |-> m]
  <2> SUFFICES ASSUME NEW m \in 1..(HeaderSize + ks) PROVE hk[m] = [rec |-> r, off |-> m]
    OBVIOUS
  <2>1. CASE m <= HeaderSize
    BY <1>1, <1>6, <1>9, <2>1
  <2>2. CASE m > HeaderSize
    <3>1. m - HeaderSize \in 1..ks /\ HeaderSize + (m - HeaderSize) = m
      BY <1>1, <2>2
    <3> QED
      BY <1>1, <1>7, <1>9, <2>2, <3>1
  <2> QED
    BY <1>1, <2>1, <2>2
<1>11. /\ hk \o v \in Seq(Cell) /\ Len(hk \o v) = RecordSize(r)
       /\ \A m \in 1..RecordSize(r) :
            (hk \o v)[m] = IF m <= HeaderSize + ks THEN hk[m] ELSE v[m - (HeaderSize + ks)]
  <2>1. /\ hk \o v \in Seq(Cell) /\ Len(hk \o v) = Len(hk) + Len(v)
        /\ \A m \in 1..(Len(hk) + Len(v)) :
             (hk \o v)[m] = IF m <= Len(hk) THEN hk[m] ELSE v[m - Len(hk)]
    BY <1>8, <1>9, ConcatProperties, Zenon
  <2>2. Len(hk) + Len(v) = RecordSize(r)
    BY <1>1, <1>2, <1>8, <1>9
  <2> QED
    BY <1>9, <2>1, <2>2, Zenon
<1> DEFINE hkv == hk \o v
<1>14. /\ hkv \in Seq(Cell) /\ Len(hkv) = RecordSize(r)
       /\ \A m \in 1..RecordSize(r) :
            hkv[m] = IF m <= HeaderSize + ks THEN hk[m] ELSE v[m - (HeaderSize + ks)]
  BY <1>11
<1> HIDE DEF hkv
<1>12. \A m \in 1..RecordSize(r) : hkv[m] = [rec |-> r, off |-> m]
  <2> SUFFICES ASSUME NEW m \in 1..RecordSize(r) PROVE hkv[m] = [rec |-> r, off |-> m]
    OBVIOUS
  <2>1. CASE m <= HeaderSize + ks
    <3>1. m \in 1..(HeaderSize + ks)
      BY <1>1, <2>1
    <3>2. hk[m] = [rec |-> r, off |-> m]
      BY <1>10, <3>1
    <3> QED
      BY <1>14, <2>1, <3>2
  <2>2. CASE m > HeaderSize + ks
    <3>1. m - (HeaderSize + ks) \in 1..vs /\ HeaderSize + ks + (m - (HeaderSize + ks)) = m
      BY <1>1, <1>2, <2>2
    <3> QED
      BY <1>1, <1>8, <1>14, <2>2, <3>1
  <2> QED
    <3>1. HeaderSize + ks \in Nat /\ RecordSize(r) \in Nat
      BY <1>1, <1>3
    <3> QED
      BY <2>1, <2>2, <3>1
<1>13. Encoding(r) = hkv
  BY <1>3, <1>5, <1>14, <1>12, SeqEqual
<1> QED
  BY <1>3, <1>5, <1>13 DEF hkv, hk, h, k, v

\* Putting cell sequences together.
CellSeqs(s, t, u) == s \in Seq(Cell) /\ t \in Seq(Cell) /\ u \in Seq(Cell)
Together(x, y, s, t, u) == x \o y = (s \o t) \o u

\* Concatenation is associative.
LEMMA Associates ==
  ASSUME NEW s, NEW t, NEW u, CellSeqs(s, t, u)
  PROVE  Together(s, t \o u, s, t, u)
<1>0. s \in Seq(Cell) /\ t \in Seq(Cell) /\ u \in Seq(Cell)
  BY DEF CellSeqs
<1>1. (s \o t) \o u = s \o (t \o u)
  BY <1>0, ConcatAssociative
<1> QED
  BY <1>1 DEF Together

\* Copying one piece keeps the types.
LEMMA CopyTypes ==
  ASSUME NEW open \in BOOLEAN, NEW s \in Seq(Cell), NEW b \in Seq(Cell), NEW t \in Seq(Cell)
  PROVE  StreamAfter(open, s, b, t) \in Seq(Cell) /\ BufferAfter(open, b, t) \in Seq(Cell)
  BY CopyProperties

\* A copied piece ends up behind what was in flight: on a good stream, and with
\* no file open, where it all waits in write_buffer (wal.cpp 156-176, 192-197).
LEMMA CopyGood ==
  ASSUME NEW open \in BOOLEAN, NEW s, NEW b, NEW t, CellSeqs(s, b, t)
  PROVE  Together(StreamAfter(open, s, b, t), BufferAfter(open, b, t), s, b, t)
<1>0. s \in Seq(Cell) /\ b \in Seq(Cell) /\ t \in Seq(Cell)
  BY DEF CellSeqs
<1>1. Together(s, b \o t, s, b, t)
  BY Associates, Zenon
<1>2. CASE Room(b, t) \/ ~open
  <2>1. MadeRoom(open, b, t) = b
    BY <1>2 DEF MadeRoom
  <2>2. StreamAfter(open, s, b, t) = s
    BY <1>2 DEF StreamAfter, Flushed
  <2> QED
    BY <1>1, <2>1, <2>2 DEF BufferAfter
<1>3. CASE ~Room(b, t) /\ open
  <2>1. MadeRoom(open, b, t) = << >>
    BY <1>3 DEF MadeRoom
  <2>2. StreamAfter(open, s, b, t) = s \o b
    BY <1>3 DEF StreamAfter, Flushed
  <2>3. << >> \o t = t
    BY <1>0, ConcatEmptySeq
  <2>4. BufferAfter(open, b, t) = t
    BY <2>1, <2>3 DEF BufferAfter
  <2> QED
    BY <2>2, <2>4 DEF Together
<1> QED
  BY <1>2, <1>3

\* So copying a record adds its encoding to what is on its way.
LEMMA AppendGood ==
  ASSUME NEW open \in BOOLEAN, NEW s \in Seq(Cell), NEW b \in Seq(Cell), NEW r \in Record,
         AppendPieces(open, open, r, s, b)
  PROVE  stream' \o buffer' = (s \o b) \o Encoding(r)
<1>1. PICK h \in Seq(Cell), k \in Seq(Cell), v \in Seq(Cell) :
        h = HeaderBytes(r) /\ k = KeyBytes(r) /\ v = ValueBytes(r)
  BY PieceProperties
<1>2. PICK b1, s1 : b1 = BufferAfter(open, b, h) /\ s1 = StreamAfter(open, s, b, h)
  OBVIOUS
<1>3. PICK b2, s2 : b2 = BufferAfter(open, b1, k) /\ s2 = StreamAfter(open, s1, b1, k)
  OBVIOUS
<1>4. buffer' = BufferAfter(open, b2, v) /\ stream' = StreamAfter(open, s2, b2, v)
  <2> DEFINE c == Copies(open, r, b)
  <2>1. /\ c[1] = b /\ c[2] = BufferAfter(open, c[1], h)
        /\ c[3] = BufferAfter(open, c[2], k) /\ c[4] = BufferAfter(open, c[3], v)
    BY <1>1, CopiesOneByOne
  <2>2. /\ buffer' = c[4]
        /\ stream' = StreamAfter(open, StreamAfter(open, StreamAfter(open, s, c[1], h), c[2], k),
                                 c[3], v)
    BY <1>1 DEF AppendPieces
  <2> HIDE DEF c
  <2>3. c[2] = b1 /\ c[3] = b2
    BY <1>2, <1>3, <2>1
  <2> QED
    BY <1>2, <1>3, <2>1, <2>2, <2>3
<1>5. b1 \in Seq(Cell) /\ s1 \in Seq(Cell)
  BY <1>2, CopyTypes
<1>6. b2 \in Seq(Cell) /\ s2 \in Seq(Cell)
  BY <1>3, <1>5, CopyTypes
<1>7. Together(s1, b1, s, b, h)
  BY <1>2, CopyGood DEF CellSeqs
<1>8. Together(s2, b2, s1, b1, k)
  BY <1>3, <1>5, CopyGood DEF CellSeqs
<1>9. Together(stream', buffer', s2, b2, v)
  BY <1>4, <1>6, CopyGood DEF CellSeqs
<1>10. Encoding(r) = (h \o k) \o v
  BY <1>1, EncodingProperties, Zenon
<1>11. s \o b \in Seq(Cell) /\ h \o k \in Seq(Cell)
  BY ConcatProperties
<1>12. Together(s \o b, h \o k, s \o b, h, k)
  BY <1>11, Associates DEF CellSeqs
<1>13. Together(s \o b, (h \o k) \o v, s \o b, h \o k, v)
  BY <1>11, Associates DEF CellSeqs
<1> QED
  BY <1>7, <1>8, <1>9, <1>10, <1>12, <1>13, Zenon DEF Together

-----------------------------------------------------------------------------
(* Prefixes.                                                               *)

\* Cutting nothing off.
LEMMA CutItself ==
  ASSUME NEW s \in Seq(Cell)
  PROVE  Cut(s, s)
  BY LenProperties DEF Cut

\* Cutting twice.
LEMMA CutTrans ==
  ASSUME NEW s \in Seq(Cell), NEW t \in Seq(Cell), NEW u \in Seq(Cell), Cut(s, t), Cut(t, u)
  PROVE  Cut(s, u)
<1>1. Len(s) \in Nat /\ Len(t) \in Nat /\ Len(u) \in Nat
  BY LenProperties
<1> QED
  BY <1>1 DEF Cut

\* The start of a sequence is what is left of it when the rest is cut off, ...
LEMMA CutOfSubSeq ==
  ASSUME NEW s \in Seq(Cell), NEW n \in 0..Len(s)
  PROVE  SubSeq(s, 1, n) \in Seq(Cell) /\ Cut(SubSeq(s, 1, n), s) /\ Len(SubSeq(s, 1, n)) = n
<1>1. Len(s) \in Nat /\ \A i \in 1..n : s[i] \in Cell
  BY LenProperties, ElementOfSeq
<1>2. /\ SubSeq(s, 1, n) \in Seq(Cell) /\ Len(SubSeq(s, 1, n)) = n
      /\ \A i \in 1..n : SubSeq(s, 1, n)[i] = s[i]
  BY <1>1, CutProperties
<1> QED
  BY <1>1, <1>2 DEF Cut

\* ... a sequence is what is left when all that was put behind it is, ...
LEMMA CutOfConcat ==
  ASSUME NEW s \in Seq(Cell), NEW t \in Seq(Cell)
  PROVE  s \o t \in Seq(Cell) /\ Cut(s, s \o t) /\ Len(s \o t) = Len(s) + Len(t)
<1>1. Len(s) \in Nat /\ Len(t) \in Nat
  BY LenProperties
<1> DEFINE c == s \o t
<1>2. /\ c \in Seq(Cell) /\ Len(c) = Len(s) + Len(t)
      /\ \A i \in 1..(Len(s) + Len(t)) : c[i] = IF i <= Len(s) THEN s[i] ELSE t[i - Len(s)]
  BY ConcatProperties
<1> HIDE DEF c
<1>3. Cut(s, c)
  BY <1>1, <1>2 DEF Cut
<1> QED
  BY <1>2, <1>3 DEF c

\* ... and what is kept in front is not touched.
LEMMA CutAfter ==
  ASSUME NEW f \in Seq(Cell), NEW s \in Seq(Cell), NEW t \in Seq(Cell), Cut(s, t)
  PROVE  Cut(f \o s, f \o t)
<1>1. Len(f) \in Nat /\ Len(s) \in Nat /\ Len(t) \in Nat
  BY LenProperties
<1> DEFINE c == f \o s
           d == f \o t
<1>2. /\ Len(c) = Len(f) + Len(s)
      /\ \A i \in 1..(Len(f) + Len(s)) : c[i] = IF i <= Len(f) THEN f[i] ELSE s[i - Len(f)]
  BY ConcatProperties
<1>3. /\ Len(d) = Len(f) + Len(t)
      /\ \A i \in 1..(Len(f) + Len(t)) : d[i] = IF i <= Len(f) THEN f[i] ELSE t[i - Len(f)]
  BY ConcatProperties
<1> HIDE DEF c, d
<1>4. Len(c) <= Len(d)
  BY <1>1, <1>2, <1>3 DEF Cut
<1>5. ASSUME NEW j \in 1..Len(c) PROVE c[j] = d[j]
  <2>1. CASE j <= Len(f)
    BY <1>1, <1>2, <1>3, <1>4, <2>1
  <2>2. CASE j > Len(f)
    <3>1. j - Len(f) \in 1..Len(s)
      BY <1>1, <1>2, <2>2
    <3>2. s[j - Len(f)] = t[j - Len(f)]
      BY <3>1 DEF Cut
    <3>3. j \in 1..(Len(f) + Len(s)) /\ j \in 1..(Len(f) + Len(t)) /\ ~(j <= Len(f))
      BY <1>1, <1>2, <1>3, <1>4, <2>2
    <3> QED
      BY <1>2, <1>3, <3>2, <3>3
  <2> QED
    BY <1>1, <1>2, <2>1, <2>2
<1>6. Cut(c, d)
  BY <1>4, <1>5 DEF Cut
<1> QED
  BY <1>6 DEF c, d

-----------------------------------------------------------------------------
(* What each operation does to the pipes.                                  *)

\* Pipes are strings of cells.
LEMMA PipeTypes ==
  ASSUME WalTypeOK
  PROVE  /\ InFlightBytes \in Seq(Cell)
         /\ \A i \in DOMAIN files : Pipe(i) \in Seq(Cell) /\ Len(Pipe(i)) \in Nat
<1>1. InFlightBytes \in Seq(Cell)
  BY ConcatProperties DEF InFlightBytes, WalTypeOK
<1>2. ASSUME NEW i \in DOMAIN files PROVE Pipe(i) \in Seq(Cell)
  BY <1>1, LogSizes, ConcatProperties DEF Pipe
<1> QED
  BY <1>1, <1>2, LenProperties

\* The same of the next state.
LEMMA NextPipeTypes ==
  ASSUME WalTypeOK'
  PROVE  \A i \in 1..Len(files') : Pipe(i)' \in Seq(Cell) /\ Len(Pipe(i)') \in Nat
<1>1. InFlightBytes' \in Seq(Cell)
  BY ConcatProperties DEF InFlightBytes, WalTypeOK
<1>2. ASSUME NEW i \in 1..Len(files') PROVE Pipe(i)' \in Seq(Cell)
  <2>1. files'[i] \in Seq(Cell)
    BY ElementOfSeq DEF WalTypeOK
  <2> QED
    BY <1>1, <2>1, ConcatProperties DEF Pipe
<1> QED
  BY <1>2, LenProperties

\* Writing t at the end of the current file.
LEMMA ExtendedFiles ==
  ASSUME WalTypeOK, NEW t \in Seq(Cell), NEW ext, ext = [files EXCEPT ![Current] = @ \o t]
  PROVE  /\ ext \in Seq(Seq(Cell)) /\ Len(ext) = Len(files) /\ DOMAIN ext = DOMAIN files
         /\ \A i \in DOMAIN files : ext[i] = IF i = Current THEN files[i] \o t ELSE files[i]
<1>1. ext \in Seq(Seq(Cell)) /\ Len(ext) = Len(files) /\ DOMAIN ext = DOMAIN files
  BY ExtendCurrent
<1>2. files \in [1..Len(files) -> Seq(Cell)] /\ DOMAIN files = 1..Len(files)
  BY LenProperties DEF WalTypeOK
<1> QED
  BY <1>1, <1>2

\* With both layers above it empty, a pipe is what the file holds.
LEMMA EmptyAboveFile ==
  ASSUME stream' = << >>, buffer' = << >>, files' \in Seq(Seq(Cell))
  PROVE  InFlightBytes' = << >> /\ \A i \in 1..Len(files') : Pipe(i)' = files'[i]
<1>1. << >> \o << >> = << >>
  OBVIOUS
<1>2. InFlightBytes' = << >>
  BY <1>1 DEF InFlightBytes
<1>3. \A i \in 1..Len(files') : files'[i] \in Seq(Cell)
  BY ElementOfSeq
<1>4. ASSUME NEW i \in 1..Len(files') PROVE Pipe(i)' = files'[i]
  <2>1. files'[i] \o << >> = files'[i]
    BY <1>3, ConcatEmptySeq
  <2> QED
    BY <1>2, <2>1 DEF Pipe
<1> QED
  BY <1>2, <1>4

SamePipes == Len(files') = Len(files) /\ \A i \in DOMAIN files : Pipe(i)' = Pipe(i)
PipesCut  == Len(files') = Len(files) /\ \A i \in DOMAIN files : Cut(Pipe(i)', Pipe(i))

\* Nothing changed is nothing cut off.
LEMMA SamePipesCut == ASSUME WalTypeOK, SamePipes PROVE PipesCut
<1>1. \A i \in DOMAIN files : Cut(Pipe(i), Pipe(i))
  BY PipeTypes, CutItself
<1> QED
  BY <1>1 DEF SamePipes, PipesCut

\* Flush only moves bytes along (wal.cpp 192-197).
LEMMA FlushPipes ==
  ASSUME LogInv, Flush
  PROVE  SamePipes
<1>0. stream \in Seq(Cell) /\ buffer \in Seq(Cell)
  BY DEF LogInv, WalTypeOK
<1>1. /\ stream' = Flushed(streamGood, stream, buffer)
      /\ buffer' = IF isOpen THEN << >> ELSE buffer
      /\ files' = files /\ streamGood' = streamGood /\ isOpen' = isOpen
  BY DEF Flush
<1>2. InFlightBytes' = InFlightBytes
  <2>1. CASE ~isOpen
    BY <1>1, <2>1 DEF InFlightBytes, Carries, Flushed, LogInv, ClosedEmpty
  <2>2. CASE isOpen /\ streamGood
    <3>1. stream' = stream \o buffer /\ buffer' = << >> /\ stream \o buffer \in Seq(Cell)
      BY <1>0, <1>1, <2>2, ConcatProperties DEF Flushed
    <3>2. (stream \o buffer) \o << >> = stream \o buffer
      BY <3>1, ConcatEmptySeq
    <3> QED
      BY <1>1, <2>2, <3>1, <3>2 DEF InFlightBytes, Carries
  <2>3. CASE isOpen /\ ~streamGood
    BY <1>1, <2>3 DEF InFlightBytes, Carries, Flushed
  <2> QED
    BY <2>1, <2>2, <2>3
<1> QED
  BY <1>1, <1>2 DEF SamePipes, Pipe, Current

\* What was handed over and got to the file, and what may still be in the
\* stream, are no more than what was on its way.
LEMMA RefusedBytes ==
  ASSUME NEW p \in Seq(Cell), NEW n \in 0..(Len(p) - 1), NEW w, NEW dropRest \in BOOLEAN,
         w = IF dropRest THEN << >> ELSE SubSeq(p, n + 1, Len(p))
  PROVE  /\ SubSeq(p, 1, n) \in Seq(Cell) /\ w \in Seq(Cell)
         /\ SubSeq(p, 1, n) \o w \in Seq(Cell) /\ Cut(SubSeq(p, 1, n) \o w, p)
<1>0. Len(p) \in Nat /\ n \in 0..Len(p)
  BY LenProperties
<1> DEFINE u == SubSeq(p, 1, n)
           v == SubSeq(p, n + 1, Len(p))
<1>3. u \in Seq(Cell) /\ Cut(u, p) /\ v \in Seq(Cell)
  BY <1>0, CutOfSubSeq, CutProperties
<1>4. u \o v = p
  <2>1. /\ 1 \in 1..(Len(p) + 1) /\ n \in (1 - 1)..Len(p) /\ Len(p) \in n..Len(p)
    BY <1>0
  <2>2. u \o v = SubSeq(p, 1, Len(p))
    BY <1>0, <2>1, ConcatAdjacentSubSeq, Zenon
  <2> QED
    BY <1>0, <2>2, SubSeqFull
<1>5. w = IF dropRest THEN << >> ELSE v
  OBVIOUS
<1> HIDE DEF u, v
<1>6. w \in Seq(Cell) /\ u \o w \in Seq(Cell)
  BY <1>3, <1>5, EmptySeq, ConcatProperties
<1>7. Cut(u \o w, p)
  <2>1. CASE dropRest
    <3>1. u \o w = u
      BY <1>3, <1>5, <2>1, ConcatEmptySeq
    <3> QED
      BY <1>3, <3>1
  <2>2. CASE ~dropRest
    BY <1>4, <1>5, <2>2, CutItself
  <2> QED
    BY <2>1, <2>2
<1> QED
  BY <1>3, <1>6, <1>7 DEF u

\* A refused write loses bytes from the end of what was on its way.
LEMMA RefusedPipes ==
  ASSUME LogInv, NEW pending \in Seq(Cell), Refused(pending),
         Cut(pending, stream \o buffer), isOpen' = isOpen
  PROVE  PipesCut
<1>0. /\ WalTypeOK /\ stream \o buffer \in Seq(Cell) /\ isOpen /\ streamGood
  BY ConcatProperties DEF LogInv, WalTypeOK, Refused, ClosedEmpty
<1>1. PICK n \in 0..(Len(pending) - 1), dropRest \in BOOLEAN :
        /\ files' = [files EXCEPT ![Current] = @ \o SubSeq(pending, 1, n)]
        /\ stream' = IF dropRest THEN << >> ELSE SubSeq(pending, n + 1, Len(pending))
  BY DEF Refused
<1> DEFINE u == SubSeq(pending, 1, n)
           w == stream'
           x == stream \o buffer
<1>2. u \in Seq(Cell) /\ w \in Seq(Cell) /\ u \o w \in Seq(Cell) /\ Cut(u \o w, pending)
  BY <1>1, RefusedBytes
<1>3. files' = [files EXCEPT ![Current] = @ \o u]
  BY <1>1
<1>4. InFlightBytes' = w /\ InFlightBytes = x
  BY <1>0 DEF InFlightBytes, Carries, Refused
<1>5. x \in Seq(Cell) /\ Cut(pending, x)
  BY <1>0
<1> HIDE DEF u, w, x
<1>6. /\ files' \in Seq(Seq(Cell)) /\ Len(files') = Len(files)
      /\ \A i \in DOMAIN files : files'[i] = IF i = Current THEN files[i] \o u ELSE files[i]
  BY <1>0, <1>2, <1>3, ExtendedFiles
<1> DEFINE uw == u \o w
<1>7. Cut(uw, x) /\ uw \in Seq(Cell)
  <2>1. uw \in Seq(Cell) /\ Cut(uw, pending)
    BY <1>2
  <2> HIDE DEF uw
  <2> QED
    BY <1>5, <2>1, CutTrans
<1>8. ASSUME NEW i \in DOMAIN files PROVE Cut(Pipe(i)', Pipe(i))
  <2>1. files[i] \in Seq(Cell) /\ i \in 1..Len(files)
    BY <1>0, LogSizes
  <2>2. CASE i # Current
    <3>1. Pipe(i)' = files[i] /\ Pipe(i) = files[i]
      BY <1>6, <2>2 DEF Pipe, Current
    <3> QED
      BY <2>1, <3>1, CutItself
  <2>3. CASE i = Current
    <3> DEFINE f == files[i]
    <3>1. Pipe(i)' = (f \o u) \o w /\ Pipe(i) = f \o x
      BY <1>4, <1>6, <2>3 DEF Pipe, Current
    <3>2. f \o uw = (f \o u) \o w
      <4>1. CellSeqs(f, u, w)
        BY <1>2, <2>1 DEF CellSeqs
      <4> QED
        BY <4>1, Associates DEF Together
    <3> HIDE DEF uw
    <3>3. Cut(f \o uw, f \o x)
      BY <1>5, <1>7, <2>1, CutAfter
    <3> HIDE DEF f
    <3> QED
      BY <3>1, <3>2, <3>3
  <2> QED
    BY <2>2, <2>3
<1> QED
  BY <1>6, <1>8 DEF PipesCut

\* All that was on its way gets to the file.
LEMMA MovedPipes ==
  ASSUME LogInv, streamGood, stream' = << >>, buffer' = << >>,
         files' = [files EXCEPT ![Current] = @ \o (stream \o buffer)]
  PROVE  SamePipes
<1>0. WalTypeOK /\ isOpen
  BY DEF LogInv, ClosedEmpty
<1> DEFINE t == stream \o buffer
<1>1. files' = [files EXCEPT ![Current] = @ \o t]
  OBVIOUS
<1>2. t \in Seq(Cell) /\ t = InFlightBytes
  BY <1>0, ConcatProperties DEF InFlightBytes, Carries, WalTypeOK
<1> HIDE DEF t
<1>3. /\ files' \in Seq(Seq(Cell)) /\ Len(files') = Len(files)
      /\ \A i \in DOMAIN files : files'[i] = IF i = Current THEN files[i] \o t ELSE files[i]
  BY <1>0, <1>1, <1>2, ExtendedFiles
<1>4. DOMAIN files = 1..Len(files)
  BY <1>0, LogSizes
<1>5. \A i \in DOMAIN files : Pipe(i)' = files'[i]
  BY <1>3, <1>4, EmptyAboveFile
<1> QED
  BY <1>2, <1>3, <1>5 DEF SamePipes, Pipe

\* Sync loses bytes from the end of what was on its way, if the OS refuses
\* them, and otherwise only moves them along (wal.cpp 199-222).
LEMMA SyncPipes ==
  ASSUME LogInv, SyncSucceeds \/ SyncFails
  PROVE  /\ PipesCut /\ (SyncSucceeds \/ ~Faults => SamePipes)
         /\ stream = << >> /\ buffer = << >> => SamePipes
<1>0. WalTypeOK /\ stream \in Seq(Cell) /\ buffer \in Seq(Cell) /\ stream \o buffer \in Seq(Cell)
  BY ConcatProperties DEF LogInv, WalTypeOK
<1>1. CASE SyncSucceeds
  <2>1. SamePipes
    BY <1>1, MovedPipes DEF SyncSucceeds
  <2> QED
    BY <1>0, <2>1, SamePipesCut
<1>2. CASE SyncFails /\ ~streamGood
  <2>1. /\ files' = files /\ stream' = stream /\ streamGood' = streamGood /\ isOpen' = isOpen
        /\ buffer' = IF isOpen THEN << >> ELSE buffer
    BY <1>2 DEF SyncFails, Refused
  <2>2. InFlightBytes' = InFlightBytes
    BY <1>2, <2>1 DEF InFlightBytes, Carries
  <2>3. SamePipes
    BY <2>1, <2>2 DEF SamePipes, Pipe, Current
  <2> QED
    BY <1>0, <2>3, SamePipesCut
<1>3. CASE SyncFails /\ Refused(stream \o buffer)
  <2> DEFINE x == stream \o buffer
  <2>1. x \in Seq(Cell) /\ Refused(x) /\ Cut(x, stream \o buffer) /\ isOpen' = isOpen /\ Faults
    BY <1>0, <1>3, CutItself DEF SyncFails, Refused
  <2>2. ~(stream = << >> /\ buffer = << >>)
    <3> SUFFICES ASSUME stream = << >>, buffer = << >> PROVE FALSE
      OBVIOUS
    <3>1. stream \o buffer = << >> /\ Len(<< >>) = 0
      BY EmptySeq
    <3> QED
      BY <1>3, <3>1 DEF Refused
  <2>3. ~SyncSucceeds
    BY <1>3 DEF SyncSucceeds, Refused
  <2> HIDE DEF x
  <2>4. PipesCut
    BY <2>1, RefusedPipes
  <2> QED
    BY <2>1, <2>2, <2>3, <2>4
<1>4. CASE /\ SyncFails /\ streamGood /\ streamGood' = streamGood
           /\ files' = [files EXCEPT ![Current] = @ \o (stream \o buffer)]
           /\ stream' = << >>
  <2>1. buffer' = << >>
    BY <1>4 DEF SyncFails, LogInv, ClosedEmpty
  <2>2. SamePipes
    BY <1>4, <2>1, MovedPipes
  <2> QED
    BY <1>0, <2>2, SamePipesCut
<1> QED
  BY <1>1, <1>2, <1>3, <1>4 DEF SyncFails

\* A refused write of the stream's own.
LEMMA FailPipes ==
  ASSUME LogInv, StreamWriteFails
  PROVE  PipesCut
<1>1. stream \in Seq(Cell) /\ buffer \in Seq(Cell)
  BY DEF LogInv, WalTypeOK
<1>2. Cut(stream, stream \o buffer)
  BY <1>1, CutOfConcat
<1> QED
  BY <1>1, <1>2, RefusedPipes DEF StreamWriteFails

\* After a restart: a file may have been cut, one may be new, and the place of
\* one that was never opened may be gone.
PipesReopened ==
  /\ Len(files') \in 1..(Len(files) + 1)
  /\ \A i \in 1..Len(files') :
       /\ Pipe(i)' = files'[i]
       /\ i <= Len(files) => Cut(Pipe(i)', Pipe(i))
       /\ i > Len(files) => Pipe(i)' = << >>

\* The constructor, over files that hold no more than the pipes.
LEMMA ReopenedPipes ==
  ASSUME LogInv, NEW contents \in Seq(Seq(Cell)), NEW safe \in Seq(Nat),
         Reopened(contents, safe), Len(contents) = Len(files), Len(safe) = Len(files),
         \A i \in 1..Len(files) :
           /\ safe[i] <= Len(contents[i])
           /\ AllRecordsFit => Len(contents[i]) <= MaxFileSize + Leftover
           /\ Cut(contents[i], Pipe(i))
  PROVE  /\ PipesReopened
         /\ ~Faults => /\ Len(files') = Len(files) /\ synced' = safe
                       /\ \A i \in DOMAIN files : Pipe(i)' = contents[i]
<1>1. /\ LogInv' /\ stream' = << >> /\ buffer' = << >>
      /\ Len(files') <= Len(files) + 1
      /\ isOpen /\ ~Faults => Len(files') = Len(files)
      /\ Len(files') \in Nat \ {0} /\ Len(synced') = Len(files')
      /\ \A i \in 1..Len(files') :
           \/ i <= Len(files) /\ files'[i] = contents[i] /\ synced'[i] = safe[i]
           \/ files'[i] = << >> /\ synced'[i] = 0 /\ ~(isOpen /\ i <= Len(files))
  BY ReopenedLogInv
<1>2. /\ WalTypeOK /\ Len(files) \in Nat \ {0} /\ DOMAIN files = 1..Len(files)
      /\ \A i \in 1..Len(files) : Pipe(i) \in Seq(Cell) /\ Len(Pipe(i)) \in Nat
  BY LogSizes, PipeTypes DEF LogInv, Current
<1>3. files' \in Seq(Seq(Cell)) /\ synced' \in Seq(Nat)
  BY <1>1 DEF LogInv, WalTypeOK
<1>4. \A i \in 1..Len(files') : Pipe(i)' = files'[i]
  BY <1>1, <1>3, EmptyAboveFile
<1>5. ASSUME NEW i \in 1..Len(files')
      PROVE  /\ i <= Len(files) => Cut(Pipe(i)', Pipe(i))
             /\ i > Len(files) => Pipe(i)' = << >>
  <2>1. CASE i <= Len(files)
    <3>1. i \in 1..Len(files)
      BY <1>1, <1>2, <2>1
    <3>2. CASE files'[i] = contents[i]
      BY <1>2, <1>4, <2>1, <3>1, <3>2
    <3>3. CASE files'[i] = << >>
      <4>1. Cut(<< >>, Pipe(i))
        BY <1>2, <3>1, EmptySeq DEF Cut
      <4> QED
        BY <1>2, <1>4, <2>1, <3>3, <4>1
    <3> QED
      BY <1>1, <3>2, <3>3
  <2>2. CASE i > Len(files)
    <3>1. files'[i] = << >>
      BY <1>1, <1>2, <2>2
    <3> QED
      BY <1>2, <1>4, <2>2, <3>1
  <2> QED
    BY <1>1, <1>2, <2>1, <2>2
<1>6. PipesReopened
  BY <1>1, <1>2, <1>4, <1>5 DEF PipesReopened
<1>7. ASSUME ~Faults
      PROVE  /\ Len(files') = Len(files) /\ synced' = safe
             /\ \A i \in DOMAIN files : Pipe(i)' = contents[i]
  <2>1. isOpen /\ Len(files') = Len(files)
    BY <1>1, <1>7 DEF LogInv, Healthy
  <2>2. \A i \in 1..Len(files) : files'[i] = contents[i] /\ synced'[i] = safe[i]
    BY <1>1, <2>1
  <2>3. synced' = safe
    BY <1>1, <1>3, <2>1, <2>2, SeqEqual
  <2> QED
    BY <1>2, <1>4, <2>1, <2>2, <2>3
<1> QED
  BY <1>6, <1>7

\* The destructor writes everything, unless the stream had failed or the OS
\* refuses it (wal.cpp 90-95).
LEMMA ClosePipes ==
  ASSUME LogInv, CloseAndReopen
  PROVE  /\ PipesReopened
         /\ ~Faults => /\ SamePipes /\ synced' = synced
                       /\ \A i \in DOMAIN files : Pipe(i)' = files'[i]
<1> DEFINE t == Flushed(streamGood, stream, buffer)
<1>0. /\ t \in Seq(Cell) /\ Len(t) \in Nat /\ WalTypeOK
      /\ stream \in Seq(Cell) /\ buffer \in Seq(Cell) /\ stream \o buffer \in Seq(Cell)
      /\ synced \in Seq(Nat) /\ Len(synced) = Len(files)
      /\ Len(files) \in Nat \ {0} /\ DOMAIN files = 1..Len(files)
  BY FlushedProperties, ConcatProperties, LogSizes DEF LogInv, WalTypeOK, Current
<1>1. PICK contents \in Seq(Seq(Cell)), n \in 0..Len(t) :
             /\ Reopened(contents, synced) /\ n \in Accepted(t)
             /\ contents = [files EXCEPT ![Current] = @ \o SubSeq(t, 1, n)]
  BY ClosedContents
<1>2. /\ Cut(t, InFlightBytes) /\ InFlightBytes \in Seq(Cell)
      /\ ~Faults => t = InFlightBytes
  <2>1. Cut(stream, stream \o buffer) /\ Cut(stream, stream)
        /\ Cut(stream \o buffer, stream \o buffer)
    BY <1>0, CutItself, CutOfConcat
  <2>2. streamGood => Carries
    BY DEF LogInv, ClosedEmpty, Carries
  <2>3. ~Faults => streamGood
    BY DEF LogInv, Healthy
  <2> QED
    BY <1>0, <2>1, <2>2, <2>3, PipeTypes DEF InFlightBytes, Flushed
<1>a. ~Faults => n = Len(t)
  BY <1>0, <1>1, AcceptedBytes DEF LogInv, Healthy
<1> HIDE DEF t
<1> DEFINE u == SubSeq(t, 1, n)
<1>3. u \in Seq(Cell) /\ Cut(u, t) /\ Len(u) = n
  BY <1>0, <1>1, CutOfSubSeq
<1>4. contents = [files EXCEPT ![Current] = @ \o u]
  BY <1>1
<1>5. ~Faults => u = t
  <2> SUFFICES ASSUME ~Faults PROVE u = t
    OBVIOUS
  <2> HIDE DEF u
  <2> QED
    BY <1>0, <1>a, <1>3, SeqEqual DEF Cut
<1> HIDE DEF u
<1>6. /\ Len(contents) = Len(files)
      /\ \A i \in DOMAIN files : contents[i] = IF i = Current THEN files[i] \o u ELSE files[i]
  BY <1>0, <1>3, <1>4, ExtendedFiles
<1>7. Cut(u, InFlightBytes)
  BY <1>0, <1>2, <1>3, CutTrans
<1>8. ASSUME NEW i \in 1..Len(files)
      PROVE  Cut(contents[i], Pipe(i)) /\ (~Faults => contents[i] = Pipe(i))
  <2>1. files[i] \in Seq(Cell) /\ i \in DOMAIN files
    BY <1>0, LogSizes
  <2>2. Cut(files[i] \o u, files[i] \o InFlightBytes) /\ Cut(files[i], files[i])
    BY <1>2, <1>3, <1>7, <2>1, CutAfter, CutItself
  <2>3. contents[i] = IF i = Current THEN files[i] \o u ELSE files[i]
    BY <1>6, <2>1
  <2> QED
    BY <1>2, <1>5, <2>2, <2>3 DEF Pipe
<1>9. \A i \in 1..Len(files) :
        /\ synced[i] <= Len(contents[i])
        /\ AllRecordsFit => Len(contents[i]) <= MaxFileSize + Leftover
  BY <1>1, ClosedSizes DEF t
<1>10. /\ PipesReopened
       /\ ~Faults => /\ Len(files') = Len(files) /\ synced' = synced
                     /\ \A i \in DOMAIN files : Pipe(i)' = contents[i]
  BY <1>0, <1>1, <1>6, <1>8, <1>9, ReopenedPipes
<1>11. ~Faults => \A i \in DOMAIN files : Pipe(i)' = Pipe(i) /\ Pipe(i)' = files'[i]
  BY <1>0, <1>8, <1>10 DEF PipesReopened
<1> QED
  BY <1>10, <1>11 DEF SamePipes

\* A crash cuts every file, the current one after the stream has spilled
\* into it; on a disk that refuses nothing the constructor opens the last file.
LEMMA CrashPipes ==
  ASSUME LogInv, NEW kind \in CrashKinds, CrashAndReopen(kind)
  PROVE  /\ PipesReopened
         /\ ~Faults =>
              /\ PipesCut
              /\ \A i \in DOMAIN files :
                   /\ Pipe(i)' = files'[i]
                   /\ Len(files'[i]) >= Safe(kind, i)
                   /\ i # Current => Len(files'[i]) <= Len(files[i])
                   /\ ~TornWrites => AtRecordBoundary(files'[i], Len(files'[i]))
              /\ kind = "power" => \A i \in DOMAIN files : synced'[i] = Len(files'[i])
              /\ kind # "power" => synced' = synced
<1>0. /\ WalTypeOK /\ stream \in Seq(Cell) /\ buffer \in Seq(Cell)
      /\ DOMAIN files = 1..Len(files) /\ Len(files) \in Nat \ {0}
      /\ synced \in Seq(Nat) /\ Len(synced) = Len(files) /\ kind \in {"process", "power"}
  BY FlagsAssumption, LogSizes DEF LogInv, WalTypeOK, Current
<1>1. PICK contents \in Seq(Seq(Cell)), kept \in Seq(Nat) :
        /\ Reopened(contents, IF kind = "power" THEN kept ELSE synced)
        /\ Len(contents) = Len(files) /\ Len(kept) = Len(files)
        /\ \A i \in 1..Len(files) :
             /\ kept[i] \in 0..Len(Spilled(i)) /\ kept[i] >= Safe(kind, i)
             /\ contents[i] = SubSeq(Spilled(i), 1, kept[i])
             /\ Len(contents[i]) = kept[i]
             /\ ~TornWrites => AtRecordBoundary(Spilled(i), kept[i])
  BY <1>0, CrashContents
<1> DEFINE safe == IF kind = "power" THEN kept ELSE synced
<1>2. safe \in Seq(Nat) /\ Len(safe) = Len(files) /\ Reopened(contents, safe)
  BY <1>0, <1>1
<1>3. \A i \in 1..Len(files) :
        /\ safe[i] <= Len(contents[i])
        /\ AllRecordsFit => Len(contents[i]) <= MaxFileSize + Leftover
  BY <1>1, CrashSizes
<1>4. ASSUME NEW i \in 1..Len(files)
      PROVE  /\ Spilled(i) \in Seq(Cell) /\ Len(Spilled(i)) \in Nat
             /\ Cut(Spilled(i), Pipe(i)) /\ Pipe(i) \in Seq(Cell)
             /\ i # Current => Spilled(i) = files[i]
             /\ contents[i] \in Seq(Cell) /\ Cut(contents[i], Spilled(i))
  <2>1. /\ files[i] \in Seq(Cell) /\ InFlightBytes \in Seq(Cell)
        /\ Pipe(i) \in Seq(Cell) /\ Spilled(i) \in Seq(Cell)
    BY <1>0, LogSizes, PipeTypes, SpilledProperties
  <2>2. ASSUME i # Current
        PROVE  Cut(Spilled(i), Pipe(i)) /\ Spilled(i) = files[i]
    <3>1. Spilled(i) = files[i] /\ Pipe(i) = files[i]
      BY <2>2 DEF Spilled, Pipe
    <3> QED
      BY <2>1, <2>2, <3>1, CutItself
  <2>3. ASSUME i = Current
        PROVE  Cut(Spilled(i), Pipe(i))
    <3>1. Cut(stream, InFlightBytes)
      BY <1>0, CutItself, CutOfConcat DEF InFlightBytes
    <3>2. Cut(files[i] \o stream, files[i] \o InFlightBytes)
      BY <1>0, <2>1, <3>1, CutAfter
    <3> QED
      BY <2>3, <3>2 DEF Spilled, Pipe
  <2>4. Cut(Spilled(i), Pipe(i)) /\ (i # Current => Spilled(i) = files[i])
    BY <2>2, <2>3
  <2>5. kept[i] \in 0..Len(Spilled(i)) /\ contents[i] = SubSeq(Spilled(i), 1, kept[i])
    BY <1>1
  <2>6. contents[i] \in Seq(Cell) /\ Cut(contents[i], Spilled(i))
    BY <2>1, <2>5, CutOfSubSeq
  <2> QED
    BY <2>1, <2>4, <2>6, LenProperties
<1>5. \A i \in 1..Len(files) : Cut(contents[i], Pipe(i))
  BY <1>4, CutTrans
<1>6. /\ PipesReopened
      /\ ~Faults => /\ Len(files') = Len(files) /\ synced' = safe
                    /\ \A i \in DOMAIN files : Pipe(i)' = contents[i]
  <2> HIDE DEF safe
  <2> QED
    BY <1>1, <1>2, <1>3, <1>5, ReopenedPipes
<1>7. ASSUME ~Faults, NEW i \in DOMAIN files
      PROVE  /\ Pipe(i)' = files'[i] /\ Cut(Pipe(i)', Pipe(i))
             /\ Len(files'[i]) >= Safe(kind, i) /\ Len(files'[i]) = kept[i]
             /\ i # Current => Len(files'[i]) <= Len(files[i])
             /\ ~TornWrites => AtRecordBoundary(files'[i], Len(files'[i]))
  <2>1. i \in 1..Len(files) /\ i \in 1..Len(files')
    BY <1>0, <1>6, <1>7
  <2>2. Pipe(i)' = contents[i] /\ Pipe(i)' = files'[i]
    BY <1>6, <1>7, <2>1 DEF PipesReopened
  <2>3. /\ kept[i] \in 0..Len(Spilled(i)) /\ kept[i] >= Safe(kind, i)
        /\ Len(contents[i]) = kept[i]
        /\ ~TornWrites => AtRecordBoundary(Spilled(i), kept[i])
    BY <1>1, <2>1
  <2>4. /\ Spilled(i) \in Seq(Cell) /\ Len(Spilled(i)) \in Nat
        /\ i # Current => Spilled(i) = files[i]
        /\ Cut(contents[i], Spilled(i))
    BY <1>4, <2>1
  <2>5. i # Current => Len(files'[i]) <= Len(files[i])
    BY <2>2, <2>3, <2>4
  <2>6. ASSUME ~TornWrites, kept[i] > 0
        PROVE  contents[i][kept[i]].off = RecordSize(contents[i][kept[i]].rec)
    <3>1. Spilled(i)[kept[i]].off = RecordSize(Spilled(i)[kept[i]].rec)
      BY <2>3, <2>6 DEF AtRecordBoundary
    <3>2. kept[i] \in 1..Len(contents[i])
      BY <2>3, <2>4, <2>6
    <3>3. contents[i][kept[i]] = Spilled(i)[kept[i]]
      BY <2>4, <3>2 DEF Cut
    <3> QED
      BY <3>1, <3>3
  <2>7. ~TornWrites => AtRecordBoundary(files'[i], Len(files'[i]))
    BY <2>2, <2>3, <2>6 DEF AtRecordBoundary
  <2>8. Cut(Pipe(i)', Pipe(i))
    BY <1>5, <2>1, <2>2
  <2> QED
    BY <2>2, <2>3, <2>5, <2>7, <2>8
<1>8. ASSUME ~Faults
      PROVE  /\ PipesCut
             /\ kind = "power" => \A i \in DOMAIN files : synced'[i] = Len(files'[i])
             /\ kind # "power" => synced' = synced
  BY <1>6, <1>7, <1>8 DEF PipesCut
<1> QED
  BY <1>6, <1>7, <1>8

\* WriteRecord without a rotation of an open file adds the record's encoding to
\* the current pipe, or nothing once the stream has failed (wal.cpp 123-183).
LEMMA AppendPipes ==
  ASSUME LogInv, NEW r \in Record, AppendToCurrent(r) \/ ReopenAndAppend(r)
  PROVE  /\ Len(files') = Len(files) /\ files' = files
         /\ \A i \in DOMAIN files :
              Pipe(i)' = IF i = Current /\ Carries THEN Pipe(i) \o Encoding(r) ELSE Pipe(i)
<1>0. /\ stream \in Seq(Cell) /\ buffer \in Seq(Cell) /\ streamGood \in BOOLEAN
      /\ isOpen \in BOOLEAN /\ WalTypeOK /\ << >> \in Seq(Cell)
  BY EmptySeq DEF LogInv, WalTypeOK
<1>1. files' = files /\ Current' = Current
  BY DEF AppendToCurrent, ReopenAndAppend, Current
<1>2. CASE AppendToCurrent(r) /\ ~Carries
  <2>1. ~streamGood /\ isOpen
    BY <1>2 DEF Carries, LogInv, ClosedEmpty
  <2>2. /\ AppendPieces(isOpen, streamGood, r, stream, buffer)
        /\ streamGood' = streamGood /\ isOpen' = isOpen
    BY <1>2 DEF AppendToCurrent
  <2>3. stream' = stream
    BY <1>0, <2>1, <2>2, AppendBad
  <2>4. InFlightBytes' = InFlightBytes
    BY <2>1, <2>2, <2>3 DEF InFlightBytes, Carries
  <2> QED
    BY <1>1, <1>2, <2>4 DEF Pipe
<1>3. CASE (AppendToCurrent(r) /\ Carries) \/ ReopenAndAppend(r)
  <2>1. InFlightBytes' = InFlightBytes \o Encoding(r) /\ Carries
    <3>1. CASE AppendToCurrent(r) /\ Carries
      <4>1. /\ AppendPieces(isOpen, streamGood, r, stream, buffer) /\ streamGood = isOpen
            /\ streamGood' = streamGood /\ isOpen' = isOpen
        BY <1>0, <3>1 DEF AppendToCurrent, Carries
      <4>2. AppendPieces(isOpen, isOpen, r, stream, buffer)
        BY <4>1
      <4>3. stream' \o buffer' = (stream \o buffer) \o Encoding(r)
        BY <1>0, <4>2, AppendGood
      <4> QED
        BY <3>1, <4>1, <4>3 DEF InFlightBytes, Carries
    <3>2. CASE ReopenAndAppend(r)
      <4>1. /\ ~isOpen /\ ~streamGood /\ stream = << >>
        BY <3>2 DEF LogInv, ClosedEmpty, ReopenAndAppend
      <4>2. PICK open \in Opens :
              isOpen' = open /\ streamGood' = open /\ AppendPieces(open, open, r, << >>, buffer)
        BY <3>2 DEF ReopenAndAppend
      <4>3. open \in BOOLEAN
        BY BoundsAreNumbers DEF Opens
      <4>4. stream' \o buffer' = (<< >> \o buffer) \o Encoding(r)
        BY <1>0, <4>2, <4>3, AppendGood
      <4> QED
        BY <4>1, <4>2, <4>4 DEF InFlightBytes, Carries
    <3> QED
      BY <1>3, <3>1, <3>2
  <2>2. ASSUME NEW i \in DOMAIN files, i = Current
        PROVE  Pipe(i)' = Pipe(i) \o Encoding(r)
    <3>1. CellSeqs(files[i], InFlightBytes, Encoding(r))
      BY <1>0, LogSizes, PipeTypes, EncodingProperties DEF CellSeqs
    <3>2. Together(files[i], InFlightBytes \o Encoding(r), files[i], InFlightBytes, Encoding(r))
      BY <3>1, Associates
    <3>3. Pipe(i)' = files[i] \o InFlightBytes' /\ Pipe(i) = files[i] \o InFlightBytes
      BY <1>1, <2>2 DEF Pipe
    <3> QED
      BY <2>1, <3>2, <3>3, Zenon DEF Together
  <2>3. ASSUME NEW i \in DOMAIN files, i # Current
        PROVE  Pipe(i)' = Pipe(i)
    BY <1>1, <2>3 DEF Pipe
  <2> QED
    BY <1>1, <2>1, <2>2, <2>3
<1> QED
  BY <1>2, <1>3

\* RotateLog writes the pipe of the current file out and starts an empty one, to
\* which the record is the first to be written.
LEMMA RotatePipes ==
  ASSUME LogInv, NEW r \in Record, RotateAndAppend(r)
  PROVE  /\ Len(files') = Len(files) + 1 /\ files'[Current + 1] = << >>
         /\ \A i : i = Len(files) + 1 => Pipe(i)' = Encoding(r)
         /\ \A i \in DOMAIN files :
              /\ Cut(Pipe(i)', Pipe(i)) /\ (~Faults => Pipe(i)' = Pipe(i))
              /\ Pipe(i)' = files'[i]
<1> DEFINE t == Flushed(streamGood, stream, buffer)
<1>0. /\ t \in Seq(Cell) /\ Len(t) \in Nat /\ WalTypeOK
      /\ stream \in Seq(Cell) /\ buffer \in Seq(Cell) /\ stream \o buffer \in Seq(Cell)
      /\ Len(files) \in Nat \ {0} /\ DOMAIN files = 1..Len(files) /\ Current = Len(files)
  BY FlushedProperties, ConcatProperties, LogSizes DEF LogInv, WalTypeOK, Current
<1>1. PICK n \in Accepted(t) :
             files' = Append([files EXCEPT ![Current] = @ \o SubSeq(t, 1, n)], << >>)
  BY DEF RotateAndAppend
<1>2. /\ Cut(t, InFlightBytes) /\ InFlightBytes \in Seq(Cell)
      /\ ~Faults => t = InFlightBytes
  <2>1. Cut(stream, stream \o buffer) /\ Cut(stream, stream)
        /\ Cut(stream \o buffer, stream \o buffer)
    BY <1>0, CutItself, CutOfConcat
  <2>2. streamGood => Carries
    BY DEF LogInv, ClosedEmpty, Carries
  <2>3. ~Faults => streamGood
    BY DEF LogInv, Healthy
  <2> QED
    BY <1>0, <2>1, <2>2, <2>3, PipeTypes DEF InFlightBytes, Flushed
<1>a. n \in 0..Len(t) /\ (~Faults => n = Len(t))
  BY <1>0, <1>1, AcceptedBytes DEF LogInv, Healthy
<1> HIDE DEF t
<1> DEFINE u == SubSeq(t, 1, n)
<1>3. u \in Seq(Cell) /\ Cut(u, t) /\ Len(u) = n
  BY <1>0, <1>a, CutOfSubSeq
<1>5. ~Faults => u = t
  <2> SUFFICES ASSUME ~Faults PROVE u = t
    OBVIOUS
  <2> HIDE DEF u
  <2> QED
    BY <1>0, <1>a, <1>3, SeqEqual DEF Cut
<1> DEFINE ext == [files EXCEPT ![Current] = @ \o u]
<1>6. /\ ext \in Seq(Seq(Cell)) /\ Len(ext) = Len(files)
      /\ \A i \in DOMAIN files : ext[i] = IF i = Current THEN files[i] \o u ELSE files[i]
  BY <1>0, <1>3, ExtendedFiles
<1>7. files' = Append(ext, << >>)
  BY <1>1
<1> HIDE DEF u, ext
<1>8. /\ files' \in Seq(Seq(Cell)) /\ Len(files') = Len(files) + 1
      /\ files'[Len(files) + 1] = << >> /\ \A i \in DOMAIN files : files'[i] = ext[i]
  <2>1. << >> \in Seq(Cell)
    BY EmptySeq
  <2> QED
    BY <1>0, <1>6, <1>7, <2>1, AppendProperties
<1>9. PICK open \in Opens :
        isOpen' = open /\ streamGood' = open /\ AppendPieces(open, open, r, << >>, << >>)
  BY DEF RotateAndAppend
<1>10. InFlightBytes' = Encoding(r)
  <2>1. << >> \in Seq(Cell) /\ << >> \o << >> = << >>
    BY EmptySeq
  <2>a. open \in BOOLEAN
    BY <1>9 DEF Opens
  <2>2. stream' \o buffer' = (<< >> \o << >>) \o Encoding(r)
    BY <1>9, <2>1, <2>a, AppendGood
  <2>3. << >> \o Encoding(r) = Encoding(r)
    BY EncodingProperties, ConcatEmptySeq
  <2>4. stream' \o buffer' = Encoding(r)
    BY <2>1, <2>2, <2>3, Zenon
  <2> QED
    BY <1>9, <2>4, Zenon DEF InFlightBytes, Carries
<1>11. Current' = Len(files) + 1
  BY <1>8 DEF Current
<1>12. ASSUME NEW i, i = Len(files) + 1
       PROVE  Pipe(i)' = Encoding(r)
  <2>1. << >> \o Encoding(r) = Encoding(r)
    BY EncodingProperties, ConcatEmptySeq
  <2>2. Pipe(i)' = files'[i] \o InFlightBytes'
    BY <1>11, <1>12 DEF Pipe
  <2>3. files'[i] = << >>
    BY <1>8, <1>12
  <2> QED
    BY <1>10, <2>1, <2>2, <2>3, Zenon
<1>13. ASSUME NEW i \in DOMAIN files
       PROVE  /\ Cut(Pipe(i)', Pipe(i)) /\ (~Faults => Pipe(i)' = Pipe(i))
              /\ Pipe(i)' = files'[i]
  <2>1. files[i] \in Seq(Cell)
    BY <1>0, LogSizes
  <2>2. Cut(u, InFlightBytes)
    BY <1>0, <1>2, <1>3, CutTrans
  <2>3. Cut(files[i] \o u, files[i] \o InFlightBytes) /\ Cut(files[i], files[i])
    BY <1>2, <1>3, <2>1, <2>2, CutAfter, CutItself
  <2>4. Pipe(i) = IF i = Current THEN files[i] \o InFlightBytes ELSE files[i]
    BY DEF Pipe
  <2>5. i # Current'
    BY <1>0, <1>11
  <2>6. Pipe(i)' = files'[i]
    BY <2>5 DEF Pipe
  <2>7. files'[i] = IF i = Current THEN files[i] \o u ELSE files[i]
    BY <1>6, <1>8
  <2>8. Cut(Pipe(i)', Pipe(i))
    BY <2>3, <2>4, <2>6, <2>7
  <2>9. ~Faults => Pipe(i)' = Pipe(i)
    BY <1>2, <1>5, <2>4, <2>6, <2>7
  <2> QED
    BY <2>6, <2>8, <2>9
<1> QED
  BY <1>0, <1>8, <1>12, <1>13
=============================================================================
