--------------------------- MODULE SSTableBuilder ---------------------------
(***************************************************************************)
(* The builder of src/sstable/sstable.cpp: sorted entries into blocks with *)
(* shortened keys, an index of the blocks, and a file.  A builder is a     *)
(* record of its fields; the operators here are what its methods make of   *)
(* it.  The bytes of a block are a sequence of entries and restart points; *)
(* the Bloom filter and the keys of the meta block, which are never set,   *)
(* are left out.                                                           *)
(***************************************************************************)
EXTENDS MemTable

CONSTANTS
  BlockSize,        \* options.block_size
  RestartInterval,  \* options.block_restart_interval
  EntryHeader,      \* bytes before an entry's key: 17 in the code
  WordSize,         \* bytes of a restart point: 4 in the code
  MetaSize,         \* bytes of the meta block
  SeqModulus        \* 2^32: an entry keeps the low half of its number

ASSUME BuilderAssumption ==
  /\ {EntryHeader, WordSize, MetaSize} \subseteq Nat
  /\ {RestartInterval, SeqModulus} \subseteq Nat \ {0}
  /\ BlockSize \in Nat /\ BlockSize >= EntryHeader

NoSequence == -1    \* UINT64_MAX in min_seq

NewBuilder ==
  [block |-> << >>,         \* current_block
   restarts |-> << >>,      \* restart_points; ResetBlock puts in the first
   lastKey |-> Empty,
   blockOffset |-> 0,
   index |-> << >>,         \* index_entries
   minSeq |-> NoSequence, maxSeq |-> 0,
   count |-> 0,             \* num_entries_
   capacity |-> BlockSize,  \* of current_block
   open |-> FALSE,          \* the file is open
   named |-> FALSE,         \* filename is set
   file |-> << >>,          \* the blocks that went into an open file
   closed |-> << >>,        \* ghost: all the blocks, written or not
   dangling |-> FALSE,      \* ghost: a header went through a stale pointer
   state |-> "building"]    \* or finished_, or abandoned_

EntrySize(e) == EntryHeader + Len(e.unshared) + Len(e.value)
Bytes(block) == FoldLeft(LAMBDA n, e : n + EntrySize(e), 0, block)

\* Mutant: the restart points of the block before stay.
ResetKeepsRestarts(b) == [b EXCEPT !.block = << >>, !.lastKey = Empty]

ResetBlock(b) == [b EXCEPT !.block = << >>, !.restarts = <<0>>, !.lastKey = Empty]

\* file.write does nothing as long as Finish has not opened the file; the
\* offsets and the index go on all the same.
FlushBlock(b) ==
  LET bytes == Bytes(b.block) + WordSize * (Len(b.restarts) + 1)
      full == [entries |-> b.block, restarts |-> b.restarts]
  IN  IF b.block = << >> THEN b
      ELSE ResetBlock([b EXCEPT
             !.file = IF b.open THEN Append(@, full) ELSE @,
             !.closed = Append(@, full),
             !.blockOffset = @ + bytes,
             !.index = Append(@, [key |-> b.lastKey, offset |-> b.blockOffset, size |-> bytes]),
             !.capacity = Larger(@, bytes)])

\* The shared prefix is taken from last_key before the block may be closed,
\* and the header goes where current_block ended before it was resized.
AddToBlock(b, key, value, seq, deleted) ==
  LET shared == Len(LongestCommonPrefix({b.lastKey, key}))
      entry == [shared |-> shared, unshared |-> SubSeq(key, shared + 1, Len(key)),
                value |-> value, seq |-> seq % SeqModulus, deleted |-> deleted]
      full == b.block # << >> /\ Bytes(b.block) + EntrySize(entry) > BlockSize
      into == IF full THEN FlushBlock(b) ELSE b
      start == Bytes(into.block)
      block == Append(into.block, entry)
  IN  [into EXCEPT
         !.block = block,
         !.lastKey = key,
         !.restarts = IF Len(block) % RestartInterval = 0 THEN Append(@, start) ELSE @,
         !.dangling = @ \/ start + EntryHeader > into.capacity,
         !.capacity = Larger(@, start + EntrySize(entry))]

\* Add refuses a closed builder, and a key that is not after the last one.
Accepts(b, key) ==
  b.state = "building" /\ (b.count > 0 => Before(b.lastKey, key))

Add(b, key, value, seq, deleted) ==
  AddToBlock([b EXCEPT
    !.minSeq = IF @ = NoSequence \/ seq < @ THEN seq ELSE @,
    !.maxSeq = Larger(@, seq),
    !.count = @ + 1], key, value, seq, deleted)

\* Finish up to the index block, with the file open and empty.
Opened(b) ==
  FlushBlock([b EXCEPT !.named = TRUE, !.open = TRUE, !.file = << >>])

\* WriteIndexBlock takes the address of the first byte of an empty vector
\* before it grows it: the first entry of an index goes to a null pointer.
IndexKills(b) == b.index # << >>

\* The rest of Finish with an empty index: the blocks that follow, the
\* footer, and close.
Closed(b, good) ==
  [b EXCEPT !.open = FALSE,
            !.blockOffset = @ + 2 * WordSize + MetaSize,
            !.state = IF good THEN "finished" ELSE @]

\* Abandon takes the file away, whatever state the builder is in.
Abandon(b) ==
  [b EXCEPT !.state = "abandoned", !.open = FALSE,
            !.file = IF b.named THEN << >> ELSE @]

-----------------------------------------------------------------------------
(* What a reader that goes through the blocks in order gets back.          *)

\* One entry after the ones already decoded, its key completed from the one
\* before it, as far as that goes.
DecodeNext(done, e) ==
  LET lastKey == IF done = << >> THEN Empty ELSE Last(done).key
      kept == IF e.shared <= Len(lastKey) THEN SubSeq(lastKey, 1, e.shared) ELSE lastKey
  IN  Append(done, [key |-> kept \o e.unshared,
                    value |-> e.value, seq |-> e.seq, deleted |-> e.deleted])

EntriesIn(blocks) == FoldLeft(LAMBDA es, block : es \o block.entries, << >>, blocks)

Decode(blocks) == FoldLeft(DecodeNext, << >>, EntriesIn(blocks))

\* The blocks of b, the one in progress at the end.
AllBlocks(b) ==
  IF b.block = << >> THEN b.closed
  ELSE Append(b.closed, [entries |-> b.block, restarts |-> b.restarts])

\* An index entry says where its block is and what its last key is; restart
\* points are starts of entries.
IndexMatches(b) ==
  /\ Len(b.index) = Len(b.closed)
  /\ \A i \in DOMAIN b.index :
       LET block == b.closed[i]
       IN  /\ b.index[i].key = Last(Decode(SubSeq(b.closed, 1, i))).key
           /\ b.index[i].size = Bytes(block.entries) + WordSize * (Len(block.restarts) + 1)
           /\ b.index[i].offset + b.index[i].size =
                IF i = Len(b.index) THEN b.blockOffset ELSE b.index[i + 1].offset
  /\ \A i \in DOMAIN AllBlocks(b) :
       LET entries == AllBlocks(b)[i].entries
       IN  Range(AllBlocks(b)[i].restarts) \subseteq
             {Bytes(SubSeq(entries, 1, n)) : n \in 0..(Len(entries) - 1)}
=============================================================================
