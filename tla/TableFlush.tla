----------------------------- MODULE TableFlush -----------------------------
(***************************************************************************)
(* A memtable is filled, then PerformFlush of src/flush/flush.cpp moves it *)
(* into a file; or a caller drives a builder of its own, with keys in any  *)
(* order.  PerformFlush owns the table it is given, so nothing writes to   *)
(* it during the scan.  FlushManager has the threads and the queue.        *)
(***************************************************************************)
EXTENDS SSTableBuilder

CONSTANTS
  MaxAdds,          \* bound: entries a caller adds to its own builder
  MaxOffset         \* bound: offset from which it tries Finish no more

ASSUME FlushAssumption == {MaxAdds, MaxOffset} \subseteq Nat

VARIABLES
  phase,            \* what is being done
  builder,
  cursor,           \* the node the iterator is at
  result,           \* what PerformFlush returned
  added             \* ghost: the entries Add accepted

flushVars == <<phase, builder, cursor, result, added>>
vars == <<tableVars, flushVars>>

Init ==
  /\ TableInit
  /\ phase \in {"filling", "building"}
  /\ builder = NewBuilder
  /\ cursor = Null
  /\ result = "none"
  /\ added = << >>

Running == ~killed

-----------------------------------------------------------------------------
(* Filling the table.                                                      *)

Fill ==
  /\ Running /\ phase = "filling"
  /\ \E key \in Key, seq \in Sequence :
       Delete(key, seq) \/ \E value \in Value : Put(key, value, seq)
  /\ UNCHANGED flushVars

-----------------------------------------------------------------------------
(* PerformFlush.                                                           *)

Return(status) == phase' = "over" /\ result' = status

\* A table whose size_ is 0 is let go with OK, whatever it holds.
FlushNothing ==
  /\ Running /\ phase = "filling"
  /\ size = 0
  /\ Return("OK")
  /\ UNCHANGED <<tableVars, builder, cursor, added>>

StartScan ==
  /\ Running /\ phase = "filling"
  /\ size # 0
  /\ phase' = "scanning"
  /\ cursor' = nodes[HeadNode].forward[0]
  /\ UNCHANGED <<tableVars, builder, result, added>>

AddEntry(key, value, seq, deleted) ==
  /\ Accepts(builder, key)
  /\ builder' = Add(builder, key, value, seq, deleted)
  /\ added' = Append(added, [key |-> key, value |-> value, seq |-> seq, deleted |-> deleted])

\* Mutant: tombstones are left out.
ScanLiveOnly ==
  /\ Running /\ phase = "scanning"
  /\ cursor # Null
  /\ LET node == nodes[cursor]
     IN  IF node.deleted
           THEN UNCHANGED <<builder, added>>
           ELSE AddEntry(node.key, node.value, node.seq, node.deleted)
  /\ cursor' = nodes[cursor].forward[0]
  /\ UNCHANGED <<tableVars, phase, result>>

ScanStep ==
  /\ Running /\ phase = "scanning"
  /\ cursor # Null
  /\ LET node == nodes[cursor]
     IN  IF Accepts(builder, node.key)
           THEN /\ AddEntry(node.key, node.value, node.seq, node.deleted)
                /\ cursor' = node.forward[0]
                /\ UNCHANGED <<phase, result>>
           ELSE Return("InvalidArgument") /\ UNCHANGED <<builder, cursor, added>>
  /\ UNCHANGED tableVars

\* Finish, by whoever drives the builder: the file cannot be opened, or the
\* index ends the process, or close reports how the writes went.
Finish ==
  \/ /\ builder' = [builder EXCEPT !.named = TRUE]
     /\ result' = "IOError"
     /\ UNCHANGED killed
  \/ /\ IndexKills(Opened(builder))
     /\ builder' = Opened(builder)
     /\ killed' = TRUE
     /\ UNCHANGED result
  \/ /\ ~IndexKills(Opened(builder))
     /\ \E good \in BOOLEAN :
          /\ builder' = Closed(Opened(builder), good)
          /\ result' = IF good THEN "OK" ELSE "IOError"
     /\ UNCHANGED killed

FinishScan ==
  /\ Running /\ phase = "scanning"
  /\ cursor = Null
  /\ Finish
  /\ phase' = "over"
  /\ UNCHANGED <<nodes, currentMaxLevel, size, memoryUsage, maxSequence, revived, cursor, added>>

-----------------------------------------------------------------------------
(* A builder in the hands of a caller.                                     *)

CallAdd ==
  /\ Running /\ phase = "building"
  /\ Len(added) < MaxAdds
  /\ \E key \in Key, value \in Value, seq \in Sequence, deleted \in BOOLEAN :
       AddEntry(key, value, seq, deleted)
  /\ UNCHANGED <<tableVars, phase, cursor, result>>

CallFinish ==
  /\ Running /\ phase = "building"
  /\ builder.state = "building"
  /\ builder.blockOffset < MaxOffset
  /\ Finish
  /\ UNCHANGED <<nodes, currentMaxLevel, size, memoryUsage, maxSequence, revived,
                 phase, cursor, added>>

CallAbandon ==
  /\ Running /\ phase = "building"
  /\ builder' = Abandon(builder)
  /\ UNCHANGED <<tableVars, phase, cursor, result, added>>

Next ==
  \/ Fill \/ FlushNothing \/ StartScan \/ ScanStep \/ FinishScan
  \/ CallAdd \/ CallFinish \/ CallAbandon

Spec == Init /\ [][Next]_vars

-----------------------------------------------------------------------------
(* Properties.                                                             *)

\* Every key is where a search for it ends: FindGreaterOrEqual, FindLast,
\* Get and Contains agree with the list along level 0, which is in order and
\* has no key twice.
LookupsFindEntries ==
  /\ Verify
  /\ FindLast = IF Walk = << >> THEN HeadNode ELSE Last(Walk)
  /\ \A key \in Key :
       LET notBefore == {i \in DOMAIN Walk : ~Before(nodes[Walk[i]].key, key)}
       IN  /\ FindGreaterOrEqual(key).next = IF notBefore = {} THEN Null ELSE Walk[Min(notBefore)]
           /\ HasKey(key) <=> key \in DOMAIN Entries
           /\ Get(key) # << >> <=> \E n \in LiveEntries : nodes[n].key = key

\* The counters against the list, through every update in place:
\* memory_usage_ is the sum over the nodes, and size_ is the number of live
\* entries less one for each time a Put brought back a deleted key.
CountersExact ==
  LET Charge(sum, n) == sum + Len(nodes[n].key) + Len(nodes[n].value)
                          + NodeSize + Cardinality(DOMAIN nodes[n].forward) * PointerSize
  IN  /\ memoryUsage = FoldLeft(Charge, 0, Walk) % SizeModulus
      /\ size = (Cardinality(LiveEntries) - revived) % SizeModulus

\* The blocks, read in order, give back what was added, with the low half of
\* its sequence number, although the first key of a block is shortened
\* against a key of the block before; the index says where they lie, and no
\* header is written behind the storage of its block.
BlocksHoldEntries ==
  /\ Decode(AllBlocks(builder)) =
       [i \in DOMAIN added |-> [added[i] EXCEPT !.seq = @ % SeqModulus]]
  /\ builder.count = Len(added)
  /\ IndexMatches(builder)
  /\ ~builder.dangling

\* PerformFlush hands the builder the table's entries up to its cursor, each
\* once, in order, tombstones too, and the builder never refuses one; when it
\* answers OK it has dropped nothing but tombstones, as long as no deleted
\* key was ever put back.
FlushTakesTable ==
  LET Entry(n) == [key |-> nodes[n].key, value |-> nodes[n].value,
                   seq |-> nodes[n].seq, deleted |-> nodes[n].deleted]
      left == From(cursor)
  IN  /\ phase = "scanning" =>
           /\ added = [i \in 1..(Len(Walk) - Len(left)) |-> Entry(Walk[i])]
           /\ left = SubSeq(Walk, Len(added) + 1, Len(Walk))
           /\ cursor # Null => Accepts(builder, nodes[cursor].key)
      /\ phase = "over" /\ result = "OK" /\ revived = 0 => LiveEntries = {}

\* The memtable implements the map of newest writes.
ImplementsTombstoneMap == Map!Spec
=============================================================================
