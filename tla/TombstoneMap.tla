---------------------------- MODULE TombstoneMap ----------------------------
(***************************************************************************)
(* What a memtable promises: a map from keys to their newest writes, in    *)
(* which a deleted key keeps an entry that says so, and the largest        *)
(* sequence number it was given.  MemTable implements it.                  *)
(***************************************************************************)
EXTENDS Integers

CONSTANTS Key, Value, Sequence, Empty

VARIABLES
  entries,          \* the keys written, each with its last write
  newest            \* the largest sequence number written

mapVars == <<entries, newest>>

Init == entries = << >> /\ newest = 0

Write(key, entry) ==
  /\ entries' = [k \in DOMAIN entries \cup {key} |->
                   IF k = key THEN entry ELSE entries[k]]
  /\ newest' = IF entry.seq > newest THEN entry.seq ELSE newest

Put(key, value, seq) == Write(key, [value |-> value, seq |-> seq, deleted |-> FALSE])

Delete(key, seq) == Write(key, [value |-> Empty, seq |-> seq, deleted |-> TRUE])

Next == \E key \in Key, seq \in Sequence :
          Delete(key, seq) \/ \E value \in Value : Put(key, value, seq)

Spec == Init /\ [][Next]_mapVars
=============================================================================
