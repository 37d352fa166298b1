----------------------------- MODULE MCKVEngine -----------------------------
(* Instances of KVEngine for TLC: sizes in cells.  The key "empty" has size *)
(* 0, as an empty std::string; v2 is larger than v1, and big is larger than *)
(* a write_buffer of 2 cells.                                               *)
EXTENDS KVEngine

CONSTANTS k1, empty, v1, v2, big

MCKeySize == [k \in Key |-> IF k = empty THEN 0 ELSE 1]
MCValueSize == [v \in Value |-> CASE v = big -> 3 [] v = v2 -> 2 [] OTHER -> 1]
=============================================================================
