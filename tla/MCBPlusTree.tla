---------------------------- MODULE MCBPlusTree ----------------------------
(* Instances of BPlusTree for TLC.                                          *)
EXTENDS TreeReads

CONSTANTS a, b

MCKey == 1..12

\* Neighbouring keys have different values, so a value that stays behind
\* when its key moves to another leaf is seen.
ValueFor(k)   == IF k % 2 = 0 THEN a ELSE b
Puts(keys)    == [i \in DOMAIN keys |-> [op |-> "put", key |-> keys[i], val |-> ValueFor(keys[i])]]
Deletes(keys) == [i \in DOMAIN keys |-> [op |-> "delete", key |-> keys[i]]]

\* With three keys a node, ten keys put in order make three levels.
Upwards   == [i \in 1..10 |-> i + 1]
Downwards == [i \in 1..10 |-> 12 - i]

\* Full trees, and thinned ones in which any deletion can reach the root.
MCPreloads ==
  {<< >>, Puts(Upwards), Puts(Downwards),
   Puts(Upwards) \o Deletes(<<2, 4, 6, 8>>),
   Puts(Downwards) \o Deletes(<<11, 9, 7, 5>>)}

\* Without start (-1), from the empty key (0), from and to keys that split
\* leaves and keys that do not, past the last key; without limit (-1).
MCRanges ==
  {<<-1, -1>>, <<-1, 0>>, <<0, 13>>, <<5, -1>>, <<6, 9>>, <<9, 6>>, <<3, 7>>, <<12, -1>>}

\* States are told apart by all but the last call: no step and no invariant
\* reads it, and TLC checks every step against it all the same.
CurrentTree ==
  <<maxKeys, heap, rootId, rootIsLeaf, size, height, status, contents, calls>>
=============================================================================
