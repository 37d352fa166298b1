------------------------------ MODULE MemTable ------------------------------
(***************************************************************************)
(* The skip list of src/memtable/memtable.cpp and its counters.  A table   *)
(* has one owner: its callers are the flush thread that was given it, and  *)
(* nobody else.  Keys and values are strings: sequences of letters.        *)
(***************************************************************************)
EXTENDS Integers, SequencesExt

CONSTANTS
  Key,              \* strings
  Value,            \* strings, the empty one among them
  Sequence,         \* sequence numbers; callers pass any, in any order
  MaxLevel,         \* options.max_level
  NodeSize,         \* sizeof(Node)
  PointerSize,      \* sizeof(void*)
  SizeModulus       \* 2^64 in the code: size_t wraps

Empty == << >>

ASSUME TableAssumption ==
  /\ Key \cup Value \subseteq Seq(Nat)
  /\ Empty \in Value
  /\ Sequence \subseteq Nat \ {0}
  /\ MaxLevel \in Nat \ {0}
  /\ NodeSize \in Nat /\ PointerSize \in Nat
  /\ SizeModulus \in Nat \ {0}

VARIABLES
  nodes,            \* the nodes in the order of their allocation, head first
  currentMaxLevel,  \* current_max_level
  size,             \* size_
  memoryUsage,      \* memory_usage_
  maxSequence,      \* max_sequence_
  killed,           \* the process was ended by a null pointer
  revived           \* ghost: how often a Put found a tombstone

tableVars == <<nodes, currentMaxLevel, size, memoryUsage, maxSequence, killed, revived>>

HeadNode == 1
Null == 0

Larger(a, b) == IF a > b THEN a ELSE b

\* Mutant: the letters are compared and the lengths are not.
BeforeByLetters(a, b) ==
  \E i \in DOMAIN a \cap DOMAIN b :
    SubSeq(a, 1, i - 1) = SubSeq(b, 1, i - 1) /\ a[i] < b[i]

\* Slice::compare: a is before b.
Before(a, b) ==
  \/ IsStrictPrefix(a, b)
  \/ \E i \in DOMAIN a \cap DOMAIN b :
       /\ SubSeq(a, 1, i - 1) = SubSeq(b, 1, i - 1)
       /\ a[i] < b[i]

NewNode(key, value, level, seq, deleted) ==
  [key |-> key, value |-> value, seq |-> seq, deleted |-> deleted,
   forward |-> [i \in 0..(level - 1) |-> Null]]

TableInit ==
  /\ nodes = <<NewNode(Empty, Empty, MaxLevel + 1, 0, FALSE)>>
  /\ currentMaxLevel = 1
  /\ size = 0
  /\ memoryUsage = 0
  /\ maxSequence = 0
  /\ killed = FALSE
  /\ revived = 0

-----------------------------------------------------------------------------
(* Searching.                                                              *)

\* Where a search can be: at a node, on a level in use.
Places == (DOMAIN nodes) \X (0..(currentMaxLevel - 1))

\* The first node with a key not before key, or Null, and in prev the nodes
\* at which the search went down; levels not in use keep a null prev.
FindGreaterOrEqual(key) ==
  LET find[at \in Places] ==
        LET current == at[1]
            level == at[2]
            next == nodes[current].forward[level]
            below == find[<<current, level - 1>>]
        IN  IF next # Null /\ Before(nodes[next].key, key)
              THEN find[<<next, level>>]
            ELSE IF level = 0
              THEN [next |-> next, prev |-> [i \in 0..MaxLevel |-> IF i = 0 THEN current ELSE Null]]
              ELSE [below EXCEPT !.prev[level] = current]
  IN  find[<<HeadNode, currentMaxLevel - 1>>]

FindLast ==
  LET last[at \in Places] ==
        LET current == at[1]
            level == at[2]
            next == nodes[current].forward[level]
        IN  IF next # Null THEN last[<<next, level>>]
            ELSE IF level = 0 THEN current
            ELSE last[<<current, level - 1>>]
  IN  last[<<HeadNode, currentMaxLevel - 1>>]

Holds(node, key) == node # Null /\ nodes[node].key = key

\* Contains: tombstones count.
HasKey(key) == Holds(FindGreaterOrEqual(key).next, key)

\* Get: the value and its number, or nothing for NotFound.
Get(key) ==
  LET node == FindGreaterOrEqual(key).next
  IN  IF Holds(node, key) /\ ~nodes[node].deleted
        THEN <<nodes[node].value, nodes[node].seq>>
        ELSE << >>

-----------------------------------------------------------------------------
(* Writing.                                                                *)

\* Mutant: the level of the list is raised one too far.
InsertRaisesTwice(node, prev) ==
  LET levels == DOMAIN node.forward
      new == Len(nodes) + 1
      linked == [node EXCEPT !.forward = [i \in levels |-> nodes[prev[i]].forward[i]]]
  IN  IF \E i \in levels : prev[i] = Null
        THEN killed' = TRUE /\ UNCHANGED <<nodes, currentMaxLevel>>
        ELSE /\ nodes' = Append([n \in DOMAIN nodes |->
                           [nodes[n] EXCEPT !.forward = [i \in DOMAIN @ |->
                              IF i \in levels /\ prev[i] = n THEN new ELSE @[i]]]], linked)
             /\ currentMaxLevel' = Larger(currentMaxLevel, Cardinality(levels) + 1)
             /\ UNCHANGED killed

\* InsertNode reads prev[i] for every level of the node before it looks at
\* current_max_level: a node taller than the list follows a null pointer.
InsertNode(node, prev) ==
  LET levels == DOMAIN node.forward
      new == Len(nodes) + 1
      linked == [node EXCEPT !.forward = [i \in levels |-> nodes[prev[i]].forward[i]]]
  IN  IF \E i \in levels : prev[i] = Null
        THEN killed' = TRUE /\ UNCHANGED <<nodes, currentMaxLevel>>
        ELSE /\ nodes' = Append([n \in DOMAIN nodes |->
                           [nodes[n] EXCEPT !.forward = [i \in DOMAIN @ |->
                              IF i \in levels /\ prev[i] = n THEN new ELSE @[i]]]], linked)
             /\ currentMaxLevel' = Larger(currentMaxLevel, Cardinality(levels))
             /\ UNCHANGED killed

\* A new node of any level RandomLevel can return.
Insert(found, key, value, seq, deleted) ==
  \E level \in 1..MaxLevel :
    /\ InsertNode(NewNode(key, value, level, seq, deleted), found.prev)
    /\ IF killed'
         THEN UNCHANGED <<size, memoryUsage, maxSequence>>
         ELSE /\ size' = IF deleted THEN size ELSE (size + 1) % SizeModulus
              /\ memoryUsage' = (memoryUsage + Len(key) + Len(value)
                                   + NodeSize + level * PointerSize) % SizeModulus
              /\ maxSequence' = Larger(maxSequence, seq)
    /\ UNCHANGED revived

\* Mutant: memory_usage_ does not follow the size of the value.
OverwriteUncharged(node, value, seq, deleted) ==
  /\ nodes' = [nodes EXCEPT ![node] =
                 [@ EXCEPT !.value = value, !.seq = seq, !.deleted = deleted]]
  /\ maxSequence' = Larger(maxSequence, seq)
  /\ UNCHANGED <<currentMaxLevel, memoryUsage, killed>>

\* An entry that is there already, written again in place.
Overwrite(node, value, seq, deleted) ==
  /\ nodes' = [nodes EXCEPT ![node] =
                 [@ EXCEPT !.value = value, !.seq = seq, !.deleted = deleted]]
  /\ memoryUsage' = (memoryUsage + Len(value) - Len(nodes[node].value)) % SizeModulus
  /\ maxSequence' = Larger(maxSequence, seq)
  /\ UNCHANGED <<currentMaxLevel, killed>>

\* Put on a tombstone leaves size_ as Delete left it.
Put(key, value, seq) ==
  LET found == FindGreaterOrEqual(key)
  IN  IF Holds(found.next, key)
        THEN /\ Overwrite(found.next, value, seq, FALSE)
             /\ revived' = IF nodes[found.next].deleted
                             THEN (revived + 1) % SizeModulus ELSE revived
             /\ UNCHANGED size
        ELSE Insert(found, key, value, seq, FALSE)

\* Mutant: a tombstone keeps the value it replaces.
DeleteKeepsValue(key, seq) ==
  LET found == FindGreaterOrEqual(key)
  IN  IF Holds(found.next, key)
        THEN /\ Overwrite(found.next, nodes[found.next].value, seq, TRUE)
             /\ size' = IF nodes[found.next].deleted
                          THEN size ELSE (size - 1) % SizeModulus
             /\ UNCHANGED revived
        ELSE Insert(found, key, Empty, seq, TRUE)

Delete(key, seq) ==
  LET found == FindGreaterOrEqual(key)
  IN  IF Holds(found.next, key)
        THEN /\ Overwrite(found.next, Empty, seq, TRUE)
             /\ size' = IF nodes[found.next].deleted
                          THEN size ELSE (size - 1) % SizeModulus
             /\ UNCHANGED revived
        ELSE Insert(found, key, Empty, seq, TRUE)

-----------------------------------------------------------------------------
(* Reading along level 0: iterators, Print, Verify.                        *)

\* The nodes an iterator visits from node on.
From(node) ==
  LET walk[n \in 0..Len(nodes)] ==
        IF n = Null THEN << >> ELSE <<n>> \o walk[nodes[n].forward[0]]
  IN  walk[node]

Walk == From(nodes[HeadNode].forward[0])

Verify == \A i \in 1..(Len(Walk) - 1) : Before(nodes[Walk[i]].key, nodes[Walk[i + 1]].key)

LiveEntries == {n \in Range(Walk) : ~nodes[n].deleted}

\* The table as a map.
EntryOf(node) == [value |-> nodes[node].value, seq |-> nodes[node].seq,
                  deleted |-> nodes[node].deleted]
Entries == [k \in {nodes[n].key : n \in Range(Walk)} |->
              EntryOf(CHOOSE n \in Range(Walk) : nodes[n].key = k)]

Map == INSTANCE TombstoneMap WITH entries <- Entries, newest <- maxSequence

-----------------------------------------------------------------------------
(* Properties.                                                             *)

TableTypeOK ==
  /\ \A n \in DOMAIN nodes :
       /\ n # HeadNode => nodes[n].key \in Key
       /\ nodes[n].value \in Value
       /\ nodes[n].seq \in Sequence \cup {0}
       /\ Range(nodes[n].forward) \subseteq {Null} \cup (2..Len(nodes))
  /\ currentMaxLevel \in 1..MaxLevel
  /\ {size, memoryUsage, revived} \subseteq 0..(SizeModulus - 1)
  /\ maxSequence \in Sequence \cup {0}
=============================================================================
