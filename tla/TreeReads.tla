----------------------------- MODULE TreeReads ------------------------------
(***************************************************************************)
(* What reads a whole tree: the range scans, along the chain of leaves,    *)
(* and Verify.  Both run under the tree's shared lock.                     *)
(***************************************************************************)
EXTENDS BPlusTree

CONSTANT
  Ranges            \* the range scans to try: pairs of a start and a limit

ASSUME RangesAssumption == Ranges \subseteq Int \X Int

-----------------------------------------------------------------------------
(* Range scans: Iterator::Impl, Next and Seek.                             *)

NoStart == -1       \* an iterator made without a start key
NoLimit == -1       \* or without a limit

Infinity == 1 + CHOOSE k \in Key : \A j \in Key : j <= k

BeforeLimit(k, limit) == limit = NoLimit \/ k < limit

\* A position is a leaf and an index in it; leaf 0 is the end.
End == [leaf |-> 0, idx |-> 0]
KeyAt(p) == heap.nodes[p.leaf].keys[p.idx + 1]

RECURSIVE SkipEmptyOrPastLimit(_, _)
SkipEmptyOrPastLimit(p, limit) ==
  IF p.leaf = 0 THEN p
  ELSE IF p.idx < Len(heap.nodes[p.leaf].keys) /\ BeforeLimit(KeyAt(p), limit) THEN p
  ELSE SkipEmptyOrPastLimit([leaf |-> heap.nodes[p.leaf].next, idx |-> 0], limit)

RECURSIVE LeftmostLeaf(_)
LeftmostLeaf(id) ==
  IF id = 0 \/ heap.nodes[id].leaf THEN id ELSE LeftmostLeaf(ChildAt(heap.nodes[id], 0))

\* Mutant of Seek: the start of a range is excluded.
SeekAfter(k, limit) ==
  LET leaf == FindLeaf(Members, k)
  IN  IF leaf = 0 THEN End
      ELSE SkipEmptyOrPastLimit(
             [leaf |-> leaf, idx |-> UpperBound(heap.nodes[leaf].keys, k)], limit)

\* Seek, and FindFirst with a start key.
Seek(k, limit) ==
  LET leaf == FindLeaf(Members, k)
  IN  IF leaf = 0 THEN End
      ELSE SkipEmptyOrPastLimit(
             [leaf |-> leaf, idx |-> LowerBound(heap.nodes[leaf].keys, k)], limit)

FindFirst(start, limit) ==
  IF start # NoStart THEN Seek(start, limit)
  ELSE SkipEmptyOrPastLimit([leaf |-> LeftmostLeaf(rootId), idx |-> 0], limit)

NextPosition(p, limit) ==
  SkipEmptyOrPastLimit(
    IF p.idx + 1 >= Len(heap.nodes[p.leaf].keys)
    THEN [leaf |-> heap.nodes[p.leaf].next, idx |-> 0]
    ELSE [p EXCEPT !.idx = @ + 1], limit)

\* AtEnd, the negation of Valid.
AtEnd(p, limit) ==
  \/ p.leaf = 0
  \/ p.idx >= Len(heap.nodes[p.leaf].keys)
  \/ ~BeforeLimit(KeyAt(p), limit)

\* What the loop of a caller collects from position p on.
RECURSIVE ScanFrom(_, _)
ScanFrom(p, limit) ==
  IF AtEnd(p, limit) THEN << >>
  ELSE Cons(<<KeyAt(p), heap.nodes[p.leaf].vals[p.idx + 1]>>,
            ScanFrom(NextPosition(p, limit), limit))

-----------------------------------------------------------------------------
(* BPlusTree::Verify.                                                      *)

StrictlyIncreasing(ks) == \A i \in 1..(Len(ks) - 1) : ks[i] < ks[i + 1]

\* Leaves under a node, left to right, each with its depth.
RECURSIVE LeavesUnder(_, _)
LeavesUnder(id, depth) ==
  IF ~Live(heap, id) THEN << >>
  ELSE IF heap.nodes[id].leaf THEN << <<id, depth>> >>
  ELSE FlattenSeq([i \in DOMAIN heap.nodes[id].children |->
                     LeavesUnder(heap.nodes[id].children[i], depth + 1)])

\* The chain of next_leaf from a leaf, for at most n leaves.
RECURSIVE Chain(_, _)
Chain(id, n) ==
  IF id = 0 \/ n = 0 THEN << >> ELSE Cons(id, Chain(heap.nodes[id].next, n - 1))

NodeVerified(id) ==
  LET node == heap.nodes[id] IN
    /\ Live(heap, id)
    /\ StrictlyIncreasing(node.keys)
    /\ id # rootId => Len(node.keys) >= MinKeys
    /\ ~node.leaf =>
         /\ Len(node.children) = Len(node.keys) + 1
         /\ \A i \in DOMAIN node.keys : node.keys[i] = FirstKey(heap, node.children[i + 1])

Verify ==
  LET leaves == LeavesUnder(rootId, 0)
      ids    == [i \in DOMAIN leaves |-> leaves[i][1]]
  IN  /\ \A id \in Subtree(rootId) : NodeVerified(id)
      /\ \A i \in DOMAIN leaves : leaves[i][2] = leaves[1][2]
      /\ size = FoldLeft(LAMBDA n, id : n + Len(heap.nodes[id].keys), 0, ids)
      /\ Len(ids) > 1 => Chain(Head(ids), Len(ids) + 1) = ids

-----------------------------------------------------------------------------
(* Properties.                                                             *)

\* The tree always passes its own Verify (btree.cpp 545-594): sorted nodes,
\* no underflow, exact separators, level leaves, the chain and the size.
AlwaysVerified == Verify

\* Every scan, with or without a start and a limit, returns exactly the
\* pairs Get would find in its range, in key order, across leaves left by
\* any splits and merges (btree.cpp 613-645, 681-699).
ScansAreExact ==
  \A r \in Ranges :
    ScanFrom(FindFirst(r[1], r[2]), r[2]) =
      Items(contents, r[1], IF r[2] = NoLimit THEN Infinity ELSE r[2])
=============================================================================
