----------------------------- MODULE BPlusTree -----------------------------
(***************************************************************************)
(* The B+ tree of src/btree/btree.cpp: nodes in a heap with a free list,   *)
(* insertion with splits, deletion with borrowing and merging, the chain   *)
(* of leaves, and range scans along it.  Put and Delete run under the      *)
(* tree's exclusive lock and are one step each; EngineConcurrency has the  *)
(* locks.  Keys are positive integers; 0 is the empty key.                 *)
(*                                                                         *)
(* Vectors are sequences; idx and pos are the code's, counted from 0.      *)
(***************************************************************************)
EXTENDS OrderedMap

CONSTANTS
  NodeSizes,        \* values of BTreeOptions::max_keys_per_node
  Preloads,         \* sequences of calls made before a behaviour starts
  MaxCalls          \* bound: Puts and Deletes in a behaviour

Calls == [op : {"put"}, key : Key, val : Value] \cup [op : {"delete"}, key : Key]

ASSUME TreeAssumption ==
  /\ Key \subseteq Nat \ {0}
  /\ NoValue \notin Value
  /\ NodeSizes \subseteq Nat
  /\ Preloads \subseteq Seq(Calls)
  /\ MaxCalls \in Nat

VARIABLES
  maxKeys,          \* options_.max_keys_per_node, never below 3
  heap,             \* the nodes, and what AllocateNode and FreeNode count
  rootId,           \* root_id_
  rootIsLeaf,       \* root_is_leaf_
  size,             \* size_
  height,           \* height_
  request,          \* the last Put or Delete, NoValue before the first
  status,           \* what it returned
  contents,         \* ghost: what Get returns for each key
  calls

vars == <<maxKeys, heap, rootId, rootIsLeaf, size, height, request, status,
          contents, calls>>

EmptyKey == 0
MinKeys == maxKeys \div 2

Take(s, n) == SubSeq(s, 1, n)
Drop(s, n) == SubSeq(s, n + 1, Len(s))

-----------------------------------------------------------------------------
(* Nodes.                                                                  *)

Leaf(ks, vs, next)  == [leaf |-> TRUE, keys |-> ks, vals |-> vs, next |-> next]
Internal(ks, kids)  == [leaf |-> FALSE, keys |-> ks, children |-> kids]
NoNode              == [leaf |-> FALSE]

EmptyHeap == [nodes |-> << >>, freeList |-> << >>, nodeCount |-> 0]

Live(h, id) == id \in DOMAIN h.nodes /\ h.nodes[id] # NoNode

\* AllocateNode: the most recently freed id, or a new one.
NewId(h) == IF h.freeList # << >> THEN Last(h.freeList) ELSE Len(h.nodes) + 1

Allocated(h, node) ==
  IF h.freeList # << >>
  THEN [nodes     |-> [h.nodes EXCEPT ![NewId(h)] = node],
        freeList  |-> Front(h.freeList),
        nodeCount |-> h.nodeCount + 1]
  ELSE [nodes     |-> Append(h.nodes, node),
        freeList  |-> h.freeList,
        nodeCount |-> h.nodeCount + 1]

\* FreeNode.
Freed(h, id) ==
  IF ~Live(h, id) THEN h
  ELSE [nodes     |-> [h.nodes EXCEPT ![id] = NoNode],
        freeList  |-> Append(h.freeList, id),
        nodeCount |-> h.nodeCount - 1]

SetNode(h, id, node) == [h EXCEPT !.nodes[id] = node]

-----------------------------------------------------------------------------
(* Binary searches, and the way down.                                      *)

\* The first index in ks from which Before no longer holds, by bisection.
Bisect(ks, Before(_)) ==
  LET search[span \in (0..Len(ks)) \X (0..Len(ks))] ==
        LET lo  == span[1]
            hi  == span[2]
            mid == lo + (hi - lo) \div 2
        IN  IF lo >= hi THEN lo
            ELSE IF Before(ks[mid + 1]) THEN search[<<mid + 1, hi>>]
            ELSE search[<<lo, mid>>]
  IN  search[<<0, Len(ks)>>]

LowerBound(ks, k) == Bisect(ks, LAMBDA x : x < k)
UpperBound(ks, k) == Bisect(ks, LAMBDA x : x <= k)

Holds(ks, pos, k) == pos < Len(ks) /\ ks[pos + 1] = k

\* A child by index; 0 is the invalid id, as for an index out of range.
ChildAt(node, idx) == IF idx < Len(node.children) THEN node.children[idx + 1] ELSE 0

\* The recursions of the code go from node to child; here they are functions
\* of the id, 0 and the ids in use.
Ids(h) == 0..Len(h.nodes)

\* FindLeaf in a tree given by its members.
FindLeaf(t, k) ==
  LET down[n \in Ids(t.heap)] ==
        LET node == t.heap.nodes[n] IN
          IF ~Live(t.heap, n) THEN 0
          ELSE IF node.leaf THEN n
          ELSE down[ChildAt(node, UpperBound(node.keys, k))]
  IN  down[t.rootId]

\* BPlusTree::Get.
Get(t, k) ==
  LET leaf == t.heap.nodes[FindLeaf(t, k)]
      pos  == LowerBound(leaf.keys, k)
  IN  IF Holds(leaf.keys, pos, k) THEN leaf.vals[pos + 1] ELSE NoValue

-----------------------------------------------------------------------------
(* Put.                                                                    *)

\* The outcome of an insertion under a node: SplitResult, inserted, Status.
Inserted(h, new) == [status |-> "OK", heap |-> h, inserted |-> new, split |-> FALSE]
InsertFailed(h)  == [status |-> "InternalError", heap |-> h, inserted |-> FALSE, split |-> FALSE]
SplitOff(h, separator, right) ==
  [status |-> "OK", heap |-> h, inserted |-> TRUE, split |-> TRUE,
   separator |-> separator, right |-> right]

\* Mutant of SplitLeaf: the values stay in the left leaf.
SplitLeafKeysOnly(h, id, full) ==
  LET mid   == Len(full.keys) \div 2
      right == NewId(h)
      upper == Leaf(Drop(full.keys, mid), Drop(full.vals, mid), full.next)
      lower == Leaf(Take(full.keys, mid), full.vals, right)
  IN  SplitOff(SetNode(Allocated(h, upper), id, lower), Head(upper.keys), right)

SplitLeaf(h, id, full) ==
  LET mid   == Len(full.keys) \div 2
      right == NewId(h)
      upper == Leaf(Drop(full.keys, mid), Drop(full.vals, mid), full.next)
      lower == Leaf(Take(full.keys, mid), Take(full.vals, mid), right)
  IN  SplitOff(SetNode(Allocated(h, upper), id, lower), Head(upper.keys), right)

SplitInternal(h, id, full) ==
  LET mid   == Len(full.keys) \div 2
      right == NewId(h)
      upper == Internal(Drop(full.keys, mid + 1), Drop(full.children, mid + 1))
      lower == Internal(Take(full.keys, mid), Take(full.children, mid + 1))
  IN  SplitOff(SetNode(Allocated(h, upper), id, lower), full.keys[mid + 1], right)

InsertIntoLeaf(h, id, k, v) ==
  LET leaf  == h.nodes[id]
      pos   == LowerBound(leaf.keys, k)
      wider == Leaf(InsertAt(leaf.keys, pos + 1, k), InsertAt(leaf.vals, pos + 1, v), leaf.next)
  IN  IF Holds(leaf.keys, pos, k)
      THEN Inserted(SetNode(h, id, [leaf EXCEPT !.vals[pos + 1] = v]), FALSE)
      ELSE IF Len(wider.keys) <= maxKeys THEN Inserted(SetNode(h, id, wider), TRUE)
      ELSE SplitLeaf(h, id, wider)

\* A child of internal node id has split: link the new right part.
LinkRight(h, id, separator, right) ==
  LET node  == h.nodes[id]
      pos   == LowerBound(node.keys, separator)
      wider == Internal(InsertAt(node.keys, pos + 1, separator),
                        InsertAt(node.children, pos + 2, right))
  IN  IF Len(wider.keys) <= maxKeys THEN Inserted(SetNode(h, id, wider), TRUE)
      ELSE SplitInternal(h, id, wider)

\* The insertion under node n, given the outcome below its child.
InsertUnder(n, below) ==
  IF below.split THEN LinkRight(below.heap, n, below.separator, below.right) ELSE below

Insert(h, id, k, v) ==
  LET insert[n \in Ids(h)] ==
        LET node == h.nodes[n] IN
          IF ~Live(h, n) THEN InsertFailed(h)
          ELSE IF node.leaf THEN InsertIntoLeaf(h, n, k, v)
          ELSE InsertUnder(n, insert[ChildAt(node, UpperBound(node.keys, k))])
  IN  insert[id]

\* The members after a Put, given those before it.
AfterPut(t, k, v) ==
  LET done == Insert(t.heap, t.rootId, k, v)
      root == Internal(<<done.separator>>, <<t.rootId, done.right>>)
      grown == [t EXCEPT !.heap = done.heap,
                         !.size = IF done.inserted THEN @ + 1 ELSE @,
                         !.status = done.status]
  IN  IF k = EmptyKey THEN [t EXCEPT !.status = "InvalidArgument"]
      ELSE IF done.split
      THEN [grown EXCEPT !.heap = Allocated(done.heap, root),
                         !.rootId = NewId(done.heap),
                         !.rootIsLeaf = FALSE,
                         !.height = @ + 1]
      ELSE grown

-----------------------------------------------------------------------------
(* Delete.                                                                 *)

\* The smallest key under a node, EmptyKey if there is none.
FirstKey(h, id) ==
  LET first[n \in Ids(h)] ==
        LET node == h.nodes[n] IN
          IF ~Live(h, n) THEN EmptyKey
          ELSE IF ~node.leaf THEN first[ChildAt(node, 0)]
          ELSE IF node.keys = << >> THEN EmptyKey ELSE Head(node.keys)
  IN  first[id]

\* The outcome of a deletion under a node: DeleteResult and Status.
Erased(h, underflow, first) ==
  [status |-> "OK", heap |-> h, underflow |-> underflow, first |-> first]
EraseFailed(h, why) ==
  [status |-> why, heap |-> h, underflow |-> FALSE, first |-> EmptyKey]

EraseFromLeaf(h, id, isRoot, k) ==
  LET leaf  == h.nodes[id]
      pos   == LowerBound(leaf.keys, k)
      fewer == Leaf(RemoveAt(leaf.keys, pos + 1), RemoveAt(leaf.vals, pos + 1), leaf.next)
      after == SetNode(h, id, fewer)
  IN  IF ~Holds(leaf.keys, pos, k) THEN EraseFailed(h, "NotFound")
      ELSE Erased(after, ~isRoot /\ Len(fewer.keys) < MinKeys, FirstKey(after, id))

\* keys[idx - 1] := first, unless the subtree it is the first key of is empty.
SetSeparator(h, id, idx, first) ==
  IF idx > 0 /\ first # EmptyKey
  THEN [h EXCEPT !.nodes[id].keys[idx] = first] ELSE h

\* The last entry of child idx - 1 moves to the front of child idx.
BorrowFromLeft(h, id, idx) ==
  LET node  == h.nodes[id]
      l     == h.nodes[ChildAt(node, idx - 1)]
      r     == h.nodes[ChildAt(node, idx)]
      left  == IF l.leaf THEN Leaf(Front(l.keys), Front(l.vals), l.next)
               ELSE Internal(Front(l.keys), Front(l.children))
      right == IF r.leaf THEN Leaf(Cons(Last(l.keys), r.keys), Cons(Last(l.vals), r.vals), r.next)
               ELSE Internal(Cons(node.keys[idx], r.keys), Cons(Last(l.children), r.children))
      moved == [h EXCEPT !.nodes[ChildAt(node, idx - 1)] = left,
                         !.nodes[ChildAt(node, idx)] = right,
                         !.nodes[id].keys[idx] = IF r.leaf THEN @ ELSE Last(l.keys)]
  IN  SetSeparator(moved, id, idx, FirstKey(moved, ChildAt(node, idx)))

\* The first entry of child idx + 1 moves to the back of child idx.
BorrowFromRight(h, id, idx) ==
  LET node  == h.nodes[id]
      l     == h.nodes[ChildAt(node, idx)]
      r     == h.nodes[ChildAt(node, idx + 1)]
      left  == IF l.leaf THEN Leaf(Append(l.keys, Head(r.keys)), Append(l.vals, Head(r.vals)), l.next)
               ELSE Internal(Append(l.keys, node.keys[idx + 1]), Append(l.children, Head(r.children)))
      right == IF r.leaf THEN Leaf(Tail(r.keys), Tail(r.vals), r.next)
               ELSE Internal(Tail(r.keys), Tail(r.children))
  IN  [h EXCEPT !.nodes[ChildAt(node, idx)] = left,
                !.nodes[ChildAt(node, idx + 1)] = right,
                !.nodes[id].keys[idx + 1] = IF r.leaf THEN Head(right.keys) ELSE Head(r.keys)]

\* Mutants of Merge: the emptied node is not freed, the values are appended
\* in the wrong order.
MergeWithoutFree(h, id, idx) ==
  LET node  == h.nodes[id]
      l     == h.nodes[ChildAt(node, idx)]
      r     == h.nodes[ChildAt(node, idx + 1)]
      both  == IF l.leaf THEN Leaf(l.keys \o r.keys, l.vals \o r.vals, r.next)
               ELSE Internal(Append(l.keys, node.keys[idx + 1]) \o r.keys, l.children \o r.children)
      fewer == Internal(RemoveAt(node.keys, idx + 1), RemoveAt(node.children, idx + 2))
  IN  [h EXCEPT !.nodes[ChildAt(node, idx)] = both, !.nodes[id] = fewer]

MergeSwappedValues(h, id, idx) ==
  LET node  == h.nodes[id]
      l     == h.nodes[ChildAt(node, idx)]
      r     == h.nodes[ChildAt(node, idx + 1)]
      both  == IF l.leaf THEN Leaf(l.keys \o r.keys, r.vals \o l.vals, r.next)
               ELSE Internal(Append(l.keys, node.keys[idx + 1]) \o r.keys, l.children \o r.children)
      fewer == Internal(RemoveAt(node.keys, idx + 1), RemoveAt(node.children, idx + 2))
  IN  Freed([h EXCEPT !.nodes[ChildAt(node, idx)] = both, !.nodes[id] = fewer],
            ChildAt(node, idx + 1))

\* Child idx + 1 is emptied into child idx, unlinked and freed.
Merge(h, id, idx) ==
  LET node  == h.nodes[id]
      l     == h.nodes[ChildAt(node, idx)]
      r     == h.nodes[ChildAt(node, idx + 1)]
      both  == IF l.leaf THEN Leaf(l.keys \o r.keys, l.vals \o r.vals, r.next)
               ELSE Internal(Append(l.keys, node.keys[idx + 1]) \o r.keys, l.children \o r.children)
      fewer == Internal(RemoveAt(node.keys, idx + 1), RemoveAt(node.children, idx + 2))
  IN  Freed([h EXCEPT !.nodes[ChildAt(node, idx)] = both, !.nodes[id] = fewer],
            ChildAt(node, idx + 1))

\* Child idx has underflowed: borrow if a sibling can spare a key, else merge.
Rebalanced(h, id, idx) ==
  LET node == h.nodes[id]
      CanSpare(i) == Live(h, ChildAt(node, i)) /\ Len(h.nodes[ChildAt(node, i)].keys) > MinKeys
  IN  CASE idx > 0 /\ CanSpare(idx - 1) -> BorrowFromLeft(h, id, idx)
        [] ~(idx > 0 /\ CanSpare(idx - 1)) /\ CanSpare(idx + 1) -> BorrowFromRight(h, id, idx)
        [] ~(idx > 0 /\ CanSpare(idx - 1)) /\ ~CanSpare(idx + 1) /\ idx > 0 -> Merge(h, id, idx - 1)
        [] idx = 0 /\ ~CanSpare(1) /\ Live(h, ChildAt(node, 1)) -> Merge(h, id, idx)
        [] OTHER -> h

\* Mutant of Refreshed: separators are left as they are.
NotRefreshed(h, id) == h

\* Recompute every separator of node id from the subtree on its right.
Refreshed(h, id) ==
  FoldLeft(LAMBDA g, i : SetSeparator(g, id, i, FirstKey(g, ChildAt(g.nodes[id], i))),
           h, [i \in 1..(Len(h.nodes[id].children) - 1) |-> i])

\* The deletion under node n, given the outcome below its child idx.
EraseUnder(n, isRoot, idx, below) ==
  LET linked == SetSeparator(below.heap, n, idx, below.first)
      after  == Refreshed(IF below.underflow THEN Rebalanced(linked, n, idx) ELSE linked, n)
  IN  IF below.status # "OK" THEN below
      ELSE Erased(after, ~isRoot /\ Len(after.nodes[n].keys) < MinKeys, FirstKey(after, n))

Erase(h, root, k) ==
  LET erase[n \in Ids(h)] ==
        LET node == h.nodes[n]
            idx  == UpperBound(node.keys, k)
        IN  IF ~Live(h, n) THEN EraseFailed(h, "InternalError")
            ELSE IF node.leaf THEN EraseFromLeaf(h, n, n = root, k)
            ELSE EraseUnder(n, n = root, idx, erase[ChildAt(node, idx)])
  IN  erase[root]

\* The tree once its internal root has no child: a leaf takes its place.
Emptied(t) ==
  LET rest == Freed(t.heap, t.rootId)
  IN  [t EXCEPT !.rootId = NewId(rest), !.rootIsLeaf = TRUE, !.height = 1,
                !.heap = Allocated(rest, Leaf(<< >>, << >>, 0))]

\* The root after a deletion: an internal root with one child gives way to it.
Collapsed(t) ==
  LET root == t.heap.nodes[t.rootId]
      heir == Head(root.children)
  IN  IF t.rootIsLeaf \/ Len(root.children) > 1 THEN t
      ELSE IF root.children = << >> THEN Emptied(t)
      ELSE [t EXCEPT !.rootId = heir,
                     !.rootIsLeaf = t.heap.nodes[heir].leaf,
                     !.height = IF @ > 1 THEN @ - 1 ELSE @,
                     !.heap = Freed(@, t.rootId)]

\* The members after a Delete, given those before it.
AfterDelete(t, k) ==
  LET done == Erase(t.heap, t.rootId, k)
  IN  IF t.size = 0 THEN [t EXCEPT !.status = "NotFound"]
      ELSE IF done.status # "OK" THEN [t EXCEPT !.status = done.status]
      ELSE Collapsed([t EXCEPT !.heap = done.heap, !.size = @ - 1, !.status = "OK"])

-----------------------------------------------------------------------------
(* The specification.                                                      *)

\* The members as one record, as the constructor leaves them.
NewTree ==
  [heap |-> Allocated(EmptyHeap, Leaf(<< >>, << >>, 0)), rootId |-> 1,
   rootIsLeaf |-> TRUE, size |-> 0, height |-> 1, status |-> "OK"]

AfterCall(t, r) ==
  IF r.op = "put" THEN AfterPut(t, r.key, r.val) ELSE AfterDelete(t, r.key)

Members ==
  [heap |-> heap, rootId |-> rootId, rootIsLeaf |-> rootIsLeaf, size |-> size,
   height |-> height, status |-> status]

Become(t) ==
  /\ heap' = t.heap
  /\ rootId' = t.rootId
  /\ rootIsLeaf' = t.rootIsLeaf
  /\ size' = t.size
  /\ height' = t.height
  /\ status' = t.status
  /\ contents' = [k \in Key |-> Get(t, k)]

Init ==
  /\ \E n \in NodeSizes : maxKeys = IF n < 3 THEN 3 ELSE n
  /\ \E preload \in Preloads :
       \E t \in {FoldLeft(AfterCall, NewTree, preload)} :
         /\ heap = t.heap
         /\ rootId = t.rootId
         /\ rootIsLeaf = t.rootIsLeaf
         /\ size = t.size
         /\ height = t.height
         /\ status = t.status
         /\ contents = [k \in Key |-> Get(t, k)]
  /\ request = NoValue /\ calls = 0

Called(r) ==
  /\ calls < MaxCalls
  /\ calls' = calls + 1
  /\ request' = r
  /\ UNCHANGED maxKeys

\* t is the one outcome of the call.
Put(k, v) ==
  /\ Called([op |-> "put", key |-> k, val |-> v])
  /\ \E t \in {AfterPut(Members, k, v)} : Become(t)

Delete(k) ==
  /\ Called([op |-> "delete", key |-> k])
  /\ \E t \in {AfterDelete(Members, k)} : Become(t)

Next ==
  \/ \E k \in Key \cup {EmptyKey}, v \in Value : Put(k, v)
  \/ \E k \in Key \cup {EmptyKey} : Delete(k)

Spec == Init /\ [][Next]_vars

-----------------------------------------------------------------------------
(* Properties.                                                             *)

\* Types of the members (btree.h 83-90), keys paired with values in every
\* leaf, and what a call can return.
TreeTypeOK ==
  /\ maxKeys \in Nat /\ maxKeys >= 3
  /\ rootId \in DOMAIN heap.nodes
  /\ \A id \in DOMAIN heap.nodes :
       Live(heap, id) /\ heap.nodes[id].leaf =>
         Len(heap.nodes[id].vals) = Len(heap.nodes[id].keys)
  /\ ToSet(heap.freeList) \subseteq DOMAIN heap.nodes
  /\ rootIsLeaf \in BOOLEAN
  /\ size \in Nat /\ height \in Nat \ {0}
  /\ status \in {"OK", "NotFound", "InvalidArgument"}

\* The ids under a node, and the number of nodes down to its leftmost leaf.
Subtree(id) ==
  LET under[n \in Ids(heap)] ==
        IF ~Live(heap, n) \/ heap.nodes[n].leaf THEN {n}
        ELSE {n} \cup UNION {under[c] : c \in ToSet(heap.nodes[n].children)}
  IN  under[id]

Depth(id) ==
  LET depth[n \in Ids(heap)] ==
        IF ~Live(heap, n) \/ heap.nodes[n].leaf THEN 1
        ELSE depth[ChildAt(heap.nodes[n], 0)] + 1
  IN  depth[id]

\* What Verify does not look at: every node in use is in the tree and every
\* other is on the free list once, node_count_ counts the former, and
\* height_ and root_is_leaf_ describe the root (btree.cpp 27-54, 254-263,
\* 459-474).
BookkeepingExact ==
  LET used == {id \in DOMAIN heap.nodes : Live(heap, id)} IN
    /\ used = Subtree(rootId)
    /\ ToSet(heap.freeList) = DOMAIN heap.nodes \ used
    /\ IsInjective(heap.freeList)
    /\ heap.nodeCount = Cardinality(used)
    /\ height = Depth(rootId)
    /\ rootIsLeaf = heap.nodes[rootId].leaf

\* Put and Delete, through any splits, borrowing, merging and change of the
\* root, do to what Get finds what a map does with the same key and value, and
\* to no other key, and return what they did: OK, NotFound exactly when the
\* key was not stored, or InvalidArgument for the empty key (btree.cpp
\* 178-474).
SM == INSTANCE SequentialMap WITH map <- contents

ImplementsSequentialMap == SM!SMSpec
=============================================================================
