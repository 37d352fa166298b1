-------------------------- MODULE TableFlushProofs --------------------------
(***************************************************************************)
(* The memtable's list is in order whatever is written to it, searches end *)
(* where they should, and its counters say what it holds.  A flush hands   *)
(* the builder all of it, and the blocks give back what they were given.   *)
(***************************************************************************)
EXTENDS TableFlush, FoldProofs, SequenceTheorems, FiniteSetTheorems

-----------------------------------------------------------------------------
(* The order of strings.                                                   *)

String == Seq(Nat)

\* Two strings have their first n letters in common.
Agree(a, b, n) == \A k \in 1..n : a[k] = b[k]

\* Behind n letters in common, a has ended or goes on with a smaller letter.
BeforeAfter(a, b, n) ==
  /\ n <= Len(a) /\ n < Len(b)
  /\ Agree(a, b, n)
  /\ n < Len(a) => a[n + 1] < b[n + 1]

\* The first n letters are the same string.
LEMMA FirstLetters ==
  ASSUME NEW a \in String, NEW b \in String, NEW n \in Nat, n <= Len(a), n <= Len(b)
  PROVE  SubSeq(a, 1, n) = SubSeq(b, 1, n) <=> Agree(a, b, n)
<1>1. Len(a) \in Nat /\ Len(b) \in Nat /\ n \in Int
  OBVIOUS
<1>2. (\A i \in 1..n : a[i] \in Nat) /\ (\A i \in 1..n : b[i] \in Nat)
  BY <1>1 DEF String
<1>3. /\ SubSeq(a, 1, n) \in Seq(Nat) /\ Len(SubSeq(a, 1, n)) = n
      /\ \A i \in 1..n : SubSeq(a, 1, n)[i] = a[i]
  <2>1. /\ SubSeq(a, 1, n) \in Seq(Nat)
        /\ Len(SubSeq(a, 1, n)) = IF 1 <= n THEN n - 1 + 1 ELSE 0
        /\ \A i \in 1..(n - 1 + 1) : SubSeq(a, 1, n)[i] = a[1 + i - 1]
    BY <1>1, <1>2, SubSeqProperties
  <2> QED
    BY <2>1
<1>4. /\ SubSeq(b, 1, n) \in Seq(Nat) /\ Len(SubSeq(b, 1, n)) = n
      /\ \A i \in 1..n : SubSeq(b, 1, n)[i] = b[i]
  <2>1. /\ SubSeq(b, 1, n) \in Seq(Nat)
        /\ Len(SubSeq(b, 1, n)) = IF 1 <= n THEN n - 1 + 1 ELSE 0
        /\ \A i \in 1..(n - 1 + 1) : SubSeq(b, 1, n)[i] = b[1 + i - 1]
    BY <1>1, <1>2, SubSeqProperties
  <2> QED
    BY <2>1
<1>5. ASSUME Agree(a, b, n) PROVE SubSeq(a, 1, n) = SubSeq(b, 1, n)
  <2>1. \A i \in 1..Len(SubSeq(a, 1, n)) : SubSeq(a, 1, n)[i] = SubSeq(b, 1, n)[i]
    BY <1>3, <1>4, <1>5 DEF Agree
  <2> QED
    BY <1>3, <1>4, <2>1, SeqEqual
<1>6. ASSUME SubSeq(a, 1, n) = SubSeq(b, 1, n) PROVE Agree(a, b, n)
  BY <1>3, <1>4, <1>6 DEF Agree
<1> QED
  BY <1>5, <1>6

\* Slice::compare, by the number of letters in common.
LEMMA BeforeIsBeforeAfter ==
  ASSUME NEW a \in String, NEW b \in String
  PROVE  Before(a, b) <=> \E n \in Nat : BeforeAfter(a, b, n)
<1>0. Len(a) \in Nat /\ Len(b) \in Nat
  BY DEF String
<1>1. Len(a) \in Nat /\ Len(b) \in Nat /\ DOMAIN a = 1..Len(a) /\ DOMAIN b = 1..Len(b)
  BY DEF String
<1>2. ASSUME IsStrictPrefix(a, b) PROVE \E n \in Nat : BeforeAfter(a, b, n)
  <2>1. Len(a) <= Len(b) /\ SubSeq(a, 1, Len(a)) = SubSeq(b, 1, Len(a)) /\ a # b
    BY <1>2 DEF IsStrictPrefix, IsPrefix
  <2>2. Agree(a, b, Len(a))
    BY <1>1, <2>1, FirstLetters
  <2>3. Len(a) # Len(b)
    <3>1. SUFFICES ASSUME Len(a) = Len(b) PROVE FALSE
      OBVIOUS
    <3>2. \A i \in 1..Len(a) : a[i] = b[i]
      BY <2>2 DEF Agree
    <3> QED
      BY <2>1, <3>1, <3>2, SeqEqual DEF String
  <2>4. Len(a) < Len(b) /\ Len(a) <= Len(a) /\ ~(Len(a) < Len(a))
    <3>1. Len(a) <= Len(b)
      BY <2>1
    <3> QED
      BY <1>0, <2>3, <3>1
  <2>5. BeforeAfter(a, b, Len(a))
    BY <2>2, <2>4 DEF BeforeAfter
  <2> QED
    BY <1>1, <2>5
<1>3. ASSUME NEW i \in DOMAIN a \cap DOMAIN b,
             SubSeq(a, 1, i - 1) = SubSeq(b, 1, i - 1), a[i] < b[i]
      PROVE  \E n \in Nat : BeforeAfter(a, b, n)
  <2>1. /\ i - 1 \in Nat /\ i - 1 < Len(a) /\ i - 1 < Len(b) /\ (i - 1) + 1 = i
        /\ i - 1 <= Len(a) /\ i - 1 <= Len(b)
    BY <1>1
  <2>2. Agree(a, b, i - 1)
    <3> DEFINE m == i - 1
    <3>1. m \in Nat /\ m <= Len(a) /\ m <= Len(b) /\ SubSeq(a, 1, m) = SubSeq(b, 1, m)
      BY <1>3, <2>1
    <3> HIDE DEF m
    <3>2. Agree(a, b, m)
      BY <3>1, FirstLetters
    <3> QED
      BY <3>2 DEF m
  <2>3. BeforeAfter(a, b, i - 1)
    BY <1>1, <1>3, <2>1, <2>2 DEF BeforeAfter
  <2> QED
    BY <2>1, <2>3
<1>4. ASSUME NEW n \in Nat, BeforeAfter(a, b, n) PROVE Before(a, b)
  <2>1. n <= Len(a) /\ n < Len(b) /\ Agree(a, b, n) /\ (n < Len(a) => a[n + 1] < b[n + 1])
    BY <1>4 DEF BeforeAfter
  <2>2. SubSeq(a, 1, n) = SubSeq(b, 1, n)
    BY <1>1, <2>1, FirstLetters
  <2>3. CASE n = Len(a)
    <3>1. IsStrictPrefix(a, b)
      BY <1>1, <2>1, <2>2, <2>3 DEF IsStrictPrefix, IsPrefix
    <3> QED
      BY <3>1 DEF Before
  <2>4. CASE n < Len(a)
    <3>1. n + 1 \in DOMAIN a \cap DOMAIN b /\ (n + 1) - 1 = n
      BY <1>1, <2>1, <2>4
    <3>2. SubSeq(a, 1, (n + 1) - 1) = SubSeq(b, 1, (n + 1) - 1) /\ a[n + 1] < b[n + 1]
      BY <2>1, <2>2, <2>4, <3>1
    <3> QED
      BY <3>1, <3>2 DEF Before
  <2>5. n <= Len(a)
    BY <2>1
  <2> QED
    BY <1>0, <2>3, <2>4, <2>5
<1> QED
  BY <1>2, <1>3, <1>4 DEF Before

\* No string is before itself.
LEMMA BeforeIrreflexive ==
  ASSUME NEW a \in String PROVE ~Before(a, a)
<1> SUFFICES ASSUME Before(a, a) PROVE FALSE
  OBVIOUS
<1>1. PICK n \in Nat : BeforeAfter(a, a, n)
  BY BeforeIsBeforeAfter
<1>2. n < Len(a) /\ a[n + 1] < a[n + 1] /\ a[n + 1] \in Nat
  BY <1>1 DEF BeforeAfter, String
<1> QED
  BY <1>2

\* The order is transitive.
LEMMA BeforeTransitive ==
  ASSUME NEW a \in String, NEW b \in String, NEW c \in String, Before(a, b), Before(b, c)
  PROVE  Before(a, c)
<1>1. PICK m \in Nat : BeforeAfter(a, b, m)
  BY BeforeIsBeforeAfter
<1>2. PICK n \in Nat : BeforeAfter(b, c, n)
  BY BeforeIsBeforeAfter
<1>3. Len(a) \in Nat /\ Len(b) \in Nat /\ Len(c) \in Nat
  BY DEF String
<1>4. /\ m <= Len(a) /\ m < Len(b) /\ (m < Len(a) => a[m + 1] < b[m + 1])
      /\ n <= Len(b) /\ n < Len(c) /\ (n < Len(b) => b[n + 1] < c[n + 1])
      /\ \A k \in 1..m : a[k] = b[k]
      /\ \A k \in 1..n : b[k] = c[k]
  BY <1>1, <1>2 DEF BeforeAfter, Agree
<1>5. ASSUME m < n PROVE BeforeAfter(a, c, m)
  <2>1. b[m + 1] = c[m + 1] /\ \A k \in 1..m : a[k] = c[k]
    BY <1>3, <1>4, <1>5
  <2> QED
    BY <1>3, <1>4, <1>5, <2>1 DEF BeforeAfter, Agree
<1>6. ASSUME n < m PROVE BeforeAfter(a, c, n)
  <2>1. a[n + 1] = b[n + 1] /\ \A k \in 1..n : a[k] = c[k]
    BY <1>3, <1>4, <1>6
  <2> QED
    BY <1>3, <1>4, <1>6, <2>1 DEF BeforeAfter, Agree
<1>7. ASSUME m = n PROVE BeforeAfter(a, c, m)
  <2>1. \A k \in 1..m : a[k] = c[k]
    BY <1>4, <1>7
  <2>2. m < Len(a) => a[m + 1] < c[m + 1]
    <3>1. SUFFICES ASSUME m < Len(a) PROVE a[m + 1] < c[m + 1]
      OBVIOUS
    <3>2. a[m + 1] \in Nat /\ b[m + 1] \in Nat /\ c[m + 1] \in Nat
      BY <1>3, <1>4, <1>7, <3>1, SMTT(40) DEF String
    <3>3. a[m + 1] < b[m + 1] /\ b[m + 1] < c[m + 1]
      BY <1>4, <1>7, <3>1
    <3> QED
      BY <3>2, <3>3
  <2> QED
    BY <1>4, <1>7, <2>1, <2>2 DEF BeforeAfter, Agree
<1>8. \E k \in Nat : BeforeAfter(a, c, k)
  BY <1>5, <1>6, <1>7
<1> QED
  BY <1>8, BeforeIsBeforeAfter

\* Of two different strings one is before the other.
LEMMA BeforeTotal ==
  ASSUME NEW a \in String, NEW b \in String, a # b
  PROVE  Before(a, b) \/ Before(b, a)
<1> DEFINE P == {n \in 1..(Len(a) + 1) : n <= Len(b) + 1 /\ Agree(a, b, n - 1)}
<1>1. Len(a) \in Nat /\ Len(b) \in Nat
  BY DEF String
<1>2. 1 \in P
  BY <1>1 DEF Agree
<1>3. Len(a) + 1 \in Nat /\ P \in SUBSET (1..(Len(a) + 1)) /\ P # {}
  BY <1>1, <1>2
<1>4. PICK n \in P : \A i \in P : i <= n
  <2> HIDE DEF P
  <2>1. Max(P) \in P /\ \A i \in P : i <= Max(P)
    BY <1>3, MaxOfPositions
  <2> QED
    BY <2>1
<1>5. n \in 1..(Len(a) + 1) /\ n <= Len(b) + 1 /\ Agree(a, b, n - 1) /\ Agree(b, a, n - 1)
  BY DEF Agree
<1>6. n + 1 \notin P
  <2>1. n \in Int
    BY <1>1, <1>5
  <2> HIDE DEF P
  <2> QED
    BY <1>4, <2>1
<1>7. n - 1 \in Nat /\ (n - 1) + 1 = n
  BY <1>1, <1>5
<1>8. CASE n <= Len(a) /\ n <= Len(b)
  <2>1. a[n] \in Nat /\ b[n] \in Nat
    BY <1>1, <1>5, <1>8 DEF String
  <2>2. a[n] # b[n]
    BY <1>1, <1>5, <1>6, <1>8 DEF Agree
  <2>3. BeforeAfter(a, b, n - 1) \/ BeforeAfter(b, a, n - 1)
    BY <1>1, <1>5, <1>7, <1>8, <2>1, <2>2 DEF BeforeAfter
  <2> QED
    BY <1>7, <2>3, BeforeIsBeforeAfter
<1>9. CASE n = Len(a) + 1 /\ n <= Len(b)
  <2>1. BeforeAfter(a, b, n - 1)
    BY <1>1, <1>5, <1>9 DEF BeforeAfter
  <2> QED
    BY <1>7, <2>1, BeforeIsBeforeAfter
<1>10. CASE n = Len(b) + 1 /\ n <= Len(a)
  <2>1. BeforeAfter(b, a, n - 1)
    BY <1>1, <1>5, <1>10 DEF BeforeAfter
  <2> QED
    BY <1>7, <2>1, BeforeIsBeforeAfter
<1>11. CASE n = Len(a) + 1 /\ n = Len(b) + 1
  <2>1. Len(a) = Len(b) /\ \A i \in 1..Len(a) : a[i] = b[i]
    BY <1>1, <1>5, <1>11 DEF Agree
  <2> QED
    BY <2>1, SeqEqual DEF String
<1> QED
  BY <1>1, <1>5, <1>8, <1>9, <1>10, <1>11

-----------------------------------------------------------------------------
(* The list along level 0.  A node of more than one level ends the         *)
(* process, so the list never has a second level.                          *)

HeadRecord == [key : {Empty}, value : {Empty}, seq : {0}, deleted : {FALSE},
               forward : [0..MaxLevel -> Nat]]

NodeRecord == [key : Key, value : Value, seq : Sequence, deleted : BOOLEAN,
               forward : [0..0 -> Nat]]

\* The nodes ns are a head and nodes of one level; a tombstone has no value.
NodesOK(ns) ==
  /\ ns \in Seq(HeadRecord \cup NodeRecord)
  /\ Len(ns) >= 1
  /\ ns[HeadNode] \in HeadRecord
  /\ \A i \in 1..MaxLevel : ns[HeadNode].forward[i] = Null
  /\ \A n \in 2..Len(ns) : ns[n] \in NodeRecord /\ (ns[n].deleted => ns[n].value = Empty)

\* The i-th node of the list L, the head before the first and Null after the
\* last.
At(L, i) == IF i = 0 THEN HeadNode ELSE IF i <= Len(L) THEN L[i] ELSE Null

\* The links of ns run through all its nodes, in the order of their keys: L.
Listed(ns, L) ==
  /\ L \in Seq(2..Len(ns))
  /\ \A n \in 2..Len(ns) : \E i \in 1..Len(L) : L[i] = n
  /\ \A i \in 0..Len(L) : ns[At(L, i)].forward[0] = At(L, i + 1)
  /\ \A i, j \in 1..Len(L) : i < j => Before(ns[L[i]].key, ns[L[j]].key)

\* Where node n is in the list.
Place(L, n) == CHOOSE i \in 0..Len(L) : At(L, i) = n

\* What is known of the keys of the nodes.
LEMMA NodeTypes ==
  ASSUME NEW ns, NodesOK(ns)
  PROVE  /\ Len(ns) \in Nat \ {0}
         /\ DOMAIN ns = 1..Len(ns)
         /\ \A n \in 1..Len(ns) : ns[n].key \in String
<1>1. Len(ns) \in Nat \ {0} /\ DOMAIN ns = 1..Len(ns)
  BY DEF NodesOK
<1>2. Empty \in String /\ Key \subseteq String
  BY TableAssumption DEF String
<1>3. ASSUME NEW n \in 1..Len(ns) PROVE ns[n].key \in String
  <2>1. CASE n = 1
    BY <1>2, <2>1 DEF NodesOK, HeadRecord, HeadNode
  <2>2. CASE n # 1
    <3>1. n \in 2..Len(ns)
      BY <1>1, <2>2
    <3> QED
      BY <1>2, <3>1 DEF NodesOK, NodeRecord
  <2> QED
    BY <2>1, <2>2
<1> QED
  BY <1>1, <1>3

\* The nodes of a list, and no node twice.
LEMMA ListedNodes ==
  ASSUME NEW ns, NodesOK(ns), NEW L, Listed(ns, L)
  PROVE  /\ Len(L) \in Nat
         /\ DOMAIN L = 1..Len(L)
         /\ \A i \in 1..Len(L) : L[i] \in 2..Len(ns) /\ ns[L[i]].key \in String
         /\ \A i, j \in 1..Len(L) : ns[L[i]].key = ns[L[j]].key => i = j
         /\ \A i, j \in 0..Len(L) : At(L, i) = At(L, j) => i = j
         /\ \A i \in 0..Len(L) : At(L, i) \in 1..Len(ns)
         /\ Range(L) = 2..Len(ns)
<1>1. /\ Len(ns) \in Nat \ {0}
      /\ \A n \in 1..Len(ns) : ns[n].key \in String
  BY NodeTypes
<1>2. Len(L) \in Nat /\ DOMAIN L = 1..Len(L) /\ \A i \in 1..Len(L) : L[i] \in 2..Len(ns)
  <2>1. L \in Seq(2..Len(ns))
    BY DEF Listed
  <2> QED
    BY <2>1
<1>3. ASSUME NEW i \in 1..Len(L) PROVE ns[L[i]].key \in String
  <2>1. L[i] \in 1..Len(ns)
    BY <1>1, <1>2
  <2> QED
    BY <1>1, <2>1
<1>4. ASSUME NEW i \in 1..Len(L), NEW j \in 1..Len(L), ns[L[i]].key = ns[L[j]].key
      PROVE  i = j
  <2>1. ASSUME i < j PROVE FALSE
    <3>1. Before(ns[L[i]].key, ns[L[j]].key)
      BY <2>1 DEF Listed
    <3> QED
      BY <1>3, <1>4, <3>1, BeforeIrreflexive
  <2>2. ASSUME j < i PROVE FALSE
    <3>1. Before(ns[L[j]].key, ns[L[i]].key)
      BY <2>2 DEF Listed
    <3> QED
      BY <1>3, <1>4, <3>1, BeforeIrreflexive
  <2> QED
    BY <1>2, <2>1, <2>2
<1>5. ASSUME NEW i \in 0..Len(L), NEW j \in 0..Len(L), At(L, i) = At(L, j) PROVE i = j
  <2>1. CASE i = 0 \/ j = 0
    BY <1>2, <1>5, <2>1 DEF At, HeadNode
  <2>2. CASE i # 0 /\ j # 0
    <3>1. i \in 1..Len(L) /\ j \in 1..Len(L) /\ L[i] = L[j]
      BY <1>2, <1>5, <2>2 DEF At
    <3> QED
      BY <1>4, <3>1
  <2> QED
    BY <2>1, <2>2
<1>6. ASSUME NEW i \in 0..Len(L) PROVE At(L, i) \in 1..Len(ns)
  BY <1>1, <1>2 DEF At, HeadNode
<1>7. Range(L) = 2..Len(ns)
  <2>1. \A n \in 2..Len(ns) : \E i \in 1..Len(L) : L[i] = n
    BY DEF Listed
  <2> QED
    BY <1>2, <2>1 DEF Range
<1> QED
  BY <1>2, <1>3, <1>4, <1>5, <1>6, <1>7

\* Every node has one place in the list.
LEMMA PlacesInList ==
  ASSUME NEW ns, NodesOK(ns), NEW L, Listed(ns, L)
  PROVE  /\ \A n \in 1..Len(ns) : Place(L, n) \in 0..Len(L) /\ At(L, Place(L, n)) = n
         /\ \A i \in 0..Len(L) : Place(L, At(L, i)) = i
<1>1. Len(ns) \in Nat \ {0} /\ Len(L) \in Nat
  BY NodeTypes, ListedNodes
<1>2. ASSUME NEW n \in 1..Len(ns) PROVE \E i \in 0..Len(L) : At(L, i) = n
  <2>1. CASE n = 1
    <3>1. 0 \in 0..Len(L) /\ At(L, 0) = n
      BY <1>1, <2>1 DEF At, HeadNode
    <3> QED
      BY <3>1
  <2>2. CASE n # 1
    <3>1. n \in 2..Len(ns)
      BY <1>1, <2>2
    <3>2. PICK i \in 1..Len(L) : L[i] = n
      BY <3>1 DEF Listed
    <3>3. i \in 0..Len(L) /\ At(L, i) = n
      BY <1>1, <3>2 DEF At
    <3> QED
      BY <3>3
  <2> QED
    BY <2>1, <2>2
<1>3. ASSUME NEW n \in 1..Len(ns) PROVE Place(L, n) \in 0..Len(L) /\ At(L, Place(L, n)) = n
  BY <1>2 DEF Place
<1>4. ASSUME NEW i \in 0..Len(L) PROVE Place(L, At(L, i)) = i
  <2>1. At(L, i) \in 1..Len(ns)
    BY ListedNodes
  <2>2. Place(L, At(L, i)) \in 0..Len(L) /\ At(L, Place(L, At(L, i))) = At(L, i)
    BY <1>3, <2>1
  <2> QED
    BY <2>2, ListedNodes
<1> QED
  BY <1>3, <1>4

-----------------------------------------------------------------------------
(* Searches.                                                               *)

\* The keys of the first p nodes of the list are before key, the others not.
Split(ns, L, p, key) ==
  /\ p \in 0..Len(L)
  /\ \A i \in 1..Len(L) : Before(ns[L[i]].key, key) <=> i <= p

\* Every key splits the list.
LEMMA KeySplits ==
  ASSUME NEW ns, NodesOK(ns), NEW L, Listed(ns, L), NEW key \in String
  PROVE  \E p \in 0..Len(L) : Split(ns, L, p, key)
<1> DEFINE P == {i \in 1..Len(L) : Before(ns[L[i]].key, key)}
<1>1. Len(L) \in Nat /\ \A i \in 1..Len(L) : ns[L[i]].key \in String
  BY ListedNodes
<1>2. CASE P = {}
  <2>1. Split(ns, L, 0, key)
    BY <1>1, <1>2 DEF Split
  <2> QED
    BY <1>1, <2>1
<1>3. CASE P # {}
  <2>1. PICK p \in P : \A i \in P : i <= p
    <3>1. P \in SUBSET (1..Len(L))
      OBVIOUS
    <3> HIDE DEF P
    <3> QED
      BY <1>1, <1>3, <3>1, MaxOfPositions
  <2>2. p \in 1..Len(L) /\ Before(ns[L[p]].key, key)
    OBVIOUS
  <2>3. ASSUME NEW i \in 1..Len(L), i <= p PROVE Before(ns[L[i]].key, key)
    <3>1. CASE i = p
      BY <2>2, <3>1
    <3>2. CASE i < p
      <4>1. Before(ns[L[i]].key, ns[L[p]].key)
        BY <2>2, <3>2 DEF Listed
      <4>2. ns[L[i]].key \in String /\ ns[L[p]].key \in String
        BY <1>1, <2>2
      <4> QED
        BY <2>2, <4>1, <4>2, BeforeTransitive
    <3> QED
      BY <1>1, <2>2, <2>3, <3>1, <3>2
  <2>4. ASSUME NEW i \in 1..Len(L), Before(ns[L[i]].key, key) PROVE i <= p
    BY <2>1, <2>4
  <2>5. p \in 0..Len(L)
    BY <2>2
  <2>6. Split(ns, L, p, key)
    BY <2>3, <2>4, <2>5 DEF Split
  <2> QED
    BY <2>5, <2>6
<1> QED
  BY <1>2, <1>3

\* The search went down at node and found the next one.
StoppedAt(node) ==
  [next |-> nodes[node].forward[0],
   prev |-> [i \in 0..MaxLevel |-> IF i = 0 THEN node ELSE Null]]

\* Whether the search for key goes on from node to the next.
GoesOn(node, key) ==
  nodes[node].forward[0] # Null /\ Before(nodes[nodes[node].forward[0]].key, key)

\* The search goes on exactly in front of the place of the key.
LEMMA SearchSteps ==
  ASSUME NodesOK(nodes), NEW L, Listed(nodes, L), NEW key \in String,
         NEW p, Split(nodes, L, p, key), NEW i \in 0..Len(L)
  PROVE  /\ i < p <=> GoesOn(At(L, i), key)
         /\ i < p => nodes[At(L, i)].forward[0] = At(L, i + 1) /\ i + 1 \in 0..Len(L)
<1>1. Len(L) \in Nat /\ \A j \in 1..Len(L) : L[j] \in 2..Len(nodes)
  BY ListedNodes
<1>2. nodes[At(L, i)].forward[0] = At(L, i + 1)
  BY DEF Listed
<1>3. p \in 0..Len(L) /\ \A j \in 1..Len(L) : Before(nodes[L[j]].key, key) <=> j <= p
  BY DEF Split
<1>4. CASE i = Len(L)
  <2>1. At(L, i + 1) = Null
    BY <1>1, <1>4 DEF At
  <2> QED
    BY <1>1, <1>2, <1>3, <1>4, <2>1 DEF GoesOn
<1>5. CASE i < Len(L)
  <2>1. i + 1 \in 1..Len(L) /\ i + 1 \in 0..Len(L)
    BY <1>1, <1>5
  <2>2. At(L, i + 1) = L[i + 1] /\ At(L, i + 1) # Null
    BY <1>1, <2>1 DEF At, Null
  <2>3. Before(nodes[At(L, i + 1)].key, key) <=> i + 1 <= p
    BY <1>3, <2>1, <2>2
  <2>4. i + 1 <= p <=> i < p
    BY <1>1, <1>3
  <2> QED
    BY <1>2, <2>1, <2>2, <2>3, <2>4 DEF GoesOn
<1> QED
  BY <1>1, <1>4, <1>5

\* FindGreaterOrEqual, from one node to the next.
FindBody(find, key) ==
  [at \in Places |->
    LET current == at[1]
        level == at[2]
        next == nodes[current].forward[level]
        below == find[<<current, level - 1>>]
    IN  IF next # Null /\ Before(nodes[next].key, key)
          THEN find[<<next, level>>]
        ELSE IF level = 0
          THEN [next |-> next, prev |-> [i \in 0..MaxLevel |-> IF i = 0 THEN current ELSE Null]]
          ELSE [below EXCEPT !.prev[level] = current]]

\* FindGreaterOrEqual ends at the place of the key.
LEMMA SearchFindsPlace ==
  ASSUME NodesOK(nodes), currentMaxLevel = 1, NEW L, Listed(nodes, L),
         NEW key \in String, NEW p, Split(nodes, L, p, key)
  PROVE  FindGreaterOrEqual(key) = StoppedAt(At(L, p))
<1>1. Len(L) \in Nat /\ p \in 0..Len(L) /\ DOMAIN nodes = 1..Len(nodes)
  BY ListedNodes, NodeTypes DEF Split
<1>2. /\ \A n \in 1..Len(nodes) : Place(L, n) \in 0..Len(L) /\ At(L, Place(L, n)) = n
      /\ \A i \in 0..Len(L) : Place(L, At(L, i)) = i /\ At(L, i) \in 1..Len(nodes)
  BY PlacesInList, ListedNodes
<1>p. Places = (1..Len(nodes)) \X {0}
  <2>1. 0..(currentMaxLevel - 1) = {0}
    OBVIOUS
  <2> QED
    BY <1>1, <2>1 DEF Places
<1> DEFINE ends == [n \in 1..Len(nodes) |-> IF Place(L, n) < p THEN StoppedAt(At(L, p))
                                            ELSE StoppedAt(n)]
           whole == [at \in Places |-> ends[at[1]]]
<1>3. ASSUME NEW n \in 1..Len(nodes)
      PROVE  ends[n] = IF GoesOn(n, key) THEN ends[nodes[n].forward[0]] ELSE StoppedAt(n)
  <2> DEFINE i == Place(L, n)
  <2>1. i \in 0..Len(L) /\ At(L, i) = n
    BY <1>2
  <2> HIDE DEF i
  <2>2. /\ i < p <=> GoesOn(n, key)
        /\ i < p => nodes[n].forward[0] = At(L, i + 1) /\ i + 1 \in 0..Len(L)
    BY <2>1, SearchSteps
  <2>3. CASE i < p
    <3>1. nodes[n].forward[0] \in 1..Len(nodes) /\ Place(L, nodes[n].forward[0]) = i + 1
      BY <1>2, <2>2, <2>3
    <3>2. i + 1 < p \/ i + 1 = p
      BY <1>1, <2>1, <2>3
    <3>3. ends[nodes[n].forward[0]] = StoppedAt(At(L, p))
      BY <2>2, <2>3, <3>1, <3>2
    <3>4. ends[n] = StoppedAt(At(L, p))
      BY <2>3 DEF i
    <3> QED
      BY <2>2, <2>3, <3>3, <3>4
  <2>4. CASE ~(i < p)
    BY <2>2, <2>4 DEF i
  <2> QED
    BY <2>3, <2>4
<1>4. whole = FindBody(whole, key)
  <2>1. ASSUME NEW at \in Places PROVE whole[at] = FindBody(whole, key)[at]
    <3>1. PICK n \in 1..Len(nodes) : at = <<n, 0>>
      BY <1>p
    <3>2. GoesOn(n, key) => nodes[n].forward[0] \in DOMAIN nodes
      <4>1. Place(L, n) \in 0..Len(L) /\ At(L, Place(L, n)) = n
        BY <1>2, <3>1
      <4>2. GoesOn(n, key) =>
              nodes[n].forward[0] = At(L, Place(L, n) + 1) /\ Place(L, n) + 1 \in 0..Len(L)
        BY <4>1, SearchSteps
      <4> QED
        BY <1>1, <1>2, <4>2
    <3>3. /\ whole[<<n, 0>>] = ends[n]
          /\ (GoesOn(n, key) => whole[<<nodes[n].forward[0], 0>>] = ends[nodes[n].forward[0]])
      BY <1>1, <1>p, <3>1, <3>2
    <3> HIDE DEF whole, ends
    <3>4. FindBody(whole, key)[<<n, 0>>] =
            IF GoesOn(n, key) THEN whole[<<nodes[n].forward[0], 0>>] ELSE StoppedAt(n)
      BY <3>1 DEF FindBody, GoesOn, StoppedAt
    <3> QED
      BY <1>3, <3>1, <3>3, <3>4
  <2>2. FindBody(whole, key) = [at \in Places |-> FindBody(whole, key)[at]]
    BY DEF FindBody
  <2> QED
    BY <2>1, <2>2
<1> DEFINE find == CHOOSE f : f = FindBody(f, key)
<1>5. find = FindBody(find, key)
  <2> HIDE DEF whole
  <2> QED
    BY <1>4
<1>6. FindGreaterOrEqual(key) = find[<<HeadNode, 0>>]
  BY DEF FindGreaterOrEqual, FindBody
<1> HIDE DEF find
<1>7. ASSUME NEW i \in 0..Len(L)
      PROVE  find[<<At(L, i), 0>>] = IF i < p THEN find[<<At(L, i + 1), 0>>] ELSE StoppedAt(At(L, i))
  <2>1. <<At(L, i), 0>> \in Places
    BY <1>1, <1>2, <1>p
  <2>2. FindBody(find, key)[<<At(L, i), 0>>] =
          IF GoesOn(At(L, i), key) THEN find[<<nodes[At(L, i)].forward[0], 0>>] ELSE StoppedAt(At(L, i))
    BY <2>1 DEF FindBody, GoesOn, StoppedAt
  <2> QED
    BY <1>5, <2>2, SearchSteps
<1> DEFINE S == {i \in Nat : i <= p => find[<<HeadNode, 0>>] = find[<<At(L, i), 0>>]}
<1>8. 0 \in S
  BY <1>1 DEF At
<1>9. ASSUME NEW i \in Nat, i \in S PROVE i + 1 \in S
  <2> SUFFICES ASSUME i + 1 <= p PROVE find[<<HeadNode, 0>>] = find[<<At(L, i + 1), 0>>]
    OBVIOUS
  <2>1. i \in 0..Len(L) /\ i < p
    BY <1>1
  <2>2. find[<<HeadNode, 0>>] = find[<<At(L, i), 0>>]
    <3>1. i <= p
      BY <1>1, <2>1
    <3> QED
      BY <1>9, <3>1
  <2> QED
    BY <1>7, <2>1, <2>2
<1>10. Nat \subseteq S
  <2> HIDE DEF S
  <2> QED
    BY <1>8, <1>9, SetInduction
<1>11. p \in Nat /\ find[<<HeadNode, 0>>] = find[<<At(L, p), 0>>]
  BY <1>1, <1>10
<1>12. find[<<At(L, p), 0>>] = StoppedAt(At(L, p))
  <2>1. p \in 0..Len(L) /\ ~(p < p)
    BY <1>1
  <2> QED
    BY <1>7, <2>1
<1> QED
  BY <1>6, <1>11, <1>12

\* FindLast, from one node to the next.
LastBody(last) ==
  [at \in Places |->
    LET current == at[1]
        level == at[2]
        next == nodes[current].forward[level]
    IN  IF next # Null THEN last[<<next, level>>]
        ELSE IF level = 0 THEN current
        ELSE last[<<current, level - 1>>]]

\* FindLast ends at the last node of the list.
LEMMA SearchFindsLast ==
  ASSUME NodesOK(nodes), currentMaxLevel = 1, NEW L, Listed(nodes, L)
  PROVE  FindLast = At(L, Len(L))
<1>1. Len(L) \in Nat /\ DOMAIN nodes = 1..Len(nodes) /\ \A i \in 1..Len(L) : L[i] \in 2..Len(nodes)
  BY ListedNodes, NodeTypes
<1>2. \A i \in 0..Len(L) : At(L, i) \in 1..Len(nodes)
  BY ListedNodes
<1>3. ASSUME NEW i \in 0..Len(L)
      PROVE  /\ nodes[At(L, i)].forward[0] = At(L, i + 1)
             /\ At(L, i + 1) # Null <=> i < Len(L)
  <2>1. nodes[At(L, i)].forward[0] = At(L, i + 1)
    BY DEF Listed
  <2>2. CASE i < Len(L)
    <3>1. i + 1 \in 1..Len(L)
      BY <1>1, <2>2
    <3>2. At(L, i + 1) \in 2..Len(nodes)
      BY <1>1, <3>1 DEF At
    <3> QED
      BY <2>1, <2>2, <3>2 DEF Null
  <2>3. CASE i = Len(L)
    BY <1>1, <2>1, <2>3 DEF At
  <2> QED
    BY <1>1, <2>2, <2>3
<1>4. Places = (1..Len(nodes)) \X {0}
  <2>1. 0..(currentMaxLevel - 1) = {0}
    OBVIOUS
  <2> QED
    BY <1>1, <2>1 DEF Places
<1> DEFINE whole == [at \in Places |-> At(L, Len(L))]
<1>5. whole = LastBody(whole)
  <2>1. ASSUME NEW at \in Places PROVE whole[at] = LastBody(whole)[at]
    <3>1. PICK n \in 1..Len(nodes) : at = <<n, 0>>
      BY <1>4
    <3>2. PICK i \in 0..Len(L) : At(L, i) = n
      BY PlacesInList
    <3>3. nodes[n].forward[0] = At(L, i + 1) /\ (At(L, i + 1) # Null <=> i < Len(L))
      BY <1>3, <3>2
    <3>4. CASE i < Len(L)
      <4>1. i + 1 \in 0..Len(L)
        BY <1>1, <3>4
      <4>2. <<At(L, i + 1), 0>> \in Places
        BY <1>2, <1>4, <4>1
      <4>3. whole[<<At(L, i + 1), 0>>] = At(L, Len(L)) /\ whole[at] = At(L, Len(L))
        BY <4>2
      <4> HIDE DEF whole
      <4> QED
        BY <3>1, <3>3, <3>4, <4>3 DEF LastBody
    <3>5. CASE i = Len(L)
      <4>1. whole[at] = n
        BY <3>2, <3>5
      <4> HIDE DEF whole
      <4> QED
        BY <1>1, <3>1, <3>3, <3>5, <4>1 DEF LastBody
    <3> QED
      BY <1>1, <3>4, <3>5
  <2>2. LastBody(whole) = [at \in Places |-> LastBody(whole)[at]]
    BY DEF LastBody
  <2> QED
    BY <2>1, <2>2
<1> DEFINE last == CHOOSE f : f = LastBody(f)
<1>6. last = LastBody(last)
  <2> HIDE DEF whole
  <2> QED
    BY <1>5
<1>7. FindLast = last[<<HeadNode, 0>>]
  BY DEF FindLast, LastBody
<1> HIDE DEF last
<1>8. ASSUME NEW i \in 0..Len(L)
      PROVE  last[<<At(L, i), 0>>] = IF i < Len(L) THEN last[<<At(L, i + 1), 0>>] ELSE At(L, i)
  <2>1. <<At(L, i), 0>> \in Places
    BY <1>2, <1>4
  <2>2. LastBody(last)[<<At(L, i), 0>>] =
          IF At(L, i + 1) # Null THEN last[<<At(L, i + 1), 0>>] ELSE At(L, i)
    BY <1>3, <2>1 DEF LastBody
  <2> QED
    BY <1>3, <1>6, <2>2
<1> DEFINE S == {i \in Nat : i <= Len(L) => last[<<HeadNode, 0>>] = last[<<At(L, i), 0>>]}
<1>9. 0 \in S
  BY <1>1 DEF At
<1>10. ASSUME NEW i \in Nat, i \in S PROVE i + 1 \in S
  <2> SUFFICES ASSUME i + 1 <= Len(L)
               PROVE  last[<<HeadNode, 0>>] = last[<<At(L, i + 1), 0>>]
    OBVIOUS
  <2>1. i \in 0..Len(L) /\ i < Len(L) /\ i <= Len(L)
    BY <1>1
  <2>2. last[<<HeadNode, 0>>] = last[<<At(L, i), 0>>]
    BY <1>10, <2>1
  <2> QED
    BY <1>8, <2>1, <2>2
<1>11. Nat \subseteq S
  <2> HIDE DEF S
  <2> QED
    BY <1>9, <1>10, SetInduction
<1>12. last[<<HeadNode, 0>>] = last[<<At(L, Len(L)), 0>>]
  BY <1>1, <1>11
<1>13. last[<<At(L, Len(L)), 0>>] = At(L, Len(L))
  <2>1. Len(L) \in 0..Len(L) /\ ~(Len(L) < Len(L))
    BY <1>1
  <2> QED
    BY <1>8, <2>1
<1> QED
  BY <1>7, <1>12, <1>13

-----------------------------------------------------------------------------
(* Iterators.                                                              *)

\* The nodes of the list from its i-th on.
Rest(L, i) == SubSeq(L, i, Len(L))

\* The rest begins with its first node.
LEMMA RestBegins ==
  ASSUME NEW S, NEW L \in Seq(S)
  PROVE  /\ \A i \in 1..Len(L) : Rest(L, i) = <<L[i]>> \o Rest(L, i + 1)
         /\ Rest(L, Len(L) + 1) = << >>
         /\ Rest(L, 1) = L
<1>1. Len(L) \in Nat
  OBVIOUS
<1>2. ASSUME NEW i \in 1..Len(L) PROVE Rest(L, i) = <<L[i]>> \o Rest(L, i + 1)
  <2>1. Len(L) \in i..Len(L)
    BY <1>1
  <2> QED
    BY <2>1, SubSeqRecursiveFirst DEF Rest
<1>3. Rest(L, Len(L) + 1) = << >>
  <2>1. Len(L) + 1 \in Int /\ Len(L) \in Int /\ Len(L) < Len(L) + 1
    BY <1>1
  <2> QED
    BY <2>1, SubSeqEmpty DEF Rest
<1>4. Rest(L, 1) = L
  BY SubSeqFull DEF Rest
<1> QED
  BY <1>2, <1>3, <1>4

\* An iterator, from one node to the next.
WalkBody(walk) ==
  [n \in 0..Len(nodes) |->
    IF n = Null THEN << >> ELSE <<n>> \o walk[nodes[n].forward[0]]]

\* An iterator at the i-th node visits the rest of the list.
LEMMA IteratorVisitsRest ==
  ASSUME NodesOK(nodes), NEW L, Listed(nodes, L)
  PROVE  \A i \in 1..(Len(L) + 1) : From(At(L, i)) = Rest(L, i)
<1>1. /\ Len(nodes) \in Nat \ {0} /\ Len(L) \in Nat
      /\ \A i \in 1..Len(L) : L[i] \in 2..Len(nodes)
      /\ \A i \in 0..Len(L) : At(L, i) \in 1..Len(nodes)
  BY ListedNodes, NodeTypes
<1>2. L \in Seq(2..Len(nodes))
  BY DEF Listed
<1>3. ASSUME NEW i \in 1..(Len(L) + 1) PROVE At(L, i) \in 0..Len(nodes)
  BY <1>1 DEF At, Null
<1>4. ASSUME NEW i \in 0..Len(L) PROVE nodes[At(L, i)].forward[0] = At(L, i + 1)
  BY DEF Listed
<1>5. At(L, Len(L) + 1) = Null
  BY <1>1 DEF At
<1> DEFINE visited == [n \in 0..Len(nodes) |->
                        IF n = Null THEN << >> ELSE <<n>> \o Rest(L, Place(L, n) + 1)]
<1>6. ASSUME NEW i \in 1..(Len(L) + 1) PROVE visited[At(L, i)] = Rest(L, i)
  <2>1. CASE i = Len(L) + 1
    BY <1>2, <1>3, <1>5, <2>1, RestBegins
  <2>2. CASE i # Len(L) + 1
    <3>1. i \in 1..Len(L) /\ i \in 0..Len(L)
      BY <1>1, <2>2
    <3>2. At(L, i) = L[i] /\ At(L, i) # Null /\ Place(L, At(L, i)) = i
      BY <1>1, <3>1, PlacesInList DEF At, Null
    <3>3. visited[At(L, i)] = <<At(L, i)>> \o Rest(L, i + 1)
      BY <1>3, <3>2
    <3> QED
      BY <1>2, <3>1, <3>2, <3>3, RestBegins
  <2> QED
    BY <2>1, <2>2
<1>7. visited = WalkBody(visited)
  <2>1. ASSUME NEW n \in 0..Len(nodes) PROVE visited[n] = WalkBody(visited)[n]
    <3>1. CASE n = Null
      BY <3>1 DEF WalkBody
    <3>2. CASE n # Null
      <4>1. n \in 1..Len(nodes)
        BY <1>1, <3>2 DEF Null
      <4> DEFINE i == Place(L, n)
      <4>2. i \in 0..Len(L) /\ At(L, i) = n
        BY <4>1, PlacesInList
      <4>3. visited[n] = <<n>> \o Rest(L, i + 1)
        BY <3>2
      <4> HIDE DEF i
      <4>4. i + 1 \in 1..(Len(L) + 1) /\ nodes[n].forward[0] = At(L, i + 1)
        BY <1>1, <1>4, <4>2
      <4>5. visited[nodes[n].forward[0]] = Rest(L, i + 1)
        BY <1>6, <4>4
      <4> HIDE DEF visited
      <4> QED
        BY <3>2, <4>3, <4>5 DEF WalkBody
    <3> QED
      BY <3>1, <3>2
  <2>2. WalkBody(visited) = [n \in 0..Len(nodes) |-> WalkBody(visited)[n]]
    BY DEF WalkBody
  <2> QED
    BY <2>1, <2>2
<1> DEFINE walk == CHOOSE f : f = WalkBody(f)
<1>8. walk = WalkBody(walk)
  <2> HIDE DEF visited
  <2> QED
    BY <1>7
<1>9. ASSUME NEW n PROVE From(n) = walk[n]
  BY DEF From, WalkBody
<1> HIDE DEF walk
<1>10. walk[At(L, Len(L) + 1)] = << >>
  BY <1>1, <1>5, <1>8 DEF WalkBody, Null
<1>11. ASSUME NEW i \in 1..Len(L)
       PROVE  walk[At(L, i)] = <<L[i]>> \o walk[At(L, i + 1)]
  <2>1. i \in 0..Len(L) /\ At(L, i) = L[i] /\ L[i] # Null /\ L[i] \in 0..Len(nodes)
    BY <1>1 DEF At, Null
  <2>2. WalkBody(walk)[L[i]] = <<L[i]>> \o walk[nodes[L[i]].forward[0]]
    BY <2>1 DEF WalkBody
  <2> QED
    BY <1>4, <1>8, <2>1, <2>2
<1> DEFINE S == {j \in Nat : j <= Len(L) => walk[At(L, Len(L) + 1 - j)] = Rest(L, Len(L) + 1 - j)}
<1>12. 0 \in S
  <2>1. Len(L) + 1 - 0 = Len(L) + 1
    BY <1>1
  <2> QED
    BY <1>2, <1>10, <2>1, RestBegins
<1>13. ASSUME NEW j \in Nat, j \in S PROVE j + 1 \in S
  <2> SUFFICES ASSUME j + 1 <= Len(L)
               PROVE  walk[At(L, Len(L) + 1 - (j + 1))] = Rest(L, Len(L) + 1 - (j + 1))
    OBVIOUS
  <2> DEFINE i == Len(L) + 1 - (j + 1)
  <2>1. i \in 1..Len(L) /\ i + 1 = Len(L) + 1 - j /\ j <= Len(L)
    BY <1>1
  <2>2. walk[At(L, i + 1)] = Rest(L, i + 1)
    BY <1>13, <2>1
  <2> HIDE DEF i
  <2>3. walk[At(L, i)] = Rest(L, i)
    <3>1. i \in 1..Len(L)
      BY <2>1
    <3>2. Rest(L, i) = <<L[i]>> \o Rest(L, i + 1)
      BY <1>2, <3>1, RestBegins
    <3>3. walk[At(L, i)] = <<L[i]>> \o walk[At(L, i + 1)]
      BY <1>11, <3>1
    <3> QED
      BY <2>2, <3>2, <3>3, Zenon
  <2> QED
    BY <2>3 DEF i
<1>14. Nat \subseteq S
  <2> HIDE DEF S
  <2> QED
    BY <1>12, <1>13, SetInduction
<1>15. ASSUME NEW i \in 1..(Len(L) + 1) PROVE walk[At(L, i)] = Rest(L, i)
  <2> DEFINE j == Len(L) + 1 - i
  <2>1. j \in Nat /\ j <= Len(L) /\ Len(L) + 1 - j = i
    BY <1>1
  <2>2. j \in S
    BY <1>14, <2>1
  <2>3. walk[At(L, Len(L) + 1 - j)] = Rest(L, Len(L) + 1 - j)
    <3> HIDE DEF j
    <3> QED
      BY <2>1, <2>2
  <2> QED
    BY <2>1, <2>3
<1> QED
  BY <1>9, <1>15

\* Level 0 is the list.
LEMMA WalkIsList ==
  ASSUME NodesOK(nodes), NEW L, Listed(nodes, L)
  PROVE  Walk = L
<1>1. Len(L) \in Nat /\ L \in Seq(2..Len(nodes))
  BY ListedNodes DEF Listed
<1>2. nodes[HeadNode].forward[0] = At(L, 1)
  <2>1. At(L, 0) = HeadNode /\ 0 \in 0..Len(L) /\ 0 + 1 = 1
    BY <1>1 DEF At
  <2> QED
    BY <2>1 DEF Listed
<1>3. From(At(L, 1)) = Rest(L, 1)
  BY <1>1, IteratorVisitsRest
<1> QED
  BY <1>1, <1>2, <1>3, RestBegins DEF Walk

-----------------------------------------------------------------------------
(* Writing an entry again.                                                 *)

\* ns with node n written again.
Rewritten(ns, n, value, seq, deleted) ==
  [ns EXCEPT ![n] = [@ EXCEPT !.value = value, !.seq = seq, !.deleted = deleted]]

\* What writing a node again changes.
LEMMA RewrittenNodes ==
  ASSUME NEW ns, NodesOK(ns), NEW n \in 2..Len(ns),
         NEW value \in Value, NEW seq \in Sequence, NEW deleted \in BOOLEAN,
         deleted => value = Empty,
         NEW ns2, ns2 = Rewritten(ns, n, value, seq, deleted)
  PROVE  /\ NodesOK(ns2)
         /\ Len(ns2) = Len(ns)
         /\ \A m \in 1..Len(ns) : ns2[m].key = ns[m].key /\ ns2[m].forward = ns[m].forward
         /\ \A m \in 1..Len(ns) : m # n => ns2[m] = ns[m]
         /\ ns2[n].value = value /\ ns2[n].seq = seq /\ ns2[n].deleted = deleted
<1>1. Len(ns) \in Nat \ {0} /\ ns \in Seq(HeadRecord \cup NodeRecord) /\ n \in 1..Len(ns)
      /\ DOMAIN ns = 1..Len(ns)
  BY NodeTypes DEF NodesOK
<1> DEFINE node == [ns[n] EXCEPT !.value = value, !.seq = seq, !.deleted = deleted]
<1>2. ns[n] \in NodeRecord
  BY DEF NodesOK
<1>3. /\ node \in NodeRecord /\ node.key = ns[n].key /\ node.forward = ns[n].forward
      /\ node.value = value /\ node.seq = seq /\ node.deleted = deleted
  BY <1>2 DEF NodeRecord
<1>4. ns2 = [ns EXCEPT ![n] = node]
  BY DEF Rewritten
<1> HIDE DEF node
<1>5. /\ ns2 \in Seq(HeadRecord \cup NodeRecord)
      /\ Len(ns2) = Len(ns)
      /\ \A m \in 1..Len(ns) : ns2[m] = IF m = n THEN node ELSE ns[m]
  <2>1. node \in HeadRecord \cup NodeRecord
    BY <1>3
  <2> QED
    BY <1>1, <1>4, <2>1, ExceptSeq
<1>6. NodesOK(ns2)
  <2>1. 1 \in 1..Len(ns) /\ 1 # n
    BY <1>1
  <2>2. ns2[HeadNode] = ns[HeadNode]
    BY <1>5, <2>1 DEF HeadNode
  <2>3. ASSUME NEW m \in 2..Len(ns2)
        PROVE  ns2[m] \in NodeRecord /\ (ns2[m].deleted => ns2[m].value = Empty)
    <3>1. m \in 2..Len(ns) /\ m \in 1..Len(ns)
      BY <1>1, <1>5
    <3>2. CASE m = n
      BY <1>3, <1>5, <3>1, <3>2
    <3>3. CASE m # n
      BY <1>5, <3>1, <3>3 DEF NodesOK
    <3> QED
      BY <3>2, <3>3
  <2>4. ns[HeadNode] \in HeadRecord /\ (\A i \in 1..MaxLevel : ns[HeadNode].forward[i] = Null)
        /\ Len(ns2) >= 1
    BY <1>5 DEF NodesOK
  <2> QED
    BY <1>5, <2>2, <2>3, <2>4 DEF NodesOK
<1> QED
  BY <1>3, <1>5, <1>6

\* Links and keys are what makes a list.
LEMMA ListedByLinks ==
  ASSUME NEW ns, NodesOK(ns), NEW ns2, Len(ns2) = Len(ns),
         \A m \in 1..Len(ns) : ns2[m].key = ns[m].key /\ ns2[m].forward = ns[m].forward,
         NEW L, Listed(ns, L)
  PROVE  Listed(ns2, L)
<1>1. /\ Len(ns) \in Nat \ {0} /\ Len(L) \in Nat
      /\ \A i \in 1..Len(L) : L[i] \in 2..Len(ns)
      /\ \A i \in 0..Len(L) : At(L, i) \in 1..Len(ns)
  BY NodeTypes, ListedNodes
<1>2. L \in Seq(2..Len(ns2)) /\ \A n \in 2..Len(ns2) : \E i \in 1..Len(L) : L[i] = n
  BY DEF Listed
<1>3. ASSUME NEW i \in 0..Len(L) PROVE ns2[At(L, i)].forward[0] = At(L, i + 1)
  <2>1. ns[At(L, i)].forward[0] = At(L, i + 1)
    BY DEF Listed
  <2> QED
    BY <1>1, <2>1
<1>4. ASSUME NEW i \in 1..Len(L), NEW j \in 1..Len(L), i < j
      PROVE  Before(ns2[L[i]].key, ns2[L[j]].key)
  <2>1. Before(ns[L[i]].key, ns[L[j]].key)
    BY <1>4 DEF Listed
  <2>2. L[i] \in 1..Len(ns) /\ L[j] \in 1..Len(ns)
    BY <1>1
  <2> QED
    BY <2>1, <2>2
<1> QED
  BY <1>2, <1>3, <1>4 DEF Listed

-----------------------------------------------------------------------------
(* Linking a new node.                                                     *)

\* ns2 is ns with a node linked in behind the p-th node of the list.
LinkedAt(ns, ns2, L, p, node) ==
  /\ ns2 \in Seq(HeadRecord \cup NodeRecord)
  /\ Len(ns2) = Len(ns) + 1
  /\ node \in NodeRecord /\ (node.deleted => node.value = Empty)
  /\ ns2[Len(ns) + 1] = node
  /\ node.forward[0] = At(L, p + 1)
  /\ \A n \in 1..Len(ns) :
       ns2[n] = [ns[n] EXCEPT !.forward =
                   [i \in DOMAIN @ |-> IF i = 0 /\ n = At(L, p) THEN Len(ns) + 1 ELSE @[i]]]

\* The list with node new behind its p-th node.
With(L, p, new) ==
  [i \in 1..(Len(L) + 1) |-> IF i <= p THEN L[i] ELSE IF i = p + 1 THEN new ELSE L[i - 1]]

\* What linking a node leaves alone.
LEMMA LinkedNodes ==
  ASSUME NEW ns, NodesOK(ns), NEW L, NEW p, NEW node, NEW ns2, LinkedAt(ns, ns2, L, p, node)
  PROVE  /\ \A n \in 1..Len(ns) :
              /\ ns2[n].key = ns[n].key /\ ns2[n].value = ns[n].value
              /\ ns2[n].seq = ns[n].seq /\ ns2[n].deleted = ns[n].deleted
              /\ ns2[n].forward[0] = IF n = At(L, p) THEN Len(ns) + 1 ELSE ns[n].forward[0]
         /\ NodesOK(ns2)
<1>1. Len(ns) \in Nat \ {0} /\ DOMAIN ns = 1..Len(ns)
  BY NodeTypes
<1> DEFINE links(n) == [i \in DOMAIN ns[n].forward |->
                          IF i = 0 /\ n = At(L, p) THEN Len(ns) + 1 ELSE ns[n].forward[i]]
<1>2. \A n \in 1..Len(ns) : ns2[n] = [ns[n] EXCEPT !.forward = links(n)]
  BY DEF LinkedAt
<1>3. ASSUME NEW n \in 2..Len(ns)
      PROVE  /\ ns2[n] \in NodeRecord
             /\ ns2[n].key = ns[n].key /\ ns2[n].value = ns[n].value
             /\ ns2[n].seq = ns[n].seq /\ ns2[n].deleted = ns[n].deleted
             /\ ns2[n].forward[0] = IF n = At(L, p) THEN Len(ns) + 1 ELSE ns[n].forward[0]
  <2>1. ns[n] \in NodeRecord
    BY DEF NodesOK
  <2>2. /\ links(n) \in [0..0 -> Nat]
        /\ links(n)[0] = IF n = At(L, p) THEN Len(ns) + 1 ELSE ns[n].forward[0]
    BY <1>1, <2>1 DEF NodeRecord
  <2>3. ns2[n] = [ns[n] EXCEPT !.forward = links(n)]
    BY <1>1, <1>2
  <2> HIDE DEF links
  <2> QED
    BY <2>1, <2>2, <2>3 DEF NodeRecord
<1>4. /\ ns2[1] \in HeadRecord
      /\ ns2[1].key = ns[1].key /\ ns2[1].value = ns[1].value
      /\ ns2[1].seq = ns[1].seq /\ ns2[1].deleted = ns[1].deleted
      /\ ns2[1].forward[0] = IF 1 = At(L, p) THEN Len(ns) + 1 ELSE ns[1].forward[0]
      /\ \A i \in 1..MaxLevel : ns2[1].forward[i] = Null
  <2>1. ns[1] \in HeadRecord /\ \A i \in 1..MaxLevel : ns[1].forward[i] = Null
    BY DEF NodesOK, HeadNode
  <2>2. /\ links(1) \in [0..MaxLevel -> Nat]
        /\ links(1)[0] = IF 1 = At(L, p) THEN Len(ns) + 1 ELSE ns[1].forward[0]
        /\ \A i \in 1..MaxLevel : links(1)[i] = Null
    <3>1. ns[1].forward \in [0..MaxLevel -> Nat] /\ MaxLevel \in Nat
      BY <2>1, TableAssumption DEF HeadRecord
    <3>2. \A i \in 1..MaxLevel : i \in 0..MaxLevel /\ i # 0
      OBVIOUS
    <3> QED
      BY <1>1, <2>1, <3>1, <3>2
  <2>3. ns2[1] = [ns[1] EXCEPT !.forward = links(1)]
    <3>1. 1 \in 1..Len(ns)
      BY <1>1
    <3> HIDE DEF links
    <3> QED
      BY <1>2, <3>1
  <2> HIDE DEF links
  <2> QED
    BY <2>1, <2>2, <2>3 DEF HeadRecord
<1>5. ASSUME NEW n \in 1..Len(ns)
      PROVE  /\ ns2[n].key = ns[n].key /\ ns2[n].value = ns[n].value
             /\ ns2[n].seq = ns[n].seq /\ ns2[n].deleted = ns[n].deleted
             /\ ns2[n].forward[0] = IF n = At(L, p) THEN Len(ns) + 1 ELSE ns[n].forward[0]
  <2>1. n = 1 \/ n \in 2..Len(ns)
    BY <1>1
  <2> QED
    BY <1>3, <1>4, <2>1
<1>6. ASSUME NEW n \in 2..Len(ns2)
      PROVE  ns2[n] \in NodeRecord /\ (ns2[n].deleted => ns2[n].value = Empty)
  <2>1. n = Len(ns) + 1 \/ n \in 2..Len(ns)
    BY <1>1 DEF LinkedAt
  <2>2. CASE n = Len(ns) + 1
    BY <2>2 DEF LinkedAt
  <2>3. CASE n \in 2..Len(ns)
    <3>1. ns[n].deleted => ns[n].value = Empty
      BY <2>3 DEF NodesOK
    <3> QED
      BY <1>3, <2>3, <3>1
  <2> QED
    BY <2>1, <2>2, <2>3
<1>7. ns2 \in Seq(HeadRecord \cup NodeRecord) /\ Len(ns2) >= 1
  BY <1>1 DEF LinkedAt
<1>8. NodesOK(ns2)
  BY <1>4, <1>6, <1>7 DEF NodesOK, HeadNode
<1> QED
  BY <1>5, <1>8

\* A node linked in at the place of its key, which is new, keeps the list in
\* order.
LEMMA LinkedList ==
  ASSUME NEW ns, NodesOK(ns), NEW L, Listed(ns, L), NEW p, NEW node, NEW ns2,
         LinkedAt(ns, ns2, L, p, node), Split(ns, L, p, node.key),
         \A i \in 1..Len(L) : ns[L[i]].key # node.key
  PROVE  Listed(ns2, With(L, p, Len(ns) + 1)) /\ Len(With(L, p, Len(ns) + 1)) = Len(L) + 1
<1> DEFINE new == Len(ns) + 1
           M == With(L, p, new)
<1>1. /\ Len(ns) \in Nat \ {0} /\ Len(L) \in Nat /\ p \in 0..Len(L)
      /\ \A i \in 1..Len(L) : L[i] \in 2..Len(ns) /\ ns[L[i]].key \in String
      /\ \A i \in 0..Len(L) : At(L, i) \in 1..Len(ns)
      /\ \A i, j \in 0..Len(L) : At(L, i) = At(L, j) => i = j
  BY NodeTypes, ListedNodes DEF Split
<1>2. Len(ns2) = new /\ ns2[new] = node /\ node.forward[0] = At(L, p + 1) /\ node.key \in String
  <2>1. node.key \in Key
    BY DEF LinkedAt, NodeRecord
  <2> QED
    BY <2>1, TableAssumption DEF LinkedAt, String
<1>3. /\ M \in Seq(2..new) /\ Len(M) = Len(L) + 1
      /\ \A i \in 1..(Len(L) + 1) :
           M[i] = IF i <= p THEN L[i] ELSE IF i = p + 1 THEN new ELSE L[i - 1]
  <2>1. \A i \in 1..(Len(L) + 1) :
          (IF i <= p THEN L[i] ELSE IF i = p + 1 THEN new ELSE L[i - 1]) \in 2..new
    <3>1. ASSUME NEW i \in 1..(Len(L) + 1), i <= p PROVE L[i] \in 2..new
      <4>1. i \in 1..Len(L)
        BY <1>1, <3>1
      <4> QED
        BY <1>1, <4>1
    <3>2. ASSUME NEW i \in 1..(Len(L) + 1), ~(i <= p), i # p + 1 PROVE L[i - 1] \in 2..new
      <4>1. i - 1 \in 1..Len(L)
        BY <1>1, <3>2
      <4>2. L[i - 1] \in 2..Len(ns)
        BY <1>1, <4>1
      <4> QED
        BY <1>1, <4>2
    <3>3. new \in 2..new
      BY <1>1
    <3> HIDE DEF new
    <3> QED
      BY <3>1, <3>2, <3>3
  <2> QED
    BY <1>1, <2>1 DEF With
<1> HIDE DEF M
<1>4. \A n \in 1..Len(ns) :
        /\ ns2[n].key = ns[n].key
        /\ ns2[n].forward[0] = IF n = At(L, p) THEN new ELSE ns[n].forward[0]
  BY LinkedNodes
<1>5. ASSUME NEW n \in 2..Len(ns2) PROVE \E i \in 1..Len(M) : M[i] = n
  <2>1. CASE n = new
    <3>1. p + 1 \in 1..(Len(L) + 1) /\ ~(p + 1 <= p)
      BY <1>1
    <3> QED
      BY <1>3, <2>1, <3>1
  <2>2. CASE n # new
    <3>1. n \in 2..Len(ns)
      BY <1>1, <1>2, <2>2
    <3>2. PICK i \in 1..Len(L) : L[i] = n
      BY <3>1 DEF Listed
    <3>3. CASE i <= p
      <4>1. i \in 1..(Len(L) + 1)
        BY <1>1
      <4> QED
        BY <1>3, <3>2, <3>3, <4>1
    <3>4. CASE p < i
      <4>1. i + 1 \in 1..(Len(L) + 1) /\ ~(i + 1 <= p) /\ i + 1 # p + 1 /\ (i + 1) - 1 = i
        BY <1>1, <3>4
      <4>2. M[i + 1] = L[i]
        BY <1>3, <4>1
      <4> QED
        BY <1>3, <3>2, <4>1, <4>2
    <3> QED
      BY <1>1, <3>3, <3>4
  <2> QED
    BY <2>1, <2>2
<1>6. ASSUME NEW i \in 0..(Len(L) + 1)
      PROVE  At(M, i) = IF i <= p THEN At(L, i) ELSE IF i = p + 1 THEN new ELSE At(L, i - 1)
  BY <1>1, <1>3, SMTT(40) DEF At
<1>7. At(M, Len(L) + 2) = Null /\ At(L, Len(L) + 1) = Null
  BY <1>1, <1>3 DEF At
<1>8. ASSUME NEW i \in 0..Len(M) PROVE ns2[At(M, i)].forward[0] = At(M, i + 1)
  <2>1. CASE i < p
    <3>1. /\ i \in 0..(Len(L) + 1) /\ i + 1 \in 0..(Len(L) + 1) /\ i <= p /\ i + 1 <= p
          /\ i \in 0..Len(L) /\ i # p
      BY <1>1, <1>3, <2>1
    <3>2. At(M, i) = At(L, i) /\ At(M, i + 1) = At(L, i + 1) /\ At(L, i) # At(L, p)
      BY <1>1, <1>6, <3>1
    <3>3. ns[At(L, i)].forward[0] = At(L, i + 1)
      BY <3>1 DEF Listed
    <3> QED
      BY <1>1, <1>4, <3>1, <3>2, <3>3
  <2>2. CASE i = p
    <3>1. /\ i \in 0..(Len(L) + 1) /\ i + 1 \in 0..(Len(L) + 1) /\ i <= p
          /\ ~(i + 1 <= p) /\ i + 1 = p + 1
      BY <1>1, <1>3, <2>2
    <3>2. At(M, i) = At(L, p) /\ At(M, i + 1) = new
      BY <1>6, <2>2, <3>1
    <3> QED
      BY <1>1, <1>4, <3>2
  <2>3. CASE i = p + 1
    <3>1. At(M, i) = new
      BY <1>1, <1>6, <2>3
    <3>2. At(M, i + 1) = At(L, p + 1)
      <4>1. CASE p = Len(L)
        <5>1. i + 1 = Len(L) + 2 /\ p + 1 = Len(L) + 1
          BY <1>1, <2>3, <4>1
        <5> QED
          BY <1>7, <5>1
      <4>2. CASE p < Len(L)
        <5>1. /\ i + 1 \in 0..(Len(L) + 1) /\ ~(i + 1 <= p) /\ i + 1 # p + 1
              /\ (i + 1) - 1 = p + 1
          BY <1>1, <2>3, <4>2
        <5> QED
          BY <1>6, <5>1
      <4> QED
        BY <1>1, <4>1, <4>2
    <3> QED
      BY <1>2, <3>1, <3>2
  <2>4. CASE p + 1 < i
    <3>1. /\ i - 1 \in 0..Len(L) /\ i - 1 # p /\ i \in 0..(Len(L) + 1) /\ ~(i <= p) /\ i # p + 1
          /\ (i - 1) + 1 = i
      BY <1>1, <1>3, <2>4
    <3>2. At(M, i) = At(L, i - 1)
      BY <1>6, <3>1
    <3>3. ns[At(L, i - 1)].forward[0] = At(L, i) /\ At(L, i - 1) # At(L, p)
      BY <1>1, <3>1 DEF Listed
    <3>4. ns2[At(M, i)].forward[0] = At(L, i)
      BY <1>1, <1>4, <3>1, <3>2, <3>3
    <3>5. At(M, i + 1) = At(L, i)
      <4>1. CASE i = Len(L) + 1
        <5>1. i + 1 = Len(L) + 2
          BY <1>1, <4>1
        <5> QED
          BY <1>7, <4>1, <5>1
      <4>2. CASE i < Len(L) + 1
        <5>1. /\ i + 1 \in 0..(Len(L) + 1) /\ ~(i + 1 <= p) /\ i + 1 # p + 1 /\ (i + 1) - 1 = i
          BY <1>1, <2>4, <4>2
        <5> QED
          BY <1>6, <5>1
      <4> QED
        <5>1. i \in 0..(Len(L) + 1)
          BY <3>1
        <5> QED
          BY <1>1, <4>1, <4>2, <5>1
    <3> QED
      BY <3>4, <3>5
  <2> QED
    BY <1>1, <1>3, <2>1, <2>2, <2>3, <2>4
<1>9. ASSUME NEW i \in 1..Len(L)
      PROVE  /\ i <= p => Before(ns[L[i]].key, node.key)
             /\ p < i => Before(node.key, ns[L[i]].key)
  <2>1. Before(ns[L[i]].key, node.key) <=> i <= p
    BY DEF Split
  <2>2. ns[L[i]].key # node.key /\ ns[L[i]].key \in String
    BY <1>1
  <2>3. p < i => ~(i <= p)
    BY <1>1
  <2> QED
    BY <1>2, <2>1, <2>2, <2>3, BeforeTotal
<1>10. ASSUME NEW i \in 1..Len(M)
       PROVE  /\ i <= p => ns2[M[i]].key = ns[L[i]].key /\ i \in 1..Len(L)
              /\ i = p + 1 => ns2[M[i]].key = node.key
              /\ p + 1 < i => ns2[M[i]].key = ns[L[i - 1]].key /\ i - 1 \in 1..Len(L)
  <2>1. i \in 1..(Len(L) + 1)
    BY <1>3
  <2>2. ASSUME i <= p PROVE ns2[M[i]].key = ns[L[i]].key /\ i \in 1..Len(L)
    <3>1. i \in 1..Len(L) /\ M[i] = L[i]
      BY <1>1, <1>3, <2>1, <2>2
    <3>2. L[i] \in 1..Len(ns)
      BY <1>1, <3>1
    <3> QED
      BY <1>4, <3>1, <3>2
  <2>3. ASSUME i = p + 1 PROVE ns2[M[i]].key = node.key
    <3>1. ~(i <= p)
      BY <1>1, <2>3
    <3> QED
      BY <1>2, <1>3, <2>1, <2>3, <3>1
  <2>4. ASSUME p + 1 < i PROVE ns2[M[i]].key = ns[L[i - 1]].key /\ i - 1 \in 1..Len(L)
    <3>1. i - 1 \in 1..Len(L) /\ ~(i <= p) /\ i # p + 1
      BY <1>1, <2>1, <2>4
    <3>2. M[i] = L[i - 1]
      BY <1>3, <2>1, <3>1
    <3>3. L[i - 1] \in 1..Len(ns)
      BY <1>1, <3>1
    <3> QED
      BY <1>4, <3>1, <3>2, <3>3
  <2> QED
    BY <2>2, <2>3, <2>4
<1>11. ASSUME NEW i \in 1..Len(M), NEW j \in 1..Len(M), i < j
       PROVE  Before(ns2[M[i]].key, ns2[M[j]].key)
  <2>0. \A k, l \in 1..Len(L) : k < l => Before(ns[L[k]].key, ns[L[l]].key)
    BY DEF Listed
  <2>1. CASE j <= p
    <3>1. i <= p
      BY <1>1, <1>3, <1>11, <2>1
    <3> QED
      BY <1>10, <1>11, <2>0, <2>1, <3>1
  <2>2. CASE j = p + 1
    <3>1. i <= p
      BY <1>1, <1>3, <1>11, <2>2
    <3> QED
      BY <1>9, <1>10, <2>2, <3>1
  <2>3. CASE p + 1 < j
    <3>1. p < j - 1
      BY <1>1, <1>3, <2>3
    <3>2. CASE i <= p
      <4>1. i < j - 1
        BY <1>1, <1>3, <3>1, <3>2
      <4> QED
        BY <1>10, <2>0, <2>3, <3>2, <4>1
    <3>3. CASE i = p + 1
      BY <1>9, <1>10, <2>3, <3>1, <3>3
    <3>4. CASE p + 1 < i
      <4>1. i - 1 < j - 1
        BY <1>3, <1>11
      <4> QED
        BY <1>10, <2>0, <2>3, <3>4, <4>1
    <3> QED
      BY <1>1, <1>3, <3>2, <3>3, <3>4
  <2> QED
    BY <1>1, <1>3, <2>1, <2>2, <2>3
<1>12. Listed(ns2, M)
  BY <1>2, <1>3, <1>5, <1>8, <1>11 DEF Listed
<1> QED
  BY <1>3, <1>12 DEF M
-----------------------------------------------------------------------------
(* Remainders: size_ and memory_usage_ wrap.                               *)

\* Quotient and remainder.
LEMMA DivisionInInt ==
  ASSUME NEW m \in Nat \ {0}, NEW x \in Int
  PROVE  x \div m \in Int /\ x % m \in 0..(m - 1) /\ x = m * (x \div m) + (x % m)
OBVIOUS

\* A remainder is known by any quotient.
LEMMA RemainderUnique ==
  ASSUME NEW m \in Nat \ {0}, NEW q \in Int, NEW r \in 0..(m - 1)
  PROVE  (m * q + r) % m = r
OBVIOUS

\* Multiplication distributes.
LEMMA Distributes ==
  ASSUME NEW a \in Int, NEW b \in Int, NEW c \in Int PROVE a * (b + c) = a * b + a * c
OBVIOUS

\* A multiple of m does not change the remainder.
LEMMA RemainderOfMultiple ==
  ASSUME NEW m \in Nat \ {0}, NEW q \in Int, NEW r \in Int
  PROVE  (m * q + r) % m = r % m
<1> DEFINE d == r \div m
           e == r % m
<1>1. d \in Int /\ e \in 0..(m - 1) /\ r = m * d + e
  BY DivisionInInt
<1> HIDE DEF d, e
<1>2. m * q \in Int /\ m * d \in Int /\ e \in Int /\ q + d \in Int
  BY <1>1
<1>3. m * (q + d) = m * q + m * d
  BY <1>1, Distributes
<1>4. m * q + r = m * (q + d) + e
  BY <1>1, <1>2, <1>3
<1>5. (m * q + r) % m = e
  BY <1>1, <1>2, <1>4, RemainderUnique
<1> QED
  BY <1>5 DEF e

\* A counter that wraps at every step holds the remainder of the whole sum.
LEMMA RemainderOfSum ==
  ASSUME NEW m \in Nat \ {0}, NEW x \in Int, NEW c \in Int
  PROVE  ((x % m) + c) % m = (x + c) % m
<1> DEFINE d == x \div m
           e == x % m
<1>1. d \in Int /\ e \in 0..(m - 1) /\ x = m * d + e
  BY DivisionInInt
<1> HIDE DEF d, e
<1>2. e + c \in Int /\ m * d \in Int /\ m * d + (e + c) = x + c
  BY <1>1
<1>3. (m * d + (e + c)) % m = (e + c) % m
  BY <1>1, <1>2, RemainderOfMultiple
<1> QED
  BY <1>2, <1>3 DEF e

-----------------------------------------------------------------------------
(* What memory_usage_ counts.                                              *)

\* The charge for a node of one level.
Charge(node) == Len(node.key) + Len(node.value) + NodeSize + PointerSize

\* sum[i] is the charge for the first i nodes of the list.
Sums(ns, L, sum) ==
  /\ sum \in [0..Len(L) -> Int]
  /\ sum[0] = 0
  /\ \A i \in 1..Len(L) : sum[i] = sum[i - 1] + Charge(ns[L[i]])

\* memory is the charge for the nodes of the list.
Charged(ns, L, memory) ==
  \E sum : Sums(ns, L, sum) /\ memory = sum[Len(L)] % SizeModulus

\* Charges are numbers.
LEMMA ChargeType ==
  ASSUME NEW ns, NodesOK(ns)
  PROVE  \A n \in 2..Len(ns) :
           /\ Charge(ns[n]) \in Int /\ Len(ns[n].key) \in Nat /\ Len(ns[n].value) \in Nat
           /\ Cardinality(DOMAIN ns[n].forward) = 1
<1> SUFFICES ASSUME NEW n \in 2..Len(ns)
             PROVE  /\ Charge(ns[n]) \in Int
                    /\ Len(ns[n].key) \in Nat /\ Len(ns[n].value) \in Nat
                    /\ Cardinality(DOMAIN ns[n].forward) = 1
  OBVIOUS
<1>1. ns[n] \in NodeRecord
  BY DEF NodesOK
<1>2. ns[n].key \in Seq(Nat) /\ ns[n].value \in Seq(Nat)
  BY <1>1, TableAssumption DEF NodeRecord
<1>3. Len(ns[n].key) \in Nat /\ Len(ns[n].value) \in Nat
  BY <1>2
<1>4. Charge(ns[n]) \in Int
  BY <1>3, TableAssumption DEF Charge
<1>5. DOMAIN ns[n].forward = {0}
  BY <1>1 DEF NodeRecord
<1> QED
  BY <1>3, <1>4, <1>5, FS_Singleton

\* The charge after a node of the list is written again.
LEMMA RewrittenCharged ==
  ASSUME NEW ns, NodesOK(ns), NEW n \in 2..Len(ns),
         NEW value \in Value, NEW seq \in Sequence, NEW deleted \in BOOLEAN,
         deleted => value = Empty,
         NEW ns2, ns2 = Rewritten(ns, n, value, seq, deleted),
         NEW L, Listed(ns, L), NEW memory, Charged(ns, L, memory)
  PROVE  Charged(ns2, L, (memory + Len(value) - Len(ns[n].value)) % SizeModulus)
<1>1. PICK sum : Sums(ns, L, sum) /\ memory = sum[Len(L)] % SizeModulus
  BY DEF Charged
<1>2. /\ Len(L) \in Nat /\ \A i \in 1..Len(L) : L[i] \in 2..Len(ns)
      /\ \A i, j \in 1..Len(L) : ns[L[i]].key = ns[L[j]].key => i = j
  BY ListedNodes
<1>3. PICK q \in 1..Len(L) : L[q] = n
  BY DEF Listed
<1>4. Len(value) \in Nat /\ Len(ns[n].value) \in Nat /\ SizeModulus \in Nat \ {0}
  <2>1. value \in Seq(Nat)
    BY TableAssumption
  <2> QED
    BY <2>1, ChargeType, TableAssumption
<1> DEFINE delta == Len(value) - Len(ns[n].value)
           sum2 == [i \in 0..Len(L) |-> IF i < q THEN sum[i] ELSE sum[i] + delta]
<1>5. delta \in Int
  BY <1>4
<1>6. Charge(ns2[n]) = Charge(ns[n]) + delta /\ \A i \in 1..Len(L) : i # q => ns2[L[i]] = ns[L[i]]
  <2>1. /\ ns2[n].key = ns[n].key /\ ns2[n].value = value
        /\ \A m \in 1..Len(ns) : m # n => ns2[m] = ns[m]
    <3>1. n \in 1..Len(ns)
      BY NodeTypes
    <3> QED
      BY <3>1, RewrittenNodes
  <2>2. Len(ns[n].key) \in Nat /\ NodeSize \in Nat /\ PointerSize \in Nat
    BY ChargeType, TableAssumption
  <2>3. Charge(ns2[n]) = Charge(ns[n]) + delta
    <3> DEFINE k == Len(ns[n].key)
               v == Len(ns[n].value)
               w == Len(value)
    <3>1. Charge(ns2[n]) = k + w + NodeSize + PointerSize
      BY <2>1 DEF Charge
    <3>2. Charge(ns[n]) = k + v + NodeSize + PointerSize
      BY DEF Charge
    <3>3. k \in Nat /\ v \in Nat /\ w \in Nat /\ delta = w - v
      BY <1>4, <2>2
    <3> HIDE DEF k, v, w, delta
    <3> QED
      BY <2>2, <3>1, <3>2, <3>3
  <2>4. ASSUME NEW i \in 1..Len(L), i # q PROVE ns2[L[i]] = ns[L[i]]
    <3>1. L[i] # n
      BY <1>2, <1>3, <2>4
    <3>2. L[i] \in 1..Len(ns)
      BY <1>2, NodeTypes
    <3> QED
      BY <2>1, <3>1, <3>2
  <2> QED
    BY <2>3, <2>4
<1> HIDE DEF delta
<1>7. /\ sum \in [0..Len(L) -> Int] /\ sum[0] = 0
      /\ \A i \in 1..Len(L) : sum[i] = sum[i - 1] + Charge(ns[L[i]])
  BY <1>1 DEF Sums
<1>8. sum2 \in [0..Len(L) -> Int] /\ sum2[0] = 0
  BY <1>2, <1>3, <1>5, <1>7
<1>9. ASSUME NEW i \in 1..Len(L) PROVE sum2[i] = sum2[i - 1] + Charge(ns2[L[i]])
  <2>1. /\ i \in 0..Len(L) /\ i - 1 \in 0..Len(L) /\ sum[i] \in Int /\ sum[i - 1] \in Int
        /\ Charge(ns[L[i]]) \in Int
    <3>1. i \in 0..Len(L) /\ i - 1 \in 0..Len(L)
      BY <1>2
    <3>2. L[i] \in 2..Len(ns)
      BY <1>2
    <3> QED
      BY <1>7, <3>1, <3>2, ChargeType
  <2>2. sum[i] = sum[i - 1] + Charge(ns[L[i]])
    BY <1>7
  <2>3. sum2[i] = (IF i < q THEN sum[i] ELSE sum[i] + delta)
        /\ sum2[i - 1] = (IF i - 1 < q THEN sum[i - 1] ELSE sum[i - 1] + delta)
    BY <2>1
  <2> HIDE DEF sum2
  <2>4. CASE i < q
    <3>1. i - 1 < q /\ ns2[L[i]] = ns[L[i]]
      BY <1>2, <1>3, <1>6, <2>4
    <3> QED
      BY <2>2, <2>3, <2>4, <3>1
  <2>5. CASE i = q
    <3>1. i - 1 < q /\ ~(i < q)
      BY <1>2, <1>3, <2>5
    <3>2. Charge(ns2[L[i]]) = Charge(ns[L[i]]) + delta
      BY <1>3, <1>6, <2>5
    <3> QED
      BY <1>5, <2>1, <2>2, <2>3, <3>1, <3>2
  <2>6. CASE q < i
    <3>1. ~(i - 1 < q) /\ ~(i < q) /\ ns2[L[i]] = ns[L[i]]
      BY <1>2, <1>3, <1>6, <2>6
    <3> QED
      BY <1>5, <2>1, <2>2, <2>3, <3>1
  <2> QED
    BY <1>2, <1>3, <2>4, <2>5, <2>6
<1>10. sum2[Len(L)] = sum[Len(L)] + delta /\ sum[Len(L)] \in Int
  <2>1. Len(L) \in 0..Len(L) /\ ~(Len(L) < q)
    BY <1>2, <1>3
  <2> QED
    BY <1>7, <2>1
<1> HIDE DEF sum2
<1>11. Sums(ns2, L, sum2)
  BY <1>8, <1>9 DEF Sums
<1>12. (memory + delta) % SizeModulus = sum2[Len(L)] % SizeModulus
  BY <1>1, <1>4, <1>5, <1>10, RemainderOfSum
<1>13. memory + Len(value) - Len(ns[n].value) = memory + delta
  <2>1. memory \in Int
    BY <1>1, <1>4, <1>10, DivisionInInt
  <2> QED
    BY <1>4, <2>1 DEF delta
<1> QED
  BY <1>11, <1>12, <1>13 DEF Charged

\* The charge after a node is linked in.
LEMMA LinkedCharged ==
  ASSUME NEW ns, NodesOK(ns), NEW L, Listed(ns, L), NEW p \in 0..Len(L), NEW node, NEW ns2,
         LinkedAt(ns, ns2, L, p, node), NEW memory, Charged(ns, L, memory)
  PROVE  Charged(ns2, With(L, p, Len(ns) + 1), (memory + Charge(node)) % SizeModulus)
<1> DEFINE new == Len(ns) + 1
           M == With(L, p, new)
           c == Charge(node)
<1>1. PICK sum : Sums(ns, L, sum) /\ memory = sum[Len(L)] % SizeModulus
  BY DEF Charged
<1>2. /\ Len(ns) \in Nat \ {0} /\ Len(L) \in Nat /\ \A i \in 1..Len(L) : L[i] \in 2..Len(ns)
  BY NodeTypes, ListedNodes
<1>3. /\ Len(M) = Len(L) + 1
      /\ \A i \in 1..(Len(L) + 1) :
           M[i] = IF i <= p THEN L[i] ELSE IF i = p + 1 THEN new ELSE L[i - 1]
  BY <1>2 DEF With
<1> HIDE DEF M
<1>4. c \in Int /\ ns2[new] = node
  <2>1. node \in NodeRecord /\ ns2[new] = node
    BY DEF LinkedAt
  <2>2. Len(node.key) \in Nat /\ Len(node.value) \in Nat
    <3>1. node.key \in Seq(Nat) /\ node.value \in Seq(Nat)
      BY <2>1, TableAssumption DEF NodeRecord
    <3> QED
      BY <3>1
  <2> QED
    BY <2>1, <2>2, TableAssumption DEF Charge
<1>5. \A n \in 2..Len(ns) : Charge(ns2[n]) = Charge(ns[n])
  <2>1. \A n \in 1..Len(ns) : ns2[n].key = ns[n].key /\ ns2[n].value = ns[n].value
    BY LinkedNodes
  <2>2. ASSUME NEW n \in 2..Len(ns) PROVE Charge(ns2[n]) = Charge(ns[n])
    <3>1. n \in 1..Len(ns)
      BY <1>2
    <3> QED
      BY <2>1, <3>1 DEF Charge
  <2> QED
    BY <2>2
<1> HIDE DEF c, new
<1>6. /\ sum \in [0..Len(L) -> Int] /\ sum[0] = 0
      /\ \A i \in 1..Len(L) : sum[i] = sum[i - 1] + Charge(ns[L[i]])
  BY <1>1 DEF Sums
<1> DEFINE sum2 == [i \in 0..Len(M) |-> IF i <= p THEN sum[i] ELSE sum[i - 1] + c]
<1>7. sum2 \in [0..Len(M) -> Int] /\ sum2[0] = 0
  <2>1. ASSUME NEW i \in 0..Len(M)
        PROVE  (IF i <= p THEN sum[i] ELSE sum[i - 1] + c) \in Int
    <3>1. CASE i <= p
      <4>1. i \in 0..Len(L)
        BY <1>2, <1>3, <3>1
      <4> QED
        BY <1>6, <3>1, <4>1
    <3>2. CASE ~(i <= p)
      <4>1. i - 1 \in 0..Len(L)
        BY <1>2, <1>3, <3>2
      <4>2. sum[i - 1] \in Int
        BY <1>6, <4>1
      <4> QED
        BY <1>4, <3>2, <4>2
    <3> QED
      BY <3>1, <3>2
  <2>2. 0 \in 0..Len(M) /\ 0 <= p
    BY <1>2, <1>3
  <2> QED
    BY <1>6, <2>1, <2>2
<1>8. ASSUME NEW i \in 1..Len(M) PROVE sum2[i] = sum2[i - 1] + Charge(ns2[M[i]])
  <2>1. i \in 0..Len(M) /\ i - 1 \in 0..Len(M) /\ i \in 1..(Len(L) + 1)
    BY <1>2, <1>3
  <2>2. sum2[i] = (IF i <= p THEN sum[i] ELSE sum[i - 1] + c)
        /\ sum2[i - 1] = (IF i - 1 <= p THEN sum[i - 1] ELSE sum[i - 1 - 1] + c)
    BY <2>1
  <2> HIDE DEF sum2
  <2>3. CASE i <= p
    <3>1. i - 1 <= p /\ i \in 1..Len(L)
      BY <1>2, <2>1, <2>3
    <3>2. M[i] = L[i] /\ L[i] \in 2..Len(ns)
      BY <1>2, <1>3, <2>1, <2>3, <3>1
    <3>3. Charge(ns2[M[i]]) = Charge(ns[L[i]])
      BY <1>5, <3>2
    <3> QED
      BY <1>6, <2>2, <2>3, <3>1, <3>3
  <2>4. CASE i = p + 1
    <3>1. i - 1 <= p /\ ~(i <= p)
      BY <2>1, <2>4
    <3>2. Charge(ns2[M[i]]) = c
      BY <1>3, <1>4, <2>1, <2>4, <3>1 DEF c
    <3> QED
      BY <2>2, <3>1, <3>2
  <2>5. CASE p + 1 < i
    <3>1. ~(i - 1 <= p) /\ ~(i <= p) /\ i # p + 1 /\ i - 1 \in 1..Len(L) /\ i - 1 - 1 \in 0..Len(L)
      BY <1>2, <2>1, <2>5
    <3>2. M[i] = L[i - 1] /\ L[i - 1] \in 2..Len(ns)
      BY <1>2, <1>3, <2>1, <3>1
    <3>3. Charge(ns2[M[i]]) = Charge(ns[L[i - 1]]) /\ Charge(ns[L[i - 1]]) \in Int
      BY <1>5, <3>2, ChargeType
    <3>4. sum[i - 1] = sum[i - 1 - 1] + Charge(ns[L[i - 1]]) /\ sum[i - 1 - 1] \in Int
      BY <1>6, <3>1
    <3> QED
      BY <1>4, <2>2, <3>1, <3>3, <3>4
  <2> QED
    BY <2>1, <2>3, <2>4, <2>5
<1>9. sum2[Len(M)] = sum[Len(L)] + c /\ sum[Len(L)] \in Int
  <2>1. Len(M) \in 0..Len(M) /\ ~(Len(M) <= p) /\ Len(M) - 1 = Len(L) /\ Len(L) \in 0..Len(L)
    BY <1>2, <1>3
  <2> QED
    BY <1>6, <2>1
<1> HIDE DEF sum2
<1>10. Sums(ns2, M, sum2)
  BY <1>7, <1>8 DEF Sums
<1>11. (memory + c) % SizeModulus = sum2[Len(M)] % SizeModulus
  BY <1>1, <1>4, <1>9, RemainderOfSum, TableAssumption
<1> QED
  BY <1>10, <1>11 DEF Charged, c, M, new

\* The charges of the nodes of list, folded as CountersExact states it.
Memory(list) ==
  LET Charges(sum, n) == sum + Len(nodes[n].key) + Len(nodes[n].value)
                           + NodeSize + Cardinality(DOMAIN nodes[n].forward) * PointerSize
  IN  FoldLeft(Charges, 0, list)

AddCharge(sum, n) ==
  sum + Len(nodes[n].key) + Len(nodes[n].value)
    + NodeSize + Cardinality(DOMAIN nodes[n].forward) * PointerSize

\* The fold charges what linking the node charged.
LEMMA AddChargeAdds ==
  ASSUME NodesOK(nodes)
  PROVE  /\ 0 \in Int
         /\ \A sum \in Int, n \in 2..Len(nodes) :
              /\ AddCharge(sum, n) \in Int
              /\ AddCharge(sum, n) = sum + Charge(nodes[n])
<1> SUFFICES ASSUME NEW sum \in Int, NEW n \in 2..Len(nodes)
             PROVE  /\ AddCharge(sum, n) \in Int
                    /\ AddCharge(sum, n) = sum + Charge(nodes[n])
  OBVIOUS
<1>1. /\ Len(nodes[n].key) \in Nat /\ Len(nodes[n].value) \in Nat
      /\ Cardinality(DOMAIN nodes[n].forward) = 1
  BY ChargeType
<1>2. NodeSize \in Nat /\ PointerSize \in Nat
  BY TableAssumption
<1>3. Cardinality(DOMAIN nodes[n].forward) * PointerSize = PointerSize
  BY <1>1, <1>2
<1>4. AddCharge(sum, n) = sum + Len(nodes[n].key) + Len(nodes[n].value) + NodeSize + PointerSize
  BY <1>3 DEF AddCharge
<1> DEFINE k == Len(nodes[n].key)
           v == Len(nodes[n].value)
<1>5. k \in Nat /\ v \in Nat /\ AddCharge(sum, n) = sum + k + v + NodeSize + PointerSize
      /\ Charge(nodes[n]) = k + v + NodeSize + PointerSize
  BY <1>1, <1>4 DEF Charge
<1> HIDE DEF k, v
<1> QED
  BY <1>2, <1>5

\* One node more is charged.
ChargeStep(s) ==
  [p \in Int \X (Nat \ {0}) |-> IF p[2] \in DOMAIN s THEN AddCharge(p[1], s[p[2]]) ELSE p[1]]

\* The charges add up node by node.
LEMMA ChargeAccumulates ==
  ASSUME NodesOK(nodes), NEW s \in Seq(2..Len(nodes))
  PROVE  /\ ChargeStep(s) \in [Int \X (Nat \ {0}) -> Int]
         /\ \A t \in Int, m \in 1..Len(s) : ChargeStep(s)[<<t, m>>] = AddCharge(t, s[m])
         /\ \E acc : Accumulates(acc, 0, ChargeStep(s), Len(s)) /\ Memory(s) = acc[Len(s)]
<1> DEFINE step == ChargeStep(s)
           Body(iter) == [u \in SUBSET (DOMAIN s) |->
                            IF u = {} THEN 0
                            ELSE AddCharge(iter[u \ {Max(u)}], s[Max(u)])]
           It == CHOOSE iter : iter = Body(iter)
<1>1. Memory(s) = It[DOMAIN s]
  BY DEF Memory, FoldLeft, MapThenFoldSet, AddCharge
<1>2. /\ Len(s) \in Nat /\ DOMAIN s = 1..Len(s)
      /\ \A i \in DOMAIN s : s[i] \in 2..Len(nodes)
  BY LenProperties, ElementOfSeq
<1>3. 0 \in Int /\ \A t \in Int, x \in 2..Len(nodes) : AddCharge(t, x) \in Int
  BY AddChargeAdds
<1>4. step \in [Int \X (Nat \ {0}) -> Int]
  <2>1. ASSUME NEW p \in Int \X (Nat \ {0})
        PROVE  (IF p[2] \in DOMAIN s THEN AddCharge(p[1], s[p[2]]) ELSE p[1]) \in Int
    <3>1. p[1] \in Int
      OBVIOUS
    <3> QED
      BY <1>2, <1>3, <3>1
  <2> QED
    BY <2>1, Zenon DEF ChargeStep
<1>5. ASSUME NEW t \in Int, NEW m \in 1..Len(s) PROVE step[<<t, m>>] = AddCharge(t, s[m])
  <2>1. <<t, m>> \in Int \X (Nat \ {0}) /\ m \in DOMAIN s
    BY <1>2
  <2> QED
    BY <2>1 DEF ChargeStep
<1> HIDE DEF step
<1>6. ASSUME NEW u \in SUBSET (1..Len(s)), u # {}, NEW f, f[u \ {Max(u)}] \in Int
      PROVE  step[<<f[u \ {Max(u)}], Max(u)>>] = Body(f)[u]
  <2>1. Max(u) \in 1..Len(s)
    BY <1>2, <1>6, MaxOfPositions
  <2>2. u \in SUBSET (DOMAIN s)
    BY <1>2
  <2> QED
    BY <1>5, <1>6, <2>1, <2>2
<1>7. ASSUME NEW f, f = Body(f) PROVE FoldsFrom(Int, f, 0, step, Len(s))
  <2>1. ASSUME NEW u \in SUBSET (1..Len(s)), u # {}, f[u \ {Max(u)}] \in Int
        PROVE  f[u] = step[<<f[u \ {Max(u)}], Max(u)>>]
    <3>1. f[u] = Body(f)[u]
      BY <1>7
    <3> HIDE DEF Body
    <3> QED
      BY <1>6, <2>1, <3>1
  <2>2. f[{}] = 0
    BY <1>2, <1>7
  <2> HIDE DEF Body
  <2> QED
    BY <2>1, <2>2 DEF FoldsFrom
<1>8. PICK it \in [SUBSET (1..Len(s)) -> Int] : Folds(it, 0, step, Len(s))
  BY <1>2, <1>3, <1>4, FoldsExist
<1>9. it = Body(it)
  <2>1. ASSUME NEW u \in SUBSET (1..Len(s)) PROVE it[u] = Body(it)[u]
    <3>1. CASE u = {}
      <4>1. it[u] = 0
        BY <1>8, <3>1 DEF Folds
      <4> QED
        BY <1>2, <3>1, <4>1
    <3>2. CASE u # {}
      <4>1. it[u \ {Max(u)}] \in Int
        OBVIOUS
      <4>2. it[u] = step[<<it[u \ {Max(u)}], Max(u)>>]
        BY <1>8, <3>2 DEF Folds
      <4> HIDE DEF Body
      <4> QED
        BY <1>6, <3>2, <4>1, <4>2
    <3> QED
      BY <3>1, <3>2
  <2>2. Body(it) = [u \in SUBSET (1..Len(s)) |-> Body(it)[u]]
    BY <1>2
  <2> HIDE DEF Body
  <2> QED
    BY <2>1, <2>2
<1> HIDE DEF Body
<1>10. It = Body(It)
  BY <1>9
<1> HIDE DEF It
<1>11. FoldsFrom(Int, It, 0, step, Len(s))
  BY <1>7, <1>10
<1> DEFINE acc == [m \in 0..Len(s) |-> It[1..m]]
<1>12. Memory(s) = acc[Len(s)]
  BY <1>1, <1>2
<1>13. acc = [m \in 0..Len(s) |-> It[1..m]] /\ Len(s) \in Nat
  BY <1>2
<1> HIDE DEF acc
<1>14. Accumulates(acc, 0, step, Len(s))
  BY <1>3, <1>4, <1>11, <1>13, FoldsAccumulate
<1>15. Accumulates(acc, 0, ChargeStep(s), Len(s))
  BY <1>14 DEF step
<1> QED
  BY <1>4, <1>5, <1>12, <1>15 DEF step

\* memory_usage_ is the fold over the list.
LEMMA MemoryOfList ==
  ASSUME NodesOK(nodes), NEW L, Listed(nodes, L), NEW memory, Charged(nodes, L, memory)
  PROVE  memory = Memory(L) % SizeModulus
<1> DEFINE step == ChargeStep(L)
<1>1. PICK sum : Sums(nodes, L, sum) /\ memory = sum[Len(L)] % SizeModulus
  BY DEF Charged
<1>2. /\ L \in Seq(2..Len(nodes)) /\ Len(L) \in Nat /\ \A i \in 1..Len(L) : L[i] \in 2..Len(nodes)
  BY ListedNodes DEF Listed
<1>3. /\ step \in [Int \X (Nat \ {0}) -> Int]
      /\ \A t \in Int, m \in 1..Len(L) : step[<<t, m>>] = AddCharge(t, L[m])
  BY <1>2, ChargeAccumulates
<1>4. PICK acc : Accumulates(acc, 0, step, Len(L)) /\ Memory(L) = acc[Len(L)]
  BY <1>2, ChargeAccumulates
<1>5. Accumulates(sum, 0, step, Len(L))
  <2>1. sum \in [0..Len(L) -> Int] /\ sum[0] = 0
    BY <1>1 DEF Sums
  <2>2. ASSUME NEW m \in 1..Len(L) PROVE sum[m] = step[<<sum[m - 1], m>>]
    <3>1. m - 1 \in 0..Len(L) /\ sum[m - 1] \in Int /\ L[m] \in 2..Len(nodes)
      BY <1>2, <2>1, SMTT(40)
    <3>2. sum[m] = sum[m - 1] + Charge(nodes[L[m]])
      BY <1>1 DEF Sums
    <3>3. step[<<sum[m - 1], m>>] = AddCharge(sum[m - 1], L[m])
      BY <1>3, <3>1
    <3>4. AddCharge(sum[m - 1], L[m]) = sum[m - 1] + Charge(nodes[L[m]])
      BY <3>1, AddChargeAdds
    <3> QED
      BY <3>2, <3>3, <3>4
  <2> QED
    BY <2>1, <2>2 DEF Accumulates
<1>6. SameSteps(Int, step, step, Len(L))
  BY DEF SameSteps
<1> HIDE DEF step
<1>7. \A m \in 0..Len(L) : acc[m] = sum[m]
  <2>1. 0 \in Int /\ Len(L) \in Nat /\ step \in [Int \X (Nat \ {0}) -> Int]
    BY <1>2, <1>3
  <2>2. \A m \in 0..Len(L) : acc[m] = sum[m] /\ acc[m] \in Int
    BY <1>4, <1>5, <1>6, <2>1, AccumulationUnique
  <2> QED
    BY <2>2
<1>8. acc[Len(L)] = sum[Len(L)]
  BY <1>2, <1>7
<1> QED
  BY <1>1, <1>4, <1>8

-----------------------------------------------------------------------------
(* What Put and Delete do.                                                 *)

\* The entries that are no tombstones.
Live(ns) == {n \in 2..Len(ns) : ~ns[n].deleted}

\* The inductive invariant of the table.
TableInv ==
  /\ NodesOK(nodes)
  /\ currentMaxLevel = 1
  /\ \E L : Listed(nodes, L) /\ Charged(nodes, L, memoryUsage)
  /\ size = (Cardinality(Live(nodes)) - revived) % SizeModulus
  /\ revived \in 0..(SizeModulus - 1)
  /\ maxSequence \in Sequence \cup {0}

\* The node of a key that is there is written again.
Rewrites(key, value, seq, deleted) ==
  \E n \in 2..Len(nodes) :
    /\ nodes[n].key = key
    /\ nodes' = Rewritten(nodes, n, value, seq, deleted)
    /\ memoryUsage' = (memoryUsage + Len(value) - Len(nodes[n].value)) % SizeModulus
    /\ size' = IF deleted /\ ~nodes[n].deleted THEN (size - 1) % SizeModulus ELSE size
    /\ revived' = IF ~deleted /\ nodes[n].deleted THEN (revived + 1) % SizeModulus ELSE revived

OneLevel(key, value, seq, deleted, next) ==
  [key |-> key, value |-> value, seq |-> seq, deleted |-> deleted,
   forward |-> [i \in 0..0 |-> next]]

\* A node of one level is linked in for a key that is not there.
Links(key, value, seq, deleted) ==
  \E L, p :
    /\ Listed(nodes, L) /\ Charged(nodes, L, memoryUsage) /\ Split(nodes, L, p, key)
    /\ \A i \in 1..Len(L) : nodes[L[i]].key # key
    /\ LinkedAt(nodes, nodes', L, p, OneLevel(key, value, seq, deleted, At(L, p + 1)))
    /\ memoryUsage' = (memoryUsage + Len(key) + Len(value) + NodeSize + PointerSize) % SizeModulus
    /\ size' = IF deleted THEN size ELSE (size + 1) % SizeModulus
    /\ revived' = revived

\* A taller node ends the process.
Kills ==
  /\ killed' = TRUE
  /\ UNCHANGED <<nodes, currentMaxLevel, size, memoryUsage, maxSequence, revived>>

\* What writing an entry does to the table.
Writes(key, value, seq, deleted) ==
  \/ Kills
  \/ /\ UNCHANGED <<killed, currentMaxLevel>>
     /\ maxSequence' = Larger(maxSequence, seq)
     /\ Rewrites(key, value, seq, deleted) \/ Links(key, value, seq, deleted)

\* InsertNode links a node of one level, and ends the process at a taller one.
LEMMA InsertLinksOrKills ==
  ASSUME NodesOK(nodes), currentMaxLevel = 1, NEW L, Listed(nodes, L), NEW p \in 0..Len(L),
         NEW key \in Key, NEW value \in Value, NEW seq \in Sequence, NEW deleted \in BOOLEAN,
         deleted => value = Empty, NEW level \in 1..MaxLevel,
         InsertNode(NewNode(key, value, level, seq, deleted), StoppedAt(At(L, p)).prev)
  PROVE  \/ killed' = TRUE /\ UNCHANGED <<nodes, currentMaxLevel>>
         \/ /\ level = 1
            /\ UNCHANGED <<killed, currentMaxLevel>>
            /\ LinkedAt(nodes, nodes', L, p, OneLevel(key, value, seq, deleted, At(L, p + 1)))
<1> DEFINE node == NewNode(key, value, level, seq, deleted)
           prev == StoppedAt(At(L, p)).prev
           levels == DOMAIN node.forward
           new == Len(nodes) + 1
           linked == [node EXCEPT !.forward = [i \in levels |-> nodes[prev[i]].forward[i]]]
           others == [n \in DOMAIN nodes |->
                       [nodes[n] EXCEPT !.forward = [i \in DOMAIN @ |->
                          IF i \in levels /\ prev[i] = n THEN new ELSE @[i]]]]
<1>1. /\ Len(nodes) \in Nat \ {0} /\ DOMAIN nodes = 1..Len(nodes) /\ Len(L) \in Nat
      /\ At(L, p) \in 1..Len(nodes)
  BY NodeTypes, ListedNodes
<1>2. levels = 0..(level - 1)
  BY DEF NewNode
<1>3. prev = [i \in 0..MaxLevel |-> IF i = 0 THEN At(L, p) ELSE Null]
  BY DEF StoppedAt
<1>4. CASE level # 1
  <2>1. 1 \in levels /\ prev[1] = Null
    <3>1. MaxLevel \in Nat /\ level \in Nat /\ level >= 2
      BY <1>4, TableAssumption
    <3>2. 1 \in 0..MaxLevel /\ 1 \in 0..(level - 1)
      BY <3>1
    <3> QED
      BY <1>2, <1>3, <3>2
  <2>2. \E i \in levels : prev[i] = Null
    BY <2>1
  <2>3. killed' = TRUE /\ UNCHANGED <<nodes, currentMaxLevel>>
    BY <2>2 DEF InsertNode
  <2> QED
    BY <2>3
<1>5. CASE level = 1
  <2>1. levels = {0} /\ prev[0] = At(L, p) /\ At(L, p) # Null
    BY <1>1, <1>2, <1>3, <1>5, TableAssumption DEF Null
  <2>2. ~ \E i \in levels : prev[i] = Null
    BY <2>1
  <2>3. /\ nodes' = Append(others, linked)
        /\ currentMaxLevel' = Larger(currentMaxLevel, Cardinality(levels))
        /\ UNCHANGED killed
    BY <2>2 DEF InsertNode
  <2>4. currentMaxLevel' = currentMaxLevel
    BY <2>1, <2>3, FS_Singleton DEF Larger
  <2> DEFINE one == OneLevel(key, value, seq, deleted, At(L, p + 1))
  <2>5. linked = one /\ one \in NodeRecord
    <3>1. nodes[At(L, p)].forward[0] = At(L, p + 1)
      BY DEF Listed
    <3>2. [i \in levels |-> nodes[prev[i]].forward[i]] = [i \in 0..0 |-> At(L, p + 1)]
      BY <2>1, <3>1
    <3>3. At(L, p + 1) \in Nat
      <4>1. p + 1 \in 0..Len(L) \/ p + 1 = Len(L) + 1
        BY <1>1
      <4>2. At(L, Len(L) + 1) = Null
        BY <1>1 DEF At
      <4> QED
        BY <4>1, <4>2, ListedNodes DEF Null
    <3> HIDE DEF levels, prev
    <3>4. linked = one
      BY <3>2 DEF NewNode, OneLevel
    <3>5. one \in NodeRecord
      BY <3>3 DEF NodeRecord, OneLevel
    <3> QED
      BY <3>4, <3>5
  <2>6. ASSUME NEW n \in 1..Len(nodes)
        PROVE  /\ others[n] = [nodes[n] EXCEPT !.forward =
                    [i \in DOMAIN @ |-> IF i = 0 /\ n = At(L, p) THEN Len(nodes) + 1 ELSE @[i]]]
               /\ others[n] \in HeadRecord \cup NodeRecord
    <3> DEFINE links == [i \in DOMAIN nodes[n].forward |->
                          IF i = 0 /\ n = At(L, p) THEN Len(nodes) + 1 ELSE nodes[n].forward[i]]
    <3>1. \A i : (i \in levels /\ prev[i] = n) <=> (i = 0 /\ n = At(L, p))
      BY <2>1
    <3>2. others[n] = [nodes[n] EXCEPT !.forward = links]
      BY <1>1, <3>1
    <3>3. CASE nodes[n] \in NodeRecord
      <4>1. links \in [0..0 -> Nat]
        BY <1>1, <3>3 DEF NodeRecord
      <4> HIDE DEF links, others
      <4>2. others[n] \in NodeRecord
        BY <3>2, <3>3, <4>1 DEF NodeRecord
      <4> QED
        BY <3>2, <4>2 DEF links
    <3>4. CASE nodes[n] \in HeadRecord
      <4>1. links \in [0..MaxLevel -> Nat]
        <5>1. nodes[n].forward \in [0..MaxLevel -> Nat]
          BY <3>4 DEF HeadRecord
        <5>2. DOMAIN links = 0..MaxLevel
          BY <5>1
        <5>3. ASSUME NEW i \in 0..MaxLevel PROVE links[i] \in Nat
          <6>1. nodes[n].forward[i] \in Nat
            BY <5>1, <5>3, Zenon
          <6>2. Len(nodes) + 1 \in Nat
            BY <1>1
          <6> QED
            BY <5>2, <6>1, <6>2
        <5>4. links = [i \in 0..MaxLevel |-> links[i]]
          BY <5>1
        <5> HIDE DEF links
        <5> QED
          BY <5>3, <5>4
      <4> HIDE DEF links, others
      <4>2. others[n] \in HeadRecord
        BY <3>2, <3>4, <4>1 DEF HeadRecord
      <4> QED
        BY <3>2, <4>2 DEF links
    <3>5. nodes[n] \in HeadRecord \cup NodeRecord
      BY DEF NodesOK
    <3> QED
      BY <3>3, <3>4, <3>5
  <2>7. others \in Seq(HeadRecord \cup NodeRecord) /\ Len(others) = Len(nodes)
    <3>1. DOMAIN others = 1..Len(nodes) /\ others = [n \in 1..Len(nodes) |-> others[n]]
      BY <1>1
    <3> HIDE DEF others
    <3>2. others \in [1..Len(nodes) -> HeadRecord \cup NodeRecord]
      BY <2>6, <3>1
    <3> QED
      BY <1>1, <3>2
  <2> HIDE DEF others, linked, one
  <2>8. /\ nodes' \in Seq(HeadRecord \cup NodeRecord) /\ Len(nodes') = Len(nodes) + 1
        /\ nodes'[Len(nodes) + 1] = one
        /\ \A n \in 1..Len(nodes) : nodes'[n] = others[n]
    <3>1. linked \in HeadRecord \cup NodeRecord
      BY <2>5
    <3> QED
      BY <2>3, <2>5, <2>7, <3>1, AppendProperties
  <2>9. one.forward[0] = At(L, p + 1) /\ (one.deleted => one.value = Empty)
    BY DEF one, OneLevel
  <2>10. LinkedAt(nodes, nodes', L, p, one)
    BY <2>5, <2>6, <2>8, <2>9 DEF LinkedAt
  <2> QED
    BY <1>5, <2>3, <2>4, <2>10 DEF one
<1> QED
  BY <1>4, <1>5

\* A search that finds the key, and one that does not.
LEMMA KeyFoundOrNew ==
  ASSUME NodesOK(nodes), currentMaxLevel = 1, NEW L, Listed(nodes, L), NEW key \in String
  PROVE  \E p \in 0..Len(L) :
           /\ FindGreaterOrEqual(key) = StoppedAt(At(L, p))
           /\ FindGreaterOrEqual(key).next = At(L, p + 1)
           /\ Split(nodes, L, p, key)
           /\ Holds(At(L, p + 1), key) => At(L, p + 1) \in 2..Len(nodes)
           /\ ~Holds(At(L, p + 1), key) => \A i \in 1..Len(L) : nodes[L[i]].key # key
<1>1. PICK p \in 0..Len(L) : Split(nodes, L, p, key)
  BY KeySplits
<1>2. FindGreaterOrEqual(key) = StoppedAt(At(L, p))
  BY <1>1, SearchFindsPlace
<1>3. FindGreaterOrEqual(key).next = At(L, p + 1)
  <2>1. nodes[At(L, p)].forward[0] = At(L, p + 1)
    BY DEF Listed
  <2> QED
    BY <1>2, <2>1 DEF StoppedAt
<1>4. /\ Len(L) \in Nat
      /\ \A i \in 1..Len(L) : L[i] \in 2..Len(nodes) /\ nodes[L[i]].key \in String
  BY ListedNodes
<1>5. At(L, p + 1) # Null => p + 1 \in 1..Len(L) /\ At(L, p + 1) = L[p + 1]
  BY <1>4 DEF At
<1>6. Holds(At(L, p + 1), key) => At(L, p + 1) \in 2..Len(nodes)
  BY <1>4, <1>5 DEF Holds
<1>7. ASSUME ~Holds(At(L, p + 1), key), NEW i \in 1..Len(L), nodes[L[i]].key = key PROVE FALSE
  <2>1. ~Before(nodes[L[i]].key, key)
    BY <1>7, BeforeIrreflexive
  <2>2. ~(i <= p) /\ p + 1 \in 1..Len(L)
    BY <1>1, <1>4, <2>1 DEF Split
  <2>3. At(L, p + 1) = L[p + 1] /\ L[p + 1] # Null
    BY <1>4, <2>2 DEF At, Null
  <2>4. i # p + 1
    BY <1>7, <2>3 DEF Holds
  <2>5. p + 1 < i
    BY <1>4, <2>2, <2>4
  <2>6. Before(nodes[L[p + 1]].key, nodes[L[i]].key)
    BY <2>2, <2>5 DEF Listed
  <2>7. p + 1 <= p
    BY <1>1, <1>7, <2>2, <2>6 DEF Split
  <2> QED
    BY <1>4, <2>7
<1> QED
  BY <1>1, <1>2, <1>3, <1>6, <1>7

\* A Put writes an entry.
LEMMA PutWrites ==
  ASSUME TableInv, ~killed, NEW key \in Key, NEW value \in Value, NEW seq \in Sequence,
         Put(key, value, seq)
  PROVE  Writes(key, value, seq, FALSE)
<1>1. PICK L : Listed(nodes, L) /\ Charged(nodes, L, memoryUsage)
  BY DEF TableInv
<1>2. NodesOK(nodes) /\ currentMaxLevel = 1 /\ key \in String
  BY TableAssumption DEF TableInv, String
<1>3. PICK p \in 0..Len(L) :
        /\ FindGreaterOrEqual(key) = StoppedAt(At(L, p))
        /\ FindGreaterOrEqual(key).next = At(L, p + 1)
        /\ Split(nodes, L, p, key)
        /\ Holds(At(L, p + 1), key) => At(L, p + 1) \in 2..Len(nodes)
        /\ ~Holds(At(L, p + 1), key) => \A i \in 1..Len(L) : nodes[L[i]].key # key
  BY <1>1, <1>2, KeyFoundOrNew
<1>4. CASE Holds(At(L, p + 1), key)
  <2> DEFINE n == At(L, p + 1)
  <2>1. n \in 2..Len(nodes) /\ nodes[n].key = key
    BY <1>3, <1>4 DEF Holds
  <2>2. /\ Overwrite(n, value, seq, FALSE)
        /\ revived' = IF nodes[n].deleted THEN (revived + 1) % SizeModulus ELSE revived
        /\ UNCHANGED size
    BY <1>3, <1>4 DEF Put
  <2> HIDE DEF n
  <2>3. Rewrites(key, value, seq, FALSE)
    BY <2>1, <2>2 DEF Overwrite, Rewrites, Rewritten
  <2> QED
    BY <2>2, <2>3 DEF Overwrite, Writes
<1>5. CASE ~Holds(At(L, p + 1), key)
  <2>1. Insert(StoppedAt(At(L, p)), key, value, seq, FALSE)
    BY <1>3, <1>5 DEF Put
  <2>2. PICK level \in 1..MaxLevel :
          /\ InsertNode(NewNode(key, value, level, seq, FALSE), StoppedAt(At(L, p)).prev)
          /\ IF killed'
               THEN UNCHANGED <<size, memoryUsage, maxSequence>>
               ELSE /\ size' = (size + 1) % SizeModulus
                    /\ memoryUsage' = (memoryUsage + Len(key) + Len(value)
                                         + NodeSize + level * PointerSize) % SizeModulus
                    /\ maxSequence' = Larger(maxSequence, seq)
          /\ UNCHANGED revived
    BY <2>1 DEF Insert
  <2>3. \/ killed' = TRUE /\ UNCHANGED <<nodes, currentMaxLevel>>
        \/ /\ level = 1
           /\ UNCHANGED <<killed, currentMaxLevel>>
           /\ LinkedAt(nodes, nodes', L, p, OneLevel(key, value, seq, FALSE, At(L, p + 1)))
    BY <1>1, <1>2, <2>2, InsertLinksOrKills
  <2>4. CASE killed' = TRUE /\ UNCHANGED <<nodes, currentMaxLevel>>
    BY <2>2, <2>4 DEF Writes, Kills
  <2>5. CASE /\ level = 1
             /\ UNCHANGED <<killed, currentMaxLevel>>
             /\ LinkedAt(nodes, nodes', L, p, OneLevel(key, value, seq, FALSE, At(L, p + 1)))
    <3>1. level * PointerSize = PointerSize
      BY <2>5, TableAssumption
    <3>2. /\ size' = (size + 1) % SizeModulus
          /\ memoryUsage' = (memoryUsage + Len(key) + Len(value)
                               + NodeSize + PointerSize) % SizeModulus
          /\ maxSequence' = Larger(maxSequence, seq)
          /\ revived' = revived
      BY <2>2, <2>5, <3>1
    <3>3. Links(key, value, seq, FALSE)
      BY <1>1, <1>3, <1>5, <2>5, <3>2 DEF Links
    <3> QED
      BY <2>5, <3>2, <3>3 DEF Writes
  <2> QED
    BY <2>3, <2>4, <2>5
<1> QED
  BY <1>4, <1>5

\* A Delete writes a tombstone.
LEMMA DeleteWrites ==
  ASSUME TableInv, ~killed, NEW key \in Key, NEW seq \in Sequence, Delete(key, seq)
  PROVE  Writes(key, Empty, seq, TRUE)
<1>1. PICK L : Listed(nodes, L) /\ Charged(nodes, L, memoryUsage)
  BY DEF TableInv
<1>2. NodesOK(nodes) /\ currentMaxLevel = 1 /\ key \in String /\ Empty \in Value
  BY TableAssumption DEF TableInv, String
<1>3. PICK p \in 0..Len(L) :
        /\ FindGreaterOrEqual(key) = StoppedAt(At(L, p))
        /\ FindGreaterOrEqual(key).next = At(L, p + 1)
        /\ Split(nodes, L, p, key)
        /\ Holds(At(L, p + 1), key) => At(L, p + 1) \in 2..Len(nodes)
        /\ ~Holds(At(L, p + 1), key) => \A i \in 1..Len(L) : nodes[L[i]].key # key
  BY <1>1, <1>2, KeyFoundOrNew
<1>4. CASE Holds(At(L, p + 1), key)
  <2> DEFINE n == At(L, p + 1)
  <2>1. n \in 2..Len(nodes) /\ nodes[n].key = key
    BY <1>3, <1>4 DEF Holds
  <2>2. /\ Overwrite(n, Empty, seq, TRUE)
        /\ size' = IF nodes[n].deleted THEN size ELSE (size - 1) % SizeModulus
        /\ UNCHANGED revived
    BY <1>3, <1>4 DEF Delete
  <2> HIDE DEF n
  <2>3. Rewrites(key, Empty, seq, TRUE)
    BY <2>1, <2>2 DEF Overwrite, Rewrites, Rewritten
  <2> QED
    BY <2>2, <2>3 DEF Overwrite, Writes
<1>5. CASE ~Holds(At(L, p + 1), key)
  <2>1. Insert(StoppedAt(At(L, p)), key, Empty, seq, TRUE)
    BY <1>3, <1>5 DEF Delete
  <2>2. PICK level \in 1..MaxLevel :
          /\ InsertNode(NewNode(key, Empty, level, seq, TRUE), StoppedAt(At(L, p)).prev)
          /\ IF killed'
               THEN UNCHANGED <<size, memoryUsage, maxSequence>>
               ELSE /\ size' = size
                    /\ memoryUsage' = (memoryUsage + Len(key) + Len(Empty)
                                         + NodeSize + level * PointerSize) % SizeModulus
                    /\ maxSequence' = Larger(maxSequence, seq)
          /\ UNCHANGED revived
    BY <2>1 DEF Insert
  <2>3. \/ killed' = TRUE /\ UNCHANGED <<nodes, currentMaxLevel>>
        \/ /\ level = 1
           /\ UNCHANGED <<killed, currentMaxLevel>>
           /\ LinkedAt(nodes, nodes', L, p, OneLevel(key, Empty, seq, TRUE, At(L, p + 1)))
    BY <1>1, <1>2, <2>2, InsertLinksOrKills
  <2>4. CASE killed' = TRUE /\ UNCHANGED <<nodes, currentMaxLevel>>
    BY <2>2, <2>4 DEF Writes, Kills
  <2>5. CASE /\ level = 1
             /\ UNCHANGED <<killed, currentMaxLevel>>
             /\ LinkedAt(nodes, nodes', L, p, OneLevel(key, Empty, seq, TRUE, At(L, p + 1)))
    <3>1. level * PointerSize = PointerSize
      BY <2>5, TableAssumption
    <3>2. /\ size' = size
          /\ memoryUsage' = (memoryUsage + Len(key) + Len(Empty)
                               + NodeSize + PointerSize) % SizeModulus
          /\ maxSequence' = Larger(maxSequence, seq)
          /\ revived' = revived
      BY <2>2, <2>5, <3>1
    <3>3. Links(key, Empty, seq, TRUE)
      BY <1>1, <1>3, <1>5, <2>5, <3>2 DEF Links
    <3> QED
      BY <2>5, <3>2, <3>3 DEF Writes
  <2> QED
    BY <2>3, <2>4, <2>5
<1> QED
  BY <1>4, <1>5

-----------------------------------------------------------------------------
(* What size_ counts.                                                      *)

\* The live entries are finitely many.
LEMMA LiveFinite ==
  ASSUME NEW ns, NodesOK(ns)
  PROVE  IsFiniteSet(Live(ns)) /\ Cardinality(Live(ns)) \in Nat
<1>1. Len(ns) \in Int /\ 2 \in Int
  BY NodeTypes
<1>2. IsFiniteSet(2..Len(ns))
  BY <1>1, FS_Interval
<1>3. Live(ns) \in SUBSET (2..Len(ns))
  BY DEF Live
<1>4. IsFiniteSet(Live(ns))
  BY <1>2, <1>3, FS_Subset
<1> QED
  BY <1>4, FS_CardinalityType

\* What writing a node again does to the number of live entries.
LEMMA RewrittenLive ==
  ASSUME NEW ns, NodesOK(ns), NEW n \in 2..Len(ns),
         NEW value \in Value, NEW seq \in Sequence, NEW deleted \in BOOLEAN,
         deleted => value = Empty,
         NEW ns2, ns2 = Rewritten(ns, n, value, seq, deleted)
  PROVE  Cardinality(Live(ns2)) =
           Cardinality(Live(ns)) + (IF deleted /\ ~ns[n].deleted THEN -1
                                    ELSE IF ~deleted /\ ns[n].deleted THEN 1 ELSE 0)
<1>1. /\ Len(ns2) = Len(ns) /\ Len(ns) \in Nat
      /\ \A m \in 2..Len(ns) : ns2[m].deleted = IF m = n THEN deleted ELSE ns[m].deleted
  <2>1. /\ Len(ns2) = Len(ns) /\ Len(ns) \in Nat
        /\ \A m \in 1..Len(ns) : m # n => ns2[m] = ns[m]
        /\ ns2[n].deleted = deleted
    BY NodeTypes, RewrittenNodes
  <2>2. ASSUME NEW m \in 2..Len(ns)
        PROVE  ns2[m].deleted = IF m = n THEN deleted ELSE ns[m].deleted
    <3>1. m \in 1..Len(ns)
      BY <2>1
    <3> QED
      BY <2>1, <3>1
  <2> QED
    BY <2>1, <2>2
<1>2. IsFiniteSet(Live(ns)) /\ Cardinality(Live(ns)) \in Nat
  BY LiveFinite
<1>3. n \in Live(ns) <=> ~ns[n].deleted
  BY DEF Live
<1>4. CASE deleted
  <2>1. Live(ns2) = Live(ns) \ {n}
    BY <1>1, <1>4 DEF Live
  <2>2. Cardinality(Live(ns) \ {n}) =
          IF n \in Live(ns) THEN Cardinality(Live(ns)) - 1 ELSE Cardinality(Live(ns))
    BY <1>2, FS_RemoveElement
  <2>3. CASE n \in Live(ns)
    <3>1. ~ns[n].deleted
      BY <1>3, <2>3
    <3>2. (IF deleted /\ ~ns[n].deleted THEN -1
           ELSE IF ~deleted /\ ns[n].deleted THEN 1 ELSE 0) = -1
      BY <1>4, <3>1
    <3> QED
      BY <1>2, <2>1, <2>2, <2>3, <3>2
  <2>4. CASE ~(n \in Live(ns))
    <3>1. ns[n].deleted
      BY <1>3, <2>4
    <3>2. (IF deleted /\ ~ns[n].deleted THEN -1
           ELSE IF ~deleted /\ ns[n].deleted THEN 1 ELSE 0) = 0
      BY <1>4, <3>1
    <3> QED
      BY <1>2, <2>1, <2>2, <2>4, <3>2
  <2> QED
    BY <2>3, <2>4
<1>5. CASE ~deleted
  <2>1. Live(ns2) = Live(ns) \cup {n}
    BY <1>1, <1>5 DEF Live
  <2>2. Cardinality(Live(ns) \cup {n}) =
          IF n \in Live(ns) THEN Cardinality(Live(ns)) ELSE Cardinality(Live(ns)) + 1
    BY <1>2, FS_AddElement
  <2>3. CASE n \in Live(ns)
    <3>1. ~ns[n].deleted
      BY <1>3, <2>3
    <3>2. (IF deleted /\ ~ns[n].deleted THEN -1
           ELSE IF ~deleted /\ ns[n].deleted THEN 1 ELSE 0) = 0
      BY <1>5, <3>1
    <3> QED
      BY <1>2, <2>1, <2>2, <2>3, <3>2
  <2>4. CASE ~(n \in Live(ns))
    <3>1. ns[n].deleted
      BY <1>3, <2>4
    <3>2. (IF deleted /\ ~ns[n].deleted THEN -1
           ELSE IF ~deleted /\ ns[n].deleted THEN 1 ELSE 0) = 1
      BY <1>5, <3>1
    <3> QED
      BY <1>2, <2>1, <2>2, <2>4, <3>2
  <2> QED
    BY <2>3, <2>4
<1> QED
  BY <1>4, <1>5

\* What linking a node does to it.
LEMMA LinkedLive ==
  ASSUME NEW ns, NodesOK(ns), NEW L, NEW p, NEW node, NEW ns2, LinkedAt(ns, ns2, L, p, node)
  PROVE  Cardinality(Live(ns2)) = Cardinality(Live(ns)) + (IF node.deleted THEN 0 ELSE 1)
<1>1. /\ Len(ns) \in Nat \ {0}
      /\ \A m \in 1..Len(ns) : ns2[m].deleted = ns[m].deleted
      /\ Len(ns2) = Len(ns) + 1 /\ ns2[Len(ns) + 1] = node
  <2>1. Len(ns) \in Nat \ {0}
    BY NodeTypes
  <2>2. \A m \in 1..Len(ns) : ns2[m].deleted = ns[m].deleted
    BY LinkedNodes
  <2> QED
    BY <2>1, <2>2 DEF LinkedAt
<1> DEFINE new == Len(ns) + 1
<1>2. /\ 2..Len(ns2) = (2..Len(ns)) \cup {new} /\ ~(new \in 2..Len(ns))
      /\ \A m \in 2..Len(ns) : ns2[m].deleted = ns[m].deleted
  BY <1>1
<1>3. ns2[new] = node
  BY <1>1
<1> HIDE DEF new
<1>4. IsFiniteSet(Live(ns)) /\ Cardinality(Live(ns)) \in Nat /\ ~(new \in Live(ns))
  BY <1>2, LiveFinite DEF Live
<1>5. CASE node.deleted
  <2>1. Live(ns2) = Live(ns)
    BY <1>2, <1>3, <1>5 DEF Live
  <2> QED
    BY <1>4, <1>5, <2>1
<1>6. CASE ~node.deleted
  <2>1. Live(ns2) = Live(ns) \cup {new}
    BY <1>2, <1>3, <1>6 DEF Live
  <2>2. Cardinality(Live(ns) \cup {new}) = Cardinality(Live(ns)) + 1
    BY <1>4, FS_AddElement
  <2> QED
    BY <1>4, <1>6, <2>1, <2>2
<1> QED
  BY <1>5, <1>6

\* Two counters that move together leave their difference alone, also when
\* one of them wraps.
LEMMA BothCount ==
  ASSUME NEW m \in Nat \ {0}, NEW c \in Int, NEW r \in 0..(m - 1)
  PROVE  ((c + 1) - ((r + 1) % m)) % m = (c - r) % m /\ (r + 1) % m \in 0..(m - 1)
<1>1. CASE r + 1 < m
  <2>1. r + 1 \in 0..(m - 1) /\ m * 0 + (r + 1) = r + 1
    BY <1>1
  <2>2. (m * 0 + (r + 1)) % m = r + 1
    BY <2>1, RemainderUnique
  <2>3. (r + 1) % m = r + 1
    BY <2>1, <2>2
  <2>4. (c + 1) - (r + 1) = c - r
    OBVIOUS
  <2> QED
    BY <2>1, <2>3, <2>4
<1>2. CASE r + 1 = m
  <2>1. 0 \in 0..(m - 1) /\ m * 1 + 0 = r + 1
    BY <1>2
  <2>2. (m * 1 + 0) % m = 0
    BY <2>1, RemainderUnique
  <2>3. (r + 1) % m = 0
    BY <2>1, <2>2
  <2> DEFINE d == c - r
             one == 1
  <2>4. (c + 1) - 0 = m * one + d /\ d \in Int /\ one \in Int
    BY <1>2
  <2> HIDE DEF d, one
  <2>5. (m * one + d) % m = d % m
    BY <2>4, RemainderOfMultiple
  <2> QED
    BY <2>1, <2>3, <2>4, <2>5 DEF d
<1> QED
  BY <1>1, <1>2

\* A counter of a difference, one up and one down.
LEMMA DifferenceCounts ==
  ASSUME NEW m \in Nat \ {0}, NEW c \in Int, NEW r \in Int
  PROVE  /\ (((c - r) % m) + 1) % m = ((c + 1) - r) % m
         /\ (((c - r) % m) - 1) % m = ((c - 1) - r) % m
<1>1. c - r \in Int /\ (c - r) + 1 = (c + 1) - r /\ (c - r) + (-1) = (c - 1) - r
      /\ 1 \in Int /\ -1 \in Int
  OBVIOUS
<1>2. (((c - r) % m) + 1) % m = ((c - r) + 1) % m
  BY <1>1, RemainderOfSum
<1>3. (((c - r) % m) + (-1)) % m = ((c - r) + (-1)) % m
  BY <1>1, RemainderOfSum
<1>4. (c - r) % m \in Int
  BY <1>1, DivisionInInt
<1>5. ((c - r) % m) + (-1) = ((c - r) % m) - 1
  BY <1>4
<1> QED
  BY <1>1, <1>2, <1>3, <1>5

-----------------------------------------------------------------------------
(* The invariant of the table.                                             *)

\* A new table is an empty list.
LEMMA TableStarts ==
  ASSUME TableInit
  PROVE  TableInv
<1> DEFINE head == NewNode(Empty, Empty, MaxLevel + 1, 0, FALSE)
           none == << >>
<1>1. nodes = <<head>> /\ currentMaxLevel = 1 /\ size = 0 /\ memoryUsage = 0
      /\ maxSequence = 0 /\ revived = 0
  BY DEF TableInit
<1>2. MaxLevel \in Nat \ {0} /\ SizeModulus \in Nat \ {0}
  BY TableAssumption
<1>3. head \in HeadRecord /\ \A i \in 0..MaxLevel : head.forward[i] = Null
  <2>1. (MaxLevel + 1) - 1 = MaxLevel
    BY <1>2
  <2> QED
    BY <2>1 DEF NewNode, HeadRecord, Null
<1> HIDE DEF head
<1>4. Len(nodes) = 1 /\ nodes[HeadNode] = head /\ nodes \in Seq(HeadRecord \cup NodeRecord)
  BY <1>1, <1>3 DEF HeadNode
<1>5. 2..Len(nodes) = {}
  BY <1>4
<1>6. NodesOK(nodes)
  <2>1. \A i \in 1..MaxLevel : i \in 0..MaxLevel
    BY <1>2
  <2> QED
    BY <1>3, <1>4, <1>5, <2>1 DEF NodesOK
<1>7. Listed(nodes, none)
  <2>1. none \in Seq(2..Len(nodes)) /\ Len(none) = 0
    OBVIOUS
  <2>2. At(none, 0) = HeadNode /\ At(none, 1) = Null
    BY <2>1 DEF At
  <2>3. nodes[HeadNode].forward[0] = Null
    <3>1. 0 \in 0..MaxLevel
      BY <1>2
    <3> QED
      BY <1>3, <1>4, <3>1
  <2>4. ASSUME NEW i \in 0..Len(none) PROVE nodes[At(none, i)].forward[0] = At(none, i + 1)
    <3>1. i = 0
      BY <2>1
    <3> QED
      BY <2>2, <2>3, <3>1
  <2>5. 1..Len(none) = {}
    BY <2>1
  <2> HIDE DEF none
  <2> QED
    BY <1>5, <2>1, <2>4, <2>5 DEF Listed
<1>8. Charged(nodes, none, memoryUsage)
  <2> DEFINE sum == [i \in 0..0 |-> 0]
  <2>1. Len(none) = 0 /\ 1..Len(none) = {}
    OBVIOUS
  <2>2. Sums(nodes, none, sum)
    BY <2>1 DEF Sums
  <2>3. sum[Len(none)] = 0
    BY <2>1
  <2>4. 0 % SizeModulus = 0
    BY <1>2
  <2> HIDE DEF sum, none
  <2> QED
    BY <1>1, <2>2, <2>3, <2>4 DEF Charged
<1>9. size = (Cardinality(Live(nodes)) - revived) % SizeModulus
  <2>1. Live(nodes) = {}
    BY <1>5 DEF Live
  <2>2. Cardinality(Live(nodes)) = 0
    BY <2>1, FS_EmptySet
  <2>3. (0 - 0) % SizeModulus = 0
    BY <1>2
  <2> QED
    BY <1>1, <2>2, <2>3
<1>10. revived \in 0..(SizeModulus - 1)
  BY <1>1, <1>2
<1> QED
  BY <1>1, <1>6, <1>7, <1>8, <1>9, <1>10 DEF TableInv

\* A step that leaves the table alone.
LEMMA TableStays ==
  ASSUME TableInv, UNCHANGED <<nodes, currentMaxLevel, size, memoryUsage, maxSequence, revived>>
  PROVE  TableInv'
BY DEF TableInv

\* Writing an entry again.
LEMMA RewritesKeepInv ==
  ASSUME TableInv, NEW key \in Key, NEW value \in Value, NEW seq \in Sequence,
         NEW deleted \in BOOLEAN, deleted => value = Empty,
         Rewrites(key, value, seq, deleted),
         currentMaxLevel' = currentMaxLevel, maxSequence' = Larger(maxSequence, seq)
  PROVE  TableInv'
<1>1. PICK n \in 2..Len(nodes) :
        /\ nodes[n].key = key
        /\ nodes' = Rewritten(nodes, n, value, seq, deleted)
        /\ memoryUsage' = (memoryUsage + Len(value) - Len(nodes[n].value)) % SizeModulus
        /\ size' = IF deleted /\ ~nodes[n].deleted THEN (size - 1) % SizeModulus ELSE size
        /\ revived' = IF ~deleted /\ nodes[n].deleted THEN (revived + 1) % SizeModulus ELSE revived
  BY DEF Rewrites
<1>2. PICK L : Listed(nodes, L) /\ Charged(nodes, L, memoryUsage)
  BY DEF TableInv
<1>3. /\ NodesOK(nodes) /\ currentMaxLevel = 1 /\ revived \in 0..(SizeModulus - 1)
      /\ size = (Cardinality(Live(nodes)) - revived) % SizeModulus
      /\ SizeModulus \in Nat \ {0}
  BY TableAssumption DEF TableInv
<1>4. /\ NodesOK(nodes') /\ Len(nodes') = Len(nodes)
      /\ \A m \in 1..Len(nodes) :
           nodes'[m].key = nodes[m].key /\ nodes'[m].forward = nodes[m].forward
  BY <1>1, <1>3, RewrittenNodes
<1>5. Listed(nodes', L)
  BY <1>2, <1>3, <1>4, ListedByLinks
<1>6. Charged(nodes', L, memoryUsage')
  BY <1>1, <1>2, <1>3, RewrittenCharged
<1> DEFINE c == Cardinality(Live(nodes))
<1>7. Cardinality(Live(nodes')) = c + (IF deleted /\ ~nodes[n].deleted THEN -1
                                       ELSE IF ~deleted /\ nodes[n].deleted THEN 1 ELSE 0)
  BY <1>1, <1>3, RewrittenLive
<1>8. c \in Nat /\ c \in Int /\ revived \in Int
  BY <1>3, LiveFinite
<1>9. /\ size' = (Cardinality(Live(nodes')) - revived') % SizeModulus
      /\ revived' \in 0..(SizeModulus - 1)
  <2>1. size = (c - revived) % SizeModulus
    BY <1>3
  <2> HIDE DEF c
  <2>2. CASE deleted /\ ~nodes[n].deleted
    <3>1. /\ Cardinality(Live(nodes')) = c - 1
          /\ size' = (size - 1) % SizeModulus /\ revived' = revived
      BY <1>1, <1>7, <1>8, <2>2
    <3> QED
      BY <1>3, <1>8, <2>1, <3>1, DifferenceCounts
  <2>3. CASE ~deleted /\ nodes[n].deleted
    <3>1. /\ Cardinality(Live(nodes')) = c + 1
          /\ size' = size /\ revived' = (revived + 1) % SizeModulus
      BY <1>1, <1>7, <1>8, <2>3
    <3> QED
      BY <1>3, <1>8, <2>1, <3>1, BothCount
  <2>4. CASE ~(deleted /\ ~nodes[n].deleted) /\ ~(~deleted /\ nodes[n].deleted)
    <3>1. (IF deleted /\ ~nodes[n].deleted THEN -1
           ELSE IF ~deleted /\ nodes[n].deleted THEN 1 ELSE 0) = 0
      BY <2>4
    <3>2. Cardinality(Live(nodes')) = c
      BY <1>7, <1>8, <3>1
    <3>3. size' = size /\ revived' = revived
      BY <1>1, <2>4
    <3> QED
      BY <1>3, <2>1, <3>2, <3>3
  <2> QED
    BY <2>2, <2>3, <2>4
<1>10. maxSequence' \in Sequence \cup {0}
  BY DEF TableInv, Larger
<1> QED
  BY <1>3, <1>4, <1>5, <1>6, <1>9, <1>10 DEF TableInv

\* Linking a new entry.
LEMMA LinksKeepInv ==
  ASSUME TableInv, NEW key \in Key, NEW value \in Value, NEW seq \in Sequence,
         NEW deleted \in BOOLEAN, deleted => value = Empty,
         Links(key, value, seq, deleted),
         currentMaxLevel' = currentMaxLevel, maxSequence' = Larger(maxSequence, seq)
  PROVE  TableInv'
<1>1. PICK L, p :
        /\ Listed(nodes, L) /\ Charged(nodes, L, memoryUsage) /\ Split(nodes, L, p, key)
        /\ \A i \in 1..Len(L) : nodes[L[i]].key # key
        /\ LinkedAt(nodes, nodes', L, p, OneLevel(key, value, seq, deleted, At(L, p + 1)))
        /\ memoryUsage' = (memoryUsage + Len(key) + Len(value) + NodeSize + PointerSize)
                             % SizeModulus
        /\ size' = IF deleted THEN size ELSE (size + 1) % SizeModulus
        /\ revived' = revived
  BY DEF Links
<1> DEFINE node == OneLevel(key, value, seq, deleted, At(L, p + 1))
           new == Len(nodes) + 1
<1>2. /\ NodesOK(nodes) /\ currentMaxLevel = 1 /\ revived \in 0..(SizeModulus - 1)
      /\ size = (Cardinality(Live(nodes)) - revived) % SizeModulus
      /\ SizeModulus \in Nat \ {0}
  BY TableAssumption DEF TableInv
<1>3. p \in 0..Len(L) /\ node.key = key /\ node.value = value /\ node.deleted = deleted
  BY <1>1 DEF Split, OneLevel
<1> HIDE DEF node
<1>4. NodesOK(nodes')
  BY <1>1, <1>2, LinkedNodes DEF node
<1>5. Listed(nodes', With(L, p, new))
  BY <1>1, <1>2, <1>3, LinkedList DEF node
<1>6. Charged(nodes', With(L, p, new), memoryUsage')
  <2>1. Charged(nodes', With(L, p, new), (memoryUsage + Charge(node)) % SizeModulus)
    BY <1>1, <1>2, <1>3, LinkedCharged DEF node
  <2>2. memoryUsage + Charge(node) = memoryUsage + Len(key) + Len(value) + NodeSize + PointerSize
    <3>1. key \in Seq(Nat) /\ value \in Seq(Nat) /\ NodeSize \in Nat /\ PointerSize \in Nat
      BY TableAssumption
    <3>2. memoryUsage \in Int
      <4>1. PICK sum : Sums(nodes, L, sum) /\ memoryUsage = sum[Len(L)] % SizeModulus
        BY <1>1 DEF Charged
      <4>2. sum[Len(L)] \in Int
        <5>1. Len(L) \in 0..Len(L)
          BY <1>1 DEF Listed
        <5> QED
          BY <4>1, <5>1 DEF Sums
      <4> DEFINE s == sum[Len(L)]
      <4>3. s \in Int /\ memoryUsage = s % SizeModulus
        BY <4>1, <4>2
      <4> HIDE DEF s
      <4> QED
        BY <1>2, <4>3
    <3> DEFINE k == Len(key)
               v == Len(value)
    <3>3. k \in Nat /\ v \in Nat /\ Charge(node) = k + v + NodeSize + PointerSize
      BY <1>3, <3>1 DEF Charge
    <3> HIDE DEF k, v
    <3>4. memoryUsage + Charge(node) = memoryUsage + k + v + NodeSize + PointerSize
      BY <3>1, <3>2, <3>3
    <3> QED
      BY <3>4 DEF k, v
  <2> QED
    BY <1>1, <2>1, <2>2
<1> DEFINE c == Cardinality(Live(nodes))
<1>7. Cardinality(Live(nodes')) = c + (IF deleted THEN 0 ELSE 1)
  BY <1>1, <1>2, <1>3, LinkedLive DEF node
<1>8. c \in Nat /\ c \in Int /\ revived \in Int
  BY <1>2, LiveFinite
<1>9. size' = (Cardinality(Live(nodes')) - revived') % SizeModulus
  <2>1. size = (c - revived) % SizeModulus
    BY <1>2
  <2> HIDE DEF c
  <2>2. CASE deleted
    <3>1. Cardinality(Live(nodes')) = c /\ size' = size /\ revived' = revived
      BY <1>1, <1>7, <1>8, <2>2
    <3> QED
      BY <2>1, <3>1
  <2>3. CASE ~deleted
    <3>1. Cardinality(Live(nodes')) = c + 1 /\ size' = (size + 1) % SizeModulus
          /\ revived' = revived
      BY <1>1, <1>7, <1>8, <2>3
    <3> QED
      BY <1>2, <1>8, <2>1, <3>1, DifferenceCounts
  <2> QED
    BY <2>2, <2>3
<1>10. maxSequence' \in Sequence \cup {0}
  BY DEF TableInv, Larger
<1>11. \E M : Listed(nodes', M) /\ Charged(nodes', M, memoryUsage')
  BY <1>5, <1>6
<1> QED
  BY <1>1, <1>2, <1>4, <1>9, <1>10, <1>11 DEF TableInv

\* Every write keeps the invariant of the table.
LEMMA WritesKeepInv ==
  ASSUME TableInv, NEW key \in Key, NEW value \in Value, NEW seq \in Sequence,
         NEW deleted \in BOOLEAN, deleted => value = Empty,
         Writes(key, value, seq, deleted)
  PROVE  TableInv'
<1>1. CASE Kills
  BY <1>1, TableStays DEF Kills
<1>2. CASE /\ UNCHANGED <<killed, currentMaxLevel>>
           /\ maxSequence' = Larger(maxSequence, seq)
           /\ Rewrites(key, value, seq, deleted)
  BY <1>2, RewritesKeepInv
<1>3. CASE /\ UNCHANGED <<killed, currentMaxLevel>>
           /\ maxSequence' = Larger(maxSequence, seq)
           /\ Links(key, value, seq, deleted)
  BY <1>3, LinksKeepInv
<1> QED
  BY <1>1, <1>2, <1>3 DEF Writes

\* What any step does to the table: nothing, or it ends the process, or it
\* writes an entry.
LEMMA TableSteps ==
  ASSUME TableInv, Next
  PROVE  \/ UNCHANGED <<nodes, currentMaxLevel, size, memoryUsage, maxSequence, revived>>
         \/ /\ Fill
            /\ \E key \in Key, value \in Value, seq \in Sequence, deleted \in BOOLEAN :
                 (deleted => value = Empty) /\ Writes(key, value, seq, deleted)
<1>1. CASE Fill
  <2>1. PICK key \in Key, seq \in Sequence :
          Delete(key, seq) \/ \E value \in Value : Put(key, value, seq)
    BY <1>1 DEF Fill
  <2>2. ~killed /\ Empty \in Value
    BY <1>1, TableAssumption DEF Fill, Running
  <2>3. CASE Delete(key, seq)
    <3>1. Writes(key, Empty, seq, TRUE)
      BY <2>2, <2>3, DeleteWrites
    <3> QED
      BY <1>1, <2>2, <3>1
  <2>4. CASE \E value \in Value : Put(key, value, seq)
    <3>1. PICK value \in Value : Put(key, value, seq)
      BY <2>4
    <3>2. Writes(key, value, seq, FALSE)
      BY <2>2, <3>1, PutWrites
    <3> QED
      BY <1>1, <3>2
  <2> QED
    BY <2>1, <2>3, <2>4
<1>2. CASE FlushNothing \/ StartScan \/ ScanStep \/ CallAdd \/ CallAbandon
  BY <1>2 DEF FlushNothing, StartScan, ScanStep, CallAdd, CallAbandon, tableVars
<1>3. CASE FinishScan \/ CallFinish
  BY <1>3 DEF FinishScan, CallFinish
<1> QED
  BY <1>1, <1>2, <1>3 DEF Next

\* The list, its order and its counters survive every step.
THEOREM TableInvariant == Spec => []TableInv
<1>1. Init => TableInv
  BY TableStarts DEF Init
<1>2. TableInv /\ [Next]_vars => TableInv'
  <2> SUFFICES ASSUME TableInv, [Next]_vars PROVE TableInv'
    OBVIOUS
  <2>1. CASE UNCHANGED vars
    BY <2>1, TableStays DEF vars, tableVars
  <2>2. CASE Next
    BY <2>2, TableSteps, TableStays, WritesKeepInv
  <2> QED
    BY <2>1, <2>2
<1> QED
  BY <1>1, <1>2, PTL DEF Spec

-----------------------------------------------------------------------------
(* What the invariant gives.                                               *)

\* Entry n of ns.
EntryIn(ns, n) == [value |-> ns[n].value, seq |-> ns[n].seq, deleted |-> ns[n].deleted]

\* The nodes ns as a map.
MapOf(ns) == [k \in {ns[n].key : n \in 2..Len(ns)} |->
                EntryIn(ns, CHOOSE n \in 2..Len(ns) : ns[n].key = k)]

\* No key is in the table twice.
LEMMA KeysOnce ==
  ASSUME NEW ns, NodesOK(ns), NEW L, Listed(ns, L)
  PROVE  \A m, n \in 2..Len(ns) : ns[m].key = ns[n].key => m = n
<1> SUFFICES ASSUME NEW m \in 2..Len(ns), NEW n \in 2..Len(ns), ns[m].key = ns[n].key
             PROVE  m = n
  OBVIOUS
<1>1. PICK i \in 1..Len(L) : L[i] = m
  BY DEF Listed
<1>2. PICK j \in 1..Len(L) : L[j] = n
  BY DEF Listed
<1>3. i = j
  BY <1>1, <1>2, ListedNodes
<1> QED
  BY <1>1, <1>2, <1>3

\* The map holds every entry under its key.
LEMMA MapHoldsNodes ==
  ASSUME NEW ns, NodesOK(ns), NEW L, Listed(ns, L)
  PROVE  \A n \in 2..Len(ns) : ns[n].key \in DOMAIN MapOf(ns) /\ MapOf(ns)[ns[n].key] = EntryIn(ns, n)
<1> SUFFICES ASSUME NEW n \in 2..Len(ns)
             PROVE  ns[n].key \in DOMAIN MapOf(ns) /\ MapOf(ns)[ns[n].key] = EntryIn(ns, n)
  OBVIOUS
<1> DEFINE k == ns[n].key
           m == CHOOSE i \in 2..Len(ns) : ns[i].key = k
<1>1. m \in 2..Len(ns) /\ ns[m].key = k
  OBVIOUS
<1>2. m = n
  BY <1>1, KeysOnce
<1>3. k \in {ns[i].key : i \in 2..Len(ns)}
  OBVIOUS
<1> QED
  BY <1>2, <1>3 DEF MapOf

\* What the iterator sees.
LEMMA WalkOfTable ==
  TableInv => \E L : /\ Listed(nodes, L) /\ Charged(nodes, L, memoryUsage)
                     /\ Walk = L /\ Range(Walk) = 2..Len(nodes)
<1> SUFFICES ASSUME TableInv
             PROVE  \E L : /\ Listed(nodes, L) /\ Charged(nodes, L, memoryUsage)
                           /\ Walk = L /\ Range(Walk) = 2..Len(nodes)
  OBVIOUS
<1>1. PICK L : Listed(nodes, L) /\ Charged(nodes, L, memoryUsage)
  BY DEF TableInv
<1>2. NodesOK(nodes)
  BY DEF TableInv
<1>3. Walk = L
  BY <1>1, <1>2, WalkIsList
<1>4. Range(L) = 2..Len(nodes)
  BY <1>1, <1>2, ListedNodes
<1> QED
  BY <1>1, <1>3, <1>4

\* Entries and LiveEntries are those of the nodes.
LEMMA EntriesAreMap ==
  TableInv => Entries = MapOf(nodes) /\ LiveEntries = Live(nodes)
<1> SUFFICES ASSUME TableInv PROVE Entries = MapOf(nodes) /\ LiveEntries = Live(nodes)
  OBVIOUS
<1>1. Range(Walk) = 2..Len(nodes)
  BY WalkOfTable
<1> QED
  BY <1>1 DEF Entries, MapOf, LiveEntries, Live, EntryOf, EntryIn

\* The links lead to nodes and to nothing else.
LEMMA LinksLeadToNodes ==
  ASSUME TableInv, NEW n \in 1..Len(nodes)
  PROVE  Range(nodes[n].forward) \subseteq {Null} \cup (2..Len(nodes))
<1>1. PICK L : Listed(nodes, L)
  BY DEF TableInv
<1>2. NodesOK(nodes) /\ Len(L) \in Nat
      /\ \A i \in 1..Len(L) : L[i] \in 2..Len(nodes)
  BY <1>1, ListedNodes DEF TableInv
<1>3. PICK i \in 0..Len(L) : At(L, i) = n
  BY <1>1, <1>2, PlacesInList
<1>4. nodes[n].forward[0] = At(L, i + 1)
  BY <1>1, <1>3 DEF Listed
<1>5. nodes[n].forward[0] \in {Null} \cup (2..Len(nodes))
  <2>1. i + 1 \in 1..Len(L) \/ (i + 1 # 0 /\ ~(i + 1 <= Len(L)))
    BY <1>2
  <2>2. CASE i + 1 \in 1..Len(L)
    BY <1>2, <1>4, <2>2 DEF At
  <2>3. CASE i + 1 # 0 /\ ~(i + 1 <= Len(L))
    BY <1>4, <2>3 DEF At
  <2> QED
    BY <2>1, <2>2, <2>3
<1>6. CASE n = HeadNode
  <2>1. DOMAIN nodes[n].forward = 0..MaxLevel /\ \A l \in 1..MaxLevel : nodes[n].forward[l] = Null
    BY <1>2, <1>6 DEF NodesOK, HeadRecord
  <2>2. ASSUME NEW l \in 0..MaxLevel PROVE nodes[n].forward[l] \in {Null} \cup (2..Len(nodes))
    <3>1. l = 0 \/ l \in 1..MaxLevel
      BY TableAssumption
    <3> QED
      BY <1>5, <2>1, <3>1
  <2> QED
    BY <2>1, <2>2 DEF Range
<1>7. CASE n # HeadNode
  <2>1. n \in 2..Len(nodes)
    BY <1>7 DEF HeadNode
  <2>2. DOMAIN nodes[n].forward = {0}
    BY <1>2, <2>1 DEF NodesOK, NodeRecord
  <2> QED
    BY <1>5, <2>2 DEF Range
<1> QED
  BY <1>6, <1>7

\* memory_usage_ and size_ are remainders.
LEMMA CountersInRange ==
  ASSUME TableInv
  PROVE  {size, memoryUsage, revived} \subseteq 0..(SizeModulus - 1)
<1>1. SizeModulus \in Nat \ {0}
  BY TableAssumption
<1>2. memoryUsage \in 0..(SizeModulus - 1)
  <2>1. PICK L, sum : Listed(nodes, L) /\ Sums(nodes, L, sum) /\ memoryUsage = sum[Len(L)] % SizeModulus
    BY DEF TableInv, Charged
  <2>2. Len(L) \in 0..Len(L)
    BY <2>1 DEF Listed
  <2> DEFINE s == sum[Len(L)]
  <2>3. s \in Int /\ memoryUsage = s % SizeModulus
    BY <2>1, <2>2 DEF Sums
  <2> HIDE DEF s
  <2> QED
    BY <1>1, <2>3, DivisionInInt
<1>3. size \in 0..(SizeModulus - 1)
  <2> DEFINE d == Cardinality(Live(nodes)) - revived
  <2>1. Cardinality(Live(nodes)) \in Nat /\ revived \in Int
    BY <1>1, LiveFinite DEF TableInv
  <2>2. d \in Int /\ size = d % SizeModulus
    BY <2>1 DEF TableInv
  <2> HIDE DEF d
  <2> QED
    BY <1>1, <2>2, DivisionInInt
<1>4. revived \in 0..(SizeModulus - 1)
  BY DEF TableInv
<1> QED
  BY <1>2, <1>3, <1>4

\* Type correctness of the memtable: keys, values, numbers, links and
\* counters keep their types through every step of the program.
THEOREM TableTypeCorrect == Spec => []TableTypeOK
<1>1. TableInv => TableTypeOK
  <2> SUFFICES ASSUME TableInv PROVE TableTypeOK
    OBVIOUS
  <2>1. NodesOK(nodes) /\ DOMAIN nodes = 1..Len(nodes) /\ Len(nodes) \in Nat \ {0}
    BY NodeTypes DEF TableInv
  <2>2. ASSUME NEW n \in DOMAIN nodes
        PROVE  /\ n # HeadNode => nodes[n].key \in Key
               /\ nodes[n].value \in Value
               /\ nodes[n].seq \in Sequence \cup {0}
               /\ Range(nodes[n].forward) \subseteq {Null} \cup (2..Len(nodes))
    <3>1. Range(nodes[n].forward) \subseteq {Null} \cup (2..Len(nodes))
      BY <2>1, LinksLeadToNodes
    <3>2. CASE n = HeadNode
      BY <2>1, <3>1, <3>2, TableAssumption DEF NodesOK, HeadRecord
    <3>3. CASE n # HeadNode
      <4>1. n \in 2..Len(nodes)
        BY <2>1, <3>3 DEF HeadNode
      <4> QED
        BY <2>1, <3>1, <4>1 DEF NodesOK, NodeRecord
    <3> QED
      BY <3>2, <3>3
  <2>3. currentMaxLevel \in 1..MaxLevel /\ maxSequence \in Sequence \cup {0}
    BY TableAssumption DEF TableInv
  <2> QED
    BY <2>2, <2>3, CountersInRange DEF TableTypeOK
<1> QED
  BY <1>1, TableInvariant, PTL

\* memory_usage_ is the sum over the list, and size_ is the number of live
\* entries less the tombstones a Put brought back, for any modulus.
THEOREM TableCountersExact == Spec => []CountersExact
<1>1. TableInv => CountersExact
  <2> SUFFICES ASSUME TableInv PROVE CountersExact
    OBVIOUS
  <2>1. PICK L : Listed(nodes, L) /\ Charged(nodes, L, memoryUsage) /\ Walk = L
    BY WalkOfTable
  <2>2. memoryUsage = Memory(Walk) % SizeModulus
    BY <2>1, MemoryOfList DEF TableInv
  <2>3. size = (Cardinality(LiveEntries) - revived) % SizeModulus
    BY EntriesAreMap DEF TableInv
  <2> QED
    BY <2>2, <2>3 DEF CountersExact, Memory
<1> QED
  BY <1>1, TableInvariant, PTL

\* The nodes of the list not before key.
Behind(ns, L, key) == {i \in DOMAIN L : ~Before(ns[L[i]].key, key)}

\* They are the nodes behind the place of the key.
LEMMA NotBefore ==
  ASSUME NEW ns, NodesOK(ns), NEW L, Listed(ns, L), NEW key, NEW p, Split(ns, L, p, key)
  PROVE  At(L, p + 1) = IF Behind(ns, L, key) = {} THEN Null ELSE L[Min(Behind(ns, L, key))]
<1> DEFINE S == Behind(ns, L, key)
<1>1. /\ Len(L) \in Nat /\ DOMAIN L = 1..Len(L) /\ p \in 0..Len(L)
      /\ \A i \in 1..Len(L) : Before(ns[L[i]].key, key) <=> i <= p
  BY ListedNodes DEF Split
<1>2. S = {i \in 1..Len(L) : ~(i <= p)}
  BY <1>1 DEF Behind
<1> HIDE DEF S
<1>3. CASE p = Len(L)
  <2>1. S = {}
    BY <1>1, <1>2, <1>3
  <2>2. At(L, p + 1) = Null
    BY <1>1, <1>3 DEF At
  <2> QED
    BY <2>1, <2>2 DEF S
<1>4. CASE p # Len(L)
  <2> DEFINE l == Len(L)
  <2>1. p + 1 \in 1..l /\ ~(p + 1 <= p) /\ p + 1 # 0
    <3>1. l \in Nat /\ p \in 0..l /\ p # l
      BY <1>1, <1>4
    <3> HIDE DEF l
    <3> QED
      BY <3>1
  <2>2. p + 1 \in S /\ \A i \in S : p + 1 <= i /\ i \in Int
    BY <1>1, <1>2, <2>1
  <2>3. Min(S) = p + 1
    <3>1. Min(S) \in S /\ \A i \in S : Min(S) <= i
      BY <2>2 DEF Min
    <3>2. p + 1 <= Min(S) /\ Min(S) <= p + 1 /\ Min(S) \in Int
      BY <2>2, <3>1
    <3> QED
      BY <1>1, <3>2
  <2>4. At(L, p + 1) = L[p + 1]
    BY <2>1 DEF At
  <2>5. S # {} /\ At(L, p + 1) = L[Min(S)]
    BY <2>2, <2>3, <2>4
  <2> QED
    BY <2>5 DEF S
<1> QED
  BY <1>3, <1>4

\* Looking a key up finds its entry, and nothing when it has none.
LEMMA LookupFinds ==
  ASSUME TableInv, NEW L, Listed(nodes, L), NEW key \in Key
  PROVE  LET notBefore == {i \in DOMAIN L : ~Before(nodes[L[i]].key, key)}
         IN  /\ FindGreaterOrEqual(key).next = IF notBefore = {} THEN Null ELSE L[Min(notBefore)]
             /\ HasKey(key) <=> key \in DOMAIN MapOf(nodes)
             /\ Get(key) # << >> <=> \E n \in Live(nodes) : nodes[n].key = key
<1> DEFINE notBefore == {i \in DOMAIN L : ~Before(nodes[L[i]].key, key)}
           next == FindGreaterOrEqual(key).next
<1>1. NodesOK(nodes) /\ currentMaxLevel = 1 /\ key \in String
  BY TableAssumption DEF TableInv, String
<1>2. PICK p \in 0..Len(L) :
        /\ FindGreaterOrEqual(key) = StoppedAt(At(L, p))
        /\ FindGreaterOrEqual(key).next = At(L, p + 1)
        /\ Split(nodes, L, p, key)
        /\ Holds(At(L, p + 1), key) => At(L, p + 1) \in 2..Len(nodes)
        /\ ~Holds(At(L, p + 1), key) => \A i \in 1..Len(L) : nodes[L[i]].key # key
  BY <1>1, KeyFoundOrNew
<1>3. next = IF notBefore = {} THEN Null ELSE L[Min(notBefore)]
  <2>1. At(L, p + 1) = IF Behind(nodes, L, key) = {} THEN Null ELSE L[Min(Behind(nodes, L, key))]
    BY <1>1, <1>2, NotBefore
  <2> QED
    BY <1>2, <2>1 DEF Behind
<1>4. ASSUME ~Holds(next, key), NEW n \in 2..Len(nodes), nodes[n].key = key PROVE FALSE
  <2>1. PICK i \in 1..Len(L) : L[i] = n
    BY DEF Listed
  <2> QED
    BY <1>2, <1>4, <2>1
<1>5. Holds(next, key) => next \in 2..Len(nodes) /\ nodes[next].key = key
  BY <1>2 DEF Holds
<1>6. HasKey(key) <=> key \in DOMAIN MapOf(nodes)
  <2>1. key \in DOMAIN MapOf(nodes) <=> \E n \in 2..Len(nodes) : nodes[n].key = key
    BY DEF MapOf
  <2>2. HasKey(key) <=> Holds(next, key)
    BY DEF HasKey
  <2> HIDE DEF next
  <2> QED
    BY <1>4, <1>5, <2>1, <2>2
<1>7. Get(key) # << >> <=> \E n \in Live(nodes) : nodes[n].key = key
  <2>1. Get(key) = IF Holds(next, key) /\ ~nodes[next].deleted
                     THEN <<nodes[next].value, nodes[next].seq>> ELSE << >>
    BY DEF Get
  <2> HIDE DEF next
  <2>2. CASE Holds(next, key) /\ ~nodes[next].deleted
    <3>1. Get(key) # << >>
      BY <2>1, <2>2
    <3>2. next \in Live(nodes) /\ nodes[next].key = key
      BY <1>5, <2>2 DEF Live
    <3> QED
      BY <3>1, <3>2
  <2>3. CASE Holds(next, key) /\ nodes[next].deleted
    <3>1. Get(key) = << >>
      BY <2>1, <2>3
    <3>2. ASSUME NEW n \in Live(nodes), nodes[n].key = key PROVE FALSE
      <4>1. n \in 2..Len(nodes) /\ ~nodes[n].deleted
        BY DEF Live
      <4>2. PICK M : Listed(nodes, M)
        BY DEF TableInv
      <4>3. n = next
        BY <1>1, <1>5, <2>3, <3>2, <4>1, <4>2, KeysOnce
      <4> QED
        BY <2>3, <4>1, <4>3
    <3> QED
      BY <3>1, <3>2
  <2>4. CASE ~Holds(next, key)
    <3>1. Get(key) = << >>
      BY <2>1, <2>4
    <3>2. \A n \in Live(nodes) : nodes[n].key # key
      BY <1>4, <2>4 DEF Live
    <3> QED
      BY <3>1, <3>2
  <2> QED
    BY <2>2, <2>3, <2>4
<1> QED
  BY <1>3, <1>6, <1>7

\* Every key is where a search for it ends: the searches, Get and Contains
\* agree with the list along level 0, which is in order.
THEOREM TableLookups == Spec => []LookupsFindEntries
<1>1. TableInv => LookupsFindEntries
  <2> SUFFICES ASSUME TableInv PROVE LookupsFindEntries
    OBVIOUS
  <2>1. PICK L : Listed(nodes, L) /\ Walk = L
    BY WalkOfTable
  <2>2. NodesOK(nodes) /\ currentMaxLevel = 1 /\ Len(L) \in Nat /\ DOMAIN L = 1..Len(L)
        /\ L \in Seq(2..Len(nodes))
    BY <2>1, ListedNodes DEF TableInv, Listed
  <2>3. Verify
    <3> SUFFICES ASSUME NEW i \in 1..(Len(L) - 1)
                 PROVE  Before(nodes[L[i]].key, nodes[L[i + 1]].key)
      BY <2>1 DEF Verify
    <3>1. i \in 1..Len(L) /\ i + 1 \in 1..Len(L) /\ i < i + 1
      BY <2>2
    <3> QED
      BY <2>1, <3>1 DEF Listed
  <2>4. FindLast = IF Walk = << >> THEN HeadNode ELSE Last(Walk)
    <3>1. FindLast = At(L, Len(L))
      BY <2>1, <2>2, SearchFindsLast
    <3>2. L = << >> <=> Len(L) = 0
      BY <2>2
    <3>3. Len(L) # 0 => Last(L) = At(L, Len(L))
      BY <2>2 DEF At, Last
    <3>4. Len(L) = 0 => At(L, Len(L)) = HeadNode
      BY DEF At
    <3> QED
      BY <2>1, <3>1, <3>2, <3>3, <3>4
  <2>5. ASSUME NEW key \in Key
        PROVE  LET notBefore == {i \in DOMAIN Walk : ~Before(nodes[Walk[i]].key, key)}
               IN  /\ FindGreaterOrEqual(key).next =
                        IF notBefore = {} THEN Null ELSE Walk[Min(notBefore)]
                   /\ HasKey(key) <=> key \in DOMAIN Entries
                   /\ Get(key) # << >> <=> \E n \in LiveEntries : nodes[n].key = key
    <3>1. LET notBefore == {i \in DOMAIN L : ~Before(nodes[L[i]].key, key)}
          IN  /\ FindGreaterOrEqual(key).next = IF notBefore = {} THEN Null ELSE L[Min(notBefore)]
              /\ HasKey(key) <=> key \in DOMAIN MapOf(nodes)
              /\ Get(key) # << >> <=> \E n \in Live(nodes) : nodes[n].key = key
      BY <2>1, LookupFinds
    <3>2. L = Walk /\ MapOf(nodes) = Entries /\ Live(nodes) = LiveEntries
      BY <2>1, EntriesAreMap
    <3> QED
      BY <3>1, <3>2
  <2> QED
    BY <2>3, <2>4, <2>5 DEF LookupsFindEntries
<1> QED
  BY <1>1, TableInvariant, PTL

-----------------------------------------------------------------------------
(* The table as a map of newest writes.                                    *)

\* The map f with entry written under key.
WrittenTo(f, key, entry) ==
  [k \in DOMAIN f \cup {key} |-> IF k = key THEN entry ELSE f[k]]

\* ns2 differs from ns in the entry for key.
LEMMA MapWritten ==
  ASSUME NEW ns, NodesOK(ns), NEW L, Listed(ns, L),
         NEW ns2, NodesOK(ns2), NEW L2, Listed(ns2, L2), NEW key, NEW entry,
         NEW m \in 2..Len(ns2), ns2[m].key = key, EntryIn(ns2, m) = entry,
         Len(ns) <= Len(ns2),
         \A n \in 2..Len(ns) :
           ns2[n].key = ns[n].key /\ (ns[n].key # key => EntryIn(ns2, n) = EntryIn(ns, n)),
         \A n \in 2..Len(ns2) : n \in 2..Len(ns) \/ ns2[n].key = key
  PROVE  MapOf(ns2) = WrittenTo(MapOf(ns), key, entry)
<1> DEFINE f == MapOf(ns)
           g == MapOf(ns2)
<1>1. DOMAIN f = {ns[n].key : n \in 2..Len(ns)} /\ DOMAIN g = {ns2[n].key : n \in 2..Len(ns2)}
  BY DEF MapOf
<1>2. g = [k \in DOMAIN g |-> g[k]]
  BY DEF MapOf
<1>3. /\ \A n \in 2..Len(ns) : f[ns[n].key] = EntryIn(ns, n)
      /\ \A n \in 2..Len(ns2) : g[ns2[n].key] = EntryIn(ns2, n)
  BY MapHoldsNodes
<1> HIDE DEF f, g
<1>4. \A n \in 2..Len(ns) : n \in 2..Len(ns2)
  BY NodeTypes
<1>5. DOMAIN g = DOMAIN f \cup {key}
  BY <1>1, <1>4
<1>6. ASSUME NEW k \in DOMAIN g PROVE g[k] = IF k = key THEN entry ELSE f[k]
  <2>1. CASE k = key
    BY <1>3, <2>1
  <2>2. CASE k # key
    <3>1. PICK n \in 2..Len(ns2) : ns2[n].key = k
      BY <1>1
    <3>2. n \in 2..Len(ns) /\ ns[n].key = k /\ EntryIn(ns2, n) = EntryIn(ns, n)
      BY <2>2, <3>1
    <3>3. g[k] = EntryIn(ns2, n) /\ f[k] = EntryIn(ns, n)
      BY <1>3, <3>1, <3>2
    <3> QED
      BY <2>2, <3>2, <3>3
  <2> QED
    BY <2>1, <2>2
<1>7. g = [k \in DOMAIN f \cup {key} |-> IF k = key THEN entry ELSE f[k]]
  BY <1>2, <1>5, <1>6
<1> QED
  BY <1>7 DEF WrittenTo, f, g

\* Writing an entry again, as a step of the map.
LEMMA RewritesMap ==
  ASSUME TableInv, TableInv', NEW key \in Key, NEW value \in Value, NEW seq \in Sequence,
         NEW deleted \in BOOLEAN, deleted => value = Empty,
         Rewrites(key, value, seq, deleted)
  PROVE  MapOf(nodes') = WrittenTo(MapOf(nodes), key,
                           [value |-> value, seq |-> seq, deleted |-> deleted])
<1> DEFINE ns == nodes
           ns2 == nodes'
           entry == [value |-> value, seq |-> seq, deleted |-> deleted]
<1>1. PICK L : Listed(ns, L)
  BY DEF TableInv
<1>2. PICK L2 : Listed(ns2, L2)
  BY DEF TableInv
<1>3. NodesOK(ns) /\ NodesOK(ns2)
  BY DEF TableInv
<1>4. PICK m \in 2..Len(ns) : ns[m].key = key /\ ns2 = Rewritten(ns, m, value, seq, deleted)
  BY DEF Rewrites
<1> HIDE DEF ns, ns2
<1>5. /\ Len(ns2) = Len(ns) /\ Len(ns) \in Nat
      /\ \A n \in 1..Len(ns) : ns2[n].key = ns[n].key /\ ns2[n].forward = ns[n].forward
      /\ \A n \in 1..Len(ns) : n # m => ns2[n] = ns[n]
      /\ ns2[m].value = value /\ ns2[m].seq = seq /\ ns2[m].deleted = deleted
  BY <1>3, <1>4, RewrittenNodes, NodeTypes
<1>6. m \in 2..Len(ns2) /\ m \in 1..Len(ns)
  BY <1>5
<1>7. ns2[m].key = key /\ EntryIn(ns2, m) = entry
  BY <1>4, <1>5, <1>6 DEF EntryIn
<1>8. ASSUME NEW n \in 2..Len(ns)
      PROVE  ns2[n].key = ns[n].key /\ (ns[n].key # key => EntryIn(ns2, n) = EntryIn(ns, n))
  <2>1. n \in 1..Len(ns)
    BY <1>5
  <2> QED
    BY <1>4, <1>5, <2>1 DEF EntryIn
<1>9. Len(ns) <= Len(ns2) /\ \A n \in 2..Len(ns2) : n \in 2..Len(ns) \/ ns2[n].key = key
  BY <1>5
<1> HIDE DEF entry
<1>10. MapOf(ns2) = WrittenTo(MapOf(ns), key, entry)
  BY <1>1, <1>2, <1>3, <1>6, <1>7, <1>8, <1>9, MapWritten
<1> QED
  BY <1>10 DEF ns, ns2, entry

\* Linking a new entry, as a step of the map.
LEMMA LinksMap ==
  ASSUME TableInv, TableInv', NEW key \in Key, NEW value \in Value, NEW seq \in Sequence,
         NEW deleted \in BOOLEAN, deleted => value = Empty,
         Links(key, value, seq, deleted)
  PROVE  MapOf(nodes') = WrittenTo(MapOf(nodes), key,
                           [value |-> value, seq |-> seq, deleted |-> deleted])
<1> DEFINE ns == nodes
           ns2 == nodes'
           entry == [value |-> value, seq |-> seq, deleted |-> deleted]
           m == Len(ns) + 1
<1>1. PICK L, p : LinkedAt(ns, ns2, L, p, OneLevel(key, value, seq, deleted, At(L, p + 1)))
                  /\ Listed(ns, L)
  BY DEF Links
<1>2. PICK L2 : Listed(ns2, L2)
  BY DEF TableInv
<1>3. NodesOK(ns) /\ NodesOK(ns2)
  BY DEF TableInv
<1> HIDE DEF ns, ns2
<1>4. /\ Len(ns) \in Nat \ {0} /\ Len(ns2) = Len(ns) + 1
      /\ ns2[m] = OneLevel(key, value, seq, deleted, At(L, p + 1))
  <2>1. Len(ns) \in Nat \ {0}
    BY <1>3, NodeTypes
  <2> QED
    BY <1>1, <2>1 DEF LinkedAt
<1>5. \A n \in 1..Len(ns) : /\ ns2[n].key = ns[n].key /\ ns2[n].value = ns[n].value
                            /\ ns2[n].seq = ns[n].seq /\ ns2[n].deleted = ns[n].deleted
  BY <1>1, <1>3, LinkedNodes
<1>6. ns2[m].key = key /\ EntryIn(ns2, m) = entry
  BY <1>4 DEF EntryIn, OneLevel
<1>7. /\ m \in 2..Len(ns2) /\ Len(ns) <= Len(ns2)
      /\ \A n \in 2..Len(ns) : n \in 1..Len(ns)
      /\ \A n \in 2..Len(ns2) : n \in 2..Len(ns) \/ n = m
  BY <1>4
<1> HIDE DEF m, entry
<1>8. ASSUME NEW n \in 2..Len(ns)
      PROVE  ns2[n].key = ns[n].key /\ (ns[n].key # key => EntryIn(ns2, n) = EntryIn(ns, n))
  BY <1>5, <1>7 DEF EntryIn
<1>9. \A n \in 2..Len(ns2) : n \in 2..Len(ns) \/ ns2[n].key = key
  BY <1>6, <1>7
<1>10. MapOf(ns2) = WrittenTo(MapOf(ns), key, entry)
  BY <1>1, <1>2, <1>3, <1>6, <1>7, <1>8, <1>9, MapWritten
<1> QED
  BY <1>10 DEF ns, ns2, entry

\* A write is a Put or a Delete of the map, or the process is over.
LEMMA WritesMap ==
  ASSUME TableInv, TableInv', Entries = MapOf(nodes), Entries' = MapOf(nodes'),
         NEW key \in Key, NEW value \in Value, NEW seq \in Sequence,
         NEW deleted \in BOOLEAN, deleted => value = Empty,
         Writes(key, value, seq, deleted)
  PROVE  [Map!Next]_Map!mapVars
<1> DEFINE entry == [value |-> value, seq |-> seq, deleted |-> deleted]
<1>1. CASE Kills
  <2>1. UNCHANGED <<Entries, maxSequence>>
    BY <1>1 DEF Kills
  <2> QED
    BY <2>1 DEF Map!mapVars
<1>2. CASE /\ maxSequence' = Larger(maxSequence, seq)
           /\ Rewrites(key, value, seq, deleted) \/ Links(key, value, seq, deleted)
  <2>1. MapOf(nodes') = WrittenTo(MapOf(nodes), key, entry)
    BY <1>2, RewritesMap, LinksMap
  <2>2. Entries' = WrittenTo(Entries, key, entry)
    BY <2>1
  <2>3. maxSequence' = IF entry.seq > maxSequence THEN entry.seq ELSE maxSequence
    <3>1. maxSequence \in Nat /\ seq \in Nat
      BY TableAssumption DEF TableInv
    <3> QED
      BY <1>2, <3>1 DEF Larger
  <2>4. Map!Write(key, entry)
    BY <2>2, <2>3 DEF Map!Write, WrittenTo
  <2>5. CASE deleted
    <3>1. Map!Delete(key, seq)
      BY <2>4, <2>5 DEF Map!Delete
    <3> QED
      BY <3>1 DEF Map!Next
  <2>6. CASE ~deleted
    <3>1. entry = [value |-> value, seq |-> seq, deleted |-> FALSE]
      BY <2>6
    <3>2. Map!Put(key, value, seq)
      BY <2>4, <3>1 DEF Map!Put
    <3> QED
      BY <3>2 DEF Map!Next
  <2> QED
    BY <2>5, <2>6
<1> QED
  BY <1>1, <1>2 DEF Writes

\* Entries is the map of the nodes.
EntriesMatch == Entries = MapOf(nodes)

\* The memtable implements the map of newest writes: Put and Delete, in
\* place or as a new node, change the entry of their key and no other, and
\* what the flush does with the table changes nothing.
THEOREM TableImplementsMap == Spec => ImplementsTombstoneMap
<1>1. Init => Map!Init
  <2> SUFFICES ASSUME Init PROVE Map!Init
    OBVIOUS
  <2>1. TableInv /\ maxSequence = 0 /\ nodes = <<NewNode(Empty, Empty, MaxLevel + 1, 0, FALSE)>>
    BY TableStarts DEF Init, TableInit
  <2>2. Entries = MapOf(nodes)
    BY <2>1, EntriesAreMap
  <2>3. 2..Len(nodes) = {}
    BY <2>1
  <2>4. MapOf(nodes) = << >>
    BY <2>3 DEF MapOf
  <2> QED
    BY <2>1, <2>2, <2>4 DEF Map!Init
<1>2. TableInv => EntriesMatch
  BY EntriesAreMap DEF EntriesMatch
<1>3. TableInv /\ EntriesMatch /\ TableInv' /\ EntriesMatch' /\ [Next]_vars
      => [Map!Next]_(Map!mapVars)
  <2> SUFFICES ASSUME TableInv, EntriesMatch, TableInv', EntriesMatch', [Next]_vars
               PROVE  [Map!Next]_(Map!mapVars)
    OBVIOUS
  <2>0. Entries = MapOf(nodes) /\ Entries' = MapOf(nodes')
    BY DEF EntriesMatch
  <2>1. CASE UNCHANGED <<nodes, maxSequence>>
    BY <2>0, <2>1 DEF Map!mapVars
  <2>2. CASE UNCHANGED vars
    BY <2>1, <2>2 DEF vars, tableVars
  <2>3. CASE Next
    BY <2>0, <2>1, <2>3, TableSteps, WritesMap
  <2> QED
    BY <2>2, <2>3
<1> QED
  BY <1>1, <1>2, <1>3, TableInvariant, PTL DEF Spec, ImplementsTombstoneMap, Map!Spec

-----------------------------------------------------------------------------
(* What the builder's blocks are made of.                                  *)

BlockEntry == [shared : Nat, unshared : String, value : String, seq : Nat, deleted : BOOLEAN]

ClosedBlock == [entries : Seq(BlockEntry), restarts : Seq(Nat)]

IndexEntry == [key : String, offset : Nat, size : Nat]

ReadEntry == [key : String, value : String, seq : Nat, deleted : BOOLEAN]

AddSize(n, e) == n + EntrySize(e)

\* Sizes are numbers, and so are their sums.
LEMMA SizesAdd ==
  /\ 0 \in Nat
  /\ \A n \in Nat, e \in BlockEntry : AddSize(n, e) \in Nat
<1> SUFFICES ASSUME NEW n \in Nat, NEW e \in BlockEntry PROVE AddSize(n, e) \in Nat
  OBVIOUS
<1>1. e.unshared \in Seq(Nat) /\ e.value \in Seq(Nat)
  BY DEF BlockEntry, String
<1>2. Len(e.unshared) \in Nat /\ Len(e.value) \in Nat
  BY <1>1, LenProperties
<1>3. EntryHeader \in Nat
  BY BuilderAssumption
<1> DEFINE k == Len(e.unshared)
           v == Len(e.value)
<1>4. k \in Nat /\ v \in Nat /\ AddSize(n, e) = n + (EntryHeader + k + v)
  BY <1>2 DEF AddSize, EntrySize
<1> HIDE DEF k, v
<1> QED
  BY <1>3, <1>4

\* One entry more in a block.
SizeStep(s) ==
  [p \in Nat \X (Nat \ {0}) |-> IF p[2] \in DOMAIN s THEN AddSize(p[1], s[p[2]]) ELSE p[1]]

\* The sizes of the entries add up.
LEMMA SizeAccumulates ==
  ASSUME NEW s \in Seq(BlockEntry)
  PROVE  /\ SizeStep(s) \in [Nat \X (Nat \ {0}) -> Nat]
         /\ \A t \in Nat, m \in 1..Len(s) : SizeStep(s)[<<t, m>>] = AddSize(t, s[m])
         /\ \E acc : Accumulates(acc, 0, SizeStep(s), Len(s)) /\ Bytes(s) = acc[Len(s)]
<1> DEFINE step == SizeStep(s)
           Body(iter) == [u \in SUBSET (DOMAIN s) |->
                            IF u = {} THEN 0
                            ELSE AddSize(iter[u \ {Max(u)}], s[Max(u)])]
           It == CHOOSE iter : iter = Body(iter)
<1>1. Bytes(s) = It[DOMAIN s]
  BY DEF Bytes, FoldLeft, MapThenFoldSet, AddSize
<1>2. /\ Len(s) \in Nat /\ DOMAIN s = 1..Len(s)
      /\ \A i \in DOMAIN s : s[i] \in BlockEntry
  BY LenProperties, ElementOfSeq
<1>3. 0 \in Nat /\ \A t \in Nat, x \in BlockEntry : AddSize(t, x) \in Nat
  BY SizesAdd
<1>4. step \in [Nat \X (Nat \ {0}) -> Nat]
  <2>1. ASSUME NEW p \in Nat \X (Nat \ {0})
        PROVE  (IF p[2] \in DOMAIN s THEN AddSize(p[1], s[p[2]]) ELSE p[1]) \in Nat
    <3>1. p[1] \in Nat
      OBVIOUS
    <3> QED
      BY <1>2, <1>3, <3>1
  <2> QED
    BY <2>1, Zenon DEF SizeStep
<1>5. ASSUME NEW t \in Nat, NEW m \in 1..Len(s) PROVE step[<<t, m>>] = AddSize(t, s[m])
  <2>1. <<t, m>> \in Nat \X (Nat \ {0}) /\ m \in DOMAIN s
    BY <1>2
  <2> QED
    BY <2>1 DEF SizeStep
<1> HIDE DEF step
<1>6. ASSUME NEW u \in SUBSET (1..Len(s)), u # {}, NEW f, f[u \ {Max(u)}] \in Nat
      PROVE  step[<<f[u \ {Max(u)}], Max(u)>>] = Body(f)[u]
  <2>1. Max(u) \in 1..Len(s)
    BY <1>2, <1>6, MaxOfPositions
  <2>2. u \in SUBSET (DOMAIN s)
    BY <1>2
  <2> QED
    BY <1>5, <1>6, <2>1, <2>2
<1>7. ASSUME NEW f, f = Body(f) PROVE FoldsFrom(Nat, f, 0, step, Len(s))
  <2>1. ASSUME NEW u \in SUBSET (1..Len(s)), u # {}, f[u \ {Max(u)}] \in Nat
        PROVE  f[u] = step[<<f[u \ {Max(u)}], Max(u)>>]
    <3>1. f[u] = Body(f)[u]
      BY <1>7
    <3> HIDE DEF Body
    <3> QED
      BY <1>6, <2>1, <3>1
  <2>2. f[{}] = 0
    BY <1>2, <1>7
  <2> HIDE DEF Body
  <2> QED
    BY <2>1, <2>2 DEF FoldsFrom
<1>8. PICK it \in [SUBSET (1..Len(s)) -> Nat] : Folds(it, 0, step, Len(s))
  BY <1>2, <1>3, <1>4, FoldsExist
<1>9. it = Body(it)
  <2>1. ASSUME NEW u \in SUBSET (1..Len(s)) PROVE it[u] = Body(it)[u]
    <3>1. CASE u = {}
      <4>1. it[u] = 0
        BY <1>8, <3>1 DEF Folds
      <4> QED
        BY <1>2, <3>1, <4>1
    <3>2. CASE u # {}
      <4>1. it[u \ {Max(u)}] \in Nat
        OBVIOUS
      <4>2. it[u] = step[<<it[u \ {Max(u)}], Max(u)>>]
        BY <1>8, <3>2 DEF Folds
      <4> HIDE DEF Body
      <4> QED
        BY <1>6, <3>2, <4>1, <4>2
    <3> QED
      BY <3>1, <3>2
  <2>2. Body(it) = [u \in SUBSET (1..Len(s)) |-> Body(it)[u]]
    BY <1>2
  <2> HIDE DEF Body
  <2> QED
    BY <2>1, <2>2
<1> HIDE DEF Body
<1>10. It = Body(It)
  BY <1>9
<1> HIDE DEF It
<1>11. FoldsFrom(Nat, It, 0, step, Len(s))
  BY <1>7, <1>10
<1> DEFINE acc == [m \in 0..Len(s) |-> It[1..m]]
<1>12. Bytes(s) = acc[Len(s)]
  BY <1>1, <1>2
<1>13. acc = [m \in 0..Len(s) |-> It[1..m]] /\ Len(s) \in Nat
  BY <1>2
<1> HIDE DEF acc
<1>14. Accumulates(acc, 0, step, Len(s))
  BY <1>3, <1>4, <1>11, <1>13, FoldsAccumulate
<1>15. Accumulates(acc, 0, SizeStep(s), Len(s))
  BY <1>14 DEF step
<1> QED
  BY <1>4, <1>5, <1>12, <1>15 DEF step

\* The bytes of a block, entry by entry.
LEMMA SizeFolds ==
  ASSUME NEW s \in Seq(BlockEntry), NEW e \in BlockEntry
  PROVE  Bytes(<< >>) = 0 /\ Bytes(s) \in Nat /\ Bytes(Append(s, e)) = AddSize(Bytes(s), e)
<1> DEFINE g == Append(s, e)
           n == Len(s)
<1>1. /\ n \in Nat /\ g \in Seq(BlockEntry) /\ Len(g) = n + 1
      /\ \A i \in 1..n : g[i] = s[i]
      /\ g[n + 1] = e
  BY LenProperties, AppendProperties
<1> HIDE DEF g
<1>2. Bytes(<< >>) = 0
  <2>1. << >> \in Seq(BlockEntry) /\ Len(<< >>) = 0
    BY EmptySeq
  <2>2. PICK acc : Accumulates(acc, 0, SizeStep(<< >>), Len(<< >>)) /\ Bytes(<< >>) = acc[Len(<< >>)]
    BY <2>1, SizeAccumulates
  <2> QED
    BY <2>1, <2>2 DEF Accumulates
<1>3. PICK b : Accumulates(b, 0, SizeStep(g), n + 1) /\ Bytes(g) = b[n + 1]
  BY <1>1, SizeAccumulates
<1>4. PICK a : Accumulates(a, 0, SizeStep(s), n) /\ Bytes(s) = a[n]
  BY SizeAccumulates
<1>5. /\ SizeStep(s) \in [Nat \X (Nat \ {0}) -> Nat]
      /\ SizeStep(g) \in [Nat \X (Nat \ {0}) -> Nat]
      /\ \A t \in Nat, m \in 1..n : SizeStep(s)[<<t, m>>] = AddSize(t, s[m])
      /\ \A t \in Nat, m \in 1..Len(g) : SizeStep(g)[<<t, m>>] = AddSize(t, g[m])
  BY <1>1, SizeAccumulates
<1>6. SameSteps(Nat, SizeStep(s), SizeStep(g), n)
  <2>1. ASSUME NEW t \in Nat, NEW m \in 1..n PROVE SizeStep(s)[<<t, m>>] = SizeStep(g)[<<t, m>>]
    <3>1. m \in 1..Len(g) /\ g[m] = s[m]
      BY <1>1
    <3> QED
      BY <1>5, <3>1
  <2> QED
    BY <2>1 DEF SameSteps
<1>7. 0 \in Nat
  BY SizesAdd
<1> HIDE DEF n
<1>8. a[n] \in Nat /\ b[n + 1] = SizeStep(g)[<<a[n], n + 1>>]
  <2> DEFINE f == SizeStep(s)
             h == SizeStep(g)
  <2>1. Accumulates(b, 0, h, n) /\ b[n + 1] = h[<<b[(n + 1) - 1], n + 1>>]
    BY <1>1, <1>3 DEF Accumulates
  <2>2. f \in [Nat \X (Nat \ {0}) -> Nat] /\ h \in [Nat \X (Nat \ {0}) -> Nat]
        /\ n \in Nat
    BY <1>1, <1>5
  <2>3. SameSteps(Nat, f, h, n) /\ Accumulates(a, 0, f, n)
    BY <1>4, <1>6
  <2> HIDE DEF f, h
  <2>4. \A m \in 0..n : a[m] = b[m] /\ a[m] \in Nat
    BY <1>7, <2>1, <2>2, <2>3, AccumulationUnique
  <2>5. n \in 0..n /\ (n + 1) - 1 = n
    BY <1>1
  <2> QED
    BY <2>1, <2>4, <2>5 DEF h
<1>9. SizeStep(g)[<<a[n], n + 1>>] = AddSize(a[n], e)
  <2>1. n + 1 \in 1..Len(g) /\ g[n + 1] = e
    BY <1>1
  <2> QED
    BY <1>5, <1>8, <2>1
<1> QED
  BY <1>2, <1>3, <1>4, <1>8, <1>9 DEF g

Joined(es, block) == es \o block.entries

\* The entries of blocks are entries.
LEMMA BlocksJoin ==
  /\ << >> \in Seq(BlockEntry)
  /\ \A es \in Seq(BlockEntry), block \in ClosedBlock : Joined(es, block) \in Seq(BlockEntry)
<1> SUFFICES ASSUME NEW es \in Seq(BlockEntry), NEW block \in ClosedBlock
             PROVE  Joined(es, block) \in Seq(BlockEntry)
  BY EmptySeq
<1>1. block.entries \in Seq(BlockEntry)
  BY DEF ClosedBlock
<1> QED
  BY <1>1, ConcatProperties DEF Joined

\* One block more in a file.
EntriesStep(s) ==
  [p \in Seq(BlockEntry) \X (Nat \ {0}) |-> IF p[2] \in DOMAIN s THEN Joined(p[1], s[p[2]]) ELSE p[1]]

\* The entries of the blocks follow each other.
LEMMA EntriesAccumulates ==
  ASSUME NEW s \in Seq(ClosedBlock)
  PROVE  /\ EntriesStep(s) \in [Seq(BlockEntry) \X (Nat \ {0}) -> Seq(BlockEntry)]
         /\ \A t \in Seq(BlockEntry), m \in 1..Len(s) : EntriesStep(s)[<<t, m>>] = Joined(t, s[m])
         /\ \E acc : Accumulates(acc, << >>, EntriesStep(s), Len(s)) /\ EntriesIn(s) = acc[Len(s)]
<1> DEFINE step == EntriesStep(s)
           Body(iter) == [u \in SUBSET (DOMAIN s) |->
                            IF u = {} THEN << >>
                            ELSE Joined(iter[u \ {Max(u)}], s[Max(u)])]
           It == CHOOSE iter : iter = Body(iter)
<1>1. EntriesIn(s) = It[DOMAIN s]
  BY DEF EntriesIn, FoldLeft, MapThenFoldSet, Joined
<1>2. /\ Len(s) \in Nat /\ DOMAIN s = 1..Len(s)
      /\ \A i \in DOMAIN s : s[i] \in ClosedBlock
  BY LenProperties, ElementOfSeq
<1>3. /\ << >> \in Seq(BlockEntry)
      /\ \A t \in Seq(BlockEntry), x \in ClosedBlock : Joined(t, x) \in Seq(BlockEntry)
  BY BlocksJoin
<1>4. step \in [Seq(BlockEntry) \X (Nat \ {0}) -> Seq(BlockEntry)]
  <2>1. ASSUME NEW p \in Seq(BlockEntry) \X (Nat \ {0})
        PROVE  (IF p[2] \in DOMAIN s THEN Joined(p[1], s[p[2]]) ELSE p[1]) \in Seq(BlockEntry)
    <3>1. p[1] \in Seq(BlockEntry)
      OBVIOUS
    <3> QED
      BY <1>2, <1>3, <3>1
  <2> QED
    BY <2>1, Zenon DEF EntriesStep
<1>5. ASSUME NEW t \in Seq(BlockEntry), NEW m \in 1..Len(s) PROVE step[<<t, m>>] = Joined(t, s[m])
  <2>1. <<t, m>> \in Seq(BlockEntry) \X (Nat \ {0}) /\ m \in DOMAIN s
    BY <1>2
  <2> QED
    BY <2>1 DEF EntriesStep
<1> HIDE DEF step
<1>6. ASSUME NEW u \in SUBSET (1..Len(s)), u # {}, NEW f, f[u \ {Max(u)}] \in Seq(BlockEntry)
      PROVE  step[<<f[u \ {Max(u)}], Max(u)>>] = Body(f)[u]
  <2>1. Max(u) \in 1..Len(s)
    BY <1>2, <1>6, MaxOfPositions
  <2>2. u \in SUBSET (DOMAIN s)
    BY <1>2
  <2> QED
    BY <1>5, <1>6, <2>1, <2>2
<1>7. ASSUME NEW f, f = Body(f) PROVE FoldsFrom(Seq(BlockEntry), f, << >>, step, Len(s))
  <2>1. ASSUME NEW u \in SUBSET (1..Len(s)), u # {}, f[u \ {Max(u)}] \in Seq(BlockEntry)
        PROVE  f[u] = step[<<f[u \ {Max(u)}], Max(u)>>]
    <3>1. f[u] = Body(f)[u]
      BY <1>7
    <3> HIDE DEF Body
    <3> QED
      BY <1>6, <2>1, <3>1
  <2>2. f[{}] = << >>
    BY <1>2, <1>7
  <2> HIDE DEF Body
  <2> QED
    BY <2>1, <2>2 DEF FoldsFrom
<1>8. PICK it \in [SUBSET (1..Len(s)) -> Seq(BlockEntry)] : Folds(it, << >>, step, Len(s))
  BY <1>2, <1>3, <1>4, FoldsExist
<1>9. it = Body(it)
  <2>1. ASSUME NEW u \in SUBSET (1..Len(s)) PROVE it[u] = Body(it)[u]
    <3>1. CASE u = {}
      <4>1. it[u] = << >>
        BY <1>8, <3>1 DEF Folds
      <4> QED
        BY <1>2, <3>1, <4>1
    <3>2. CASE u # {}
      <4>1. it[u \ {Max(u)}] \in Seq(BlockEntry)
        OBVIOUS
      <4>2. it[u] = step[<<it[u \ {Max(u)}], Max(u)>>]
        BY <1>8, <3>2 DEF Folds
      <4> HIDE DEF Body
      <4> QED
        BY <1>6, <3>2, <4>1, <4>2
    <3> QED
      BY <3>1, <3>2
  <2>2. Body(it) = [u \in SUBSET (1..Len(s)) |-> Body(it)[u]]
    BY <1>2
  <2> HIDE DEF Body
  <2> QED
    BY <2>1, <2>2
<1> HIDE DEF Body
<1>10. It = Body(It)
  BY <1>9
<1> HIDE DEF It
<1>11. FoldsFrom(Seq(BlockEntry), It, << >>, step, Len(s))
  BY <1>7, <1>10
<1> DEFINE acc == [m \in 0..Len(s) |-> It[1..m]]
<1>12. EntriesIn(s) = acc[Len(s)]
  BY <1>1, <1>2
<1>13. acc = [m \in 0..Len(s) |-> It[1..m]] /\ Len(s) \in Nat
  BY <1>2
<1> HIDE DEF acc
<1>14. Accumulates(acc, << >>, step, Len(s))
  BY <1>3, <1>4, <1>11, <1>13, FoldsAccumulate
<1>15. Accumulates(acc, << >>, EntriesStep(s), Len(s))
  BY <1>14 DEF step
<1> QED
  BY <1>4, <1>5, <1>12, <1>15 DEF step

\* The entries of a file, block by block.
LEMMA EntriesFolds ==
  ASSUME NEW s \in Seq(ClosedBlock), NEW e \in ClosedBlock
  PROVE  /\ EntriesIn(<< >>) = << >>
         /\ EntriesIn(s) \in Seq(BlockEntry)
         /\ EntriesIn(Append(s, e)) = Joined(EntriesIn(s), e)
<1> DEFINE g == Append(s, e)
           n == Len(s)
<1>1. /\ n \in Nat /\ g \in Seq(ClosedBlock) /\ Len(g) = n + 1
      /\ \A i \in 1..n : g[i] = s[i]
      /\ g[n + 1] = e
  BY LenProperties, AppendProperties
<1> HIDE DEF g
<1>2. EntriesIn(<< >>) = << >>
  <2>1. << >> \in Seq(ClosedBlock) /\ Len(<< >>) = 0
    BY EmptySeq
  <2>2. PICK acc : /\ Accumulates(acc, << >>, EntriesStep(<< >>), Len(<< >>))
                   /\ EntriesIn(<< >>) = acc[Len(<< >>)]
    BY <2>1, EntriesAccumulates
  <2> QED
    BY <2>1, <2>2 DEF Accumulates
<1>3. PICK b : Accumulates(b, << >>, EntriesStep(g), n + 1) /\ EntriesIn(g) = b[n + 1]
  BY <1>1, EntriesAccumulates
<1>4. PICK a : Accumulates(a, << >>, EntriesStep(s), n) /\ EntriesIn(s) = a[n]
  BY EntriesAccumulates
<1>5. /\ EntriesStep(s) \in [Seq(BlockEntry) \X (Nat \ {0}) -> Seq(BlockEntry)]
      /\ EntriesStep(g) \in [Seq(BlockEntry) \X (Nat \ {0}) -> Seq(BlockEntry)]
      /\ \A t \in Seq(BlockEntry), m \in 1..n : EntriesStep(s)[<<t, m>>] = Joined(t, s[m])
      /\ \A t \in Seq(BlockEntry), m \in 1..Len(g) : EntriesStep(g)[<<t, m>>] = Joined(t, g[m])
  BY <1>1, EntriesAccumulates
<1>6. SameSteps(Seq(BlockEntry), EntriesStep(s), EntriesStep(g), n)
  <2>1. ASSUME NEW t \in Seq(BlockEntry), NEW m \in 1..n
        PROVE  EntriesStep(s)[<<t, m>>] = EntriesStep(g)[<<t, m>>]
    <3>1. m \in 1..Len(g) /\ g[m] = s[m]
      BY <1>1
    <3> QED
      BY <1>5, <3>1
  <2> QED
    BY <2>1 DEF SameSteps
<1>7. << >> \in Seq(BlockEntry)
  BY BlocksJoin
<1> HIDE DEF n
<1>8. a[n] \in Seq(BlockEntry) /\ b[n + 1] = EntriesStep(g)[<<a[n], n + 1>>]
  <2> DEFINE f == EntriesStep(s)
             h == EntriesStep(g)
  <2>1. Accumulates(b, << >>, h, n) /\ b[n + 1] = h[<<b[(n + 1) - 1], n + 1>>]
    BY <1>1, <1>3 DEF Accumulates
  <2>2. /\ f \in [Seq(BlockEntry) \X (Nat \ {0}) -> Seq(BlockEntry)]
        /\ h \in [Seq(BlockEntry) \X (Nat \ {0}) -> Seq(BlockEntry)]
        /\ n \in Nat
    BY <1>1, <1>5
  <2>3. SameSteps(Seq(BlockEntry), f, h, n) /\ Accumulates(a, << >>, f, n)
    BY <1>4, <1>6
  <2> HIDE DEF f, h
  <2>4. \A m \in 0..n : a[m] = b[m] /\ a[m] \in Seq(BlockEntry)
    BY <1>7, <2>1, <2>2, <2>3, AccumulationUnique
  <2>5. n \in 0..n /\ (n + 1) - 1 = n
    BY <1>1
  <2> QED
    BY <2>1, <2>4, <2>5 DEF h
<1>9. EntriesStep(g)[<<a[n], n + 1>>] = Joined(a[n], e)
  <2>1. n + 1 \in 1..Len(g) /\ g[n + 1] = e
    BY <1>1
  <2> QED
    BY <1>5, <1>8, <2>1
<1> QED
  BY <1>2, <1>3, <1>4, <1>8, <1>9 DEF g

\* Reading entries in order.
Reading(es) == FoldLeft(DecodeNext, << >>, es)

\* The key that the next one is completed from.
KeyBefore(done) == IF done = << >> THEN Empty ELSE Last(done).key

\* As much of it as entry e asks for.
Kept(done, e) ==
  IF e.shared <= Len(KeyBefore(done)) THEN SubSeq(KeyBefore(done), 1, e.shared) ELSE KeyBefore(done)

\* What is read are keys and values.
LEMMA ReadingStays ==
  /\ << >> \in Seq(ReadEntry)
  /\ \A done \in Seq(ReadEntry), e \in BlockEntry : DecodeNext(done, e) \in Seq(ReadEntry)
<1> SUFFICES ASSUME NEW done \in Seq(ReadEntry), NEW e \in BlockEntry
             PROVE  DecodeNext(done, e) \in Seq(ReadEntry)
  BY EmptySeq
<1> DEFINE before == KeyBefore(done)
<1>1. before \in Seq(Nat)
  <2>1. CASE done = << >>
    BY <2>1 DEF KeyBefore, Empty
  <2>2. CASE done # << >>
    <3>1. Last(done) \in ReadEntry
      BY <2>2 DEF Last
    <3> QED
      BY <2>2, <3>1 DEF KeyBefore, ReadEntry, String
  <2> QED
    BY <2>1, <2>2
<1> HIDE DEF before
<1>2. Kept(done, e) \in Seq(Nat)
  <2>1. e.shared \in Nat /\ Len(before) \in Nat
    BY <1>1 DEF BlockEntry
  <2>2. CASE e.shared <= Len(before)
    <3>1. \A i \in 1..e.shared : before[i] \in Nat
      <4>1. \A i \in 1..e.shared : i \in 1..Len(before)
        BY <2>1, <2>2
      <4> QED
        BY <1>1, <4>1
    <3>2. SubSeq(before, 1, e.shared) \in Seq(Nat)
      BY <2>1, <2>2, <1>1, <3>1
    <3> QED
      BY <2>2, <3>2 DEF Kept, before
  <2>3. CASE ~(e.shared <= Len(before))
    BY <1>1, <2>3 DEF Kept, before
  <2> QED
    BY <2>2, <2>3
<1> DEFINE read == [key |-> Kept(done, e) \o e.unshared,
                    value |-> e.value, seq |-> e.seq, deleted |-> e.deleted]
<1>3. read \in ReadEntry
  <2>1. e.unshared \in Seq(Nat)
    BY DEF BlockEntry, String
  <2>2. Kept(done, e) \o e.unshared \in Seq(Nat)
    BY <1>2, <2>1, ConcatProperties
  <2> QED
    BY <2>2 DEF ReadEntry, BlockEntry, String
<1>4. DecodeNext(done, e) = Append(done, read)
  BY DEF DecodeNext, Kept, KeyBefore
<1> HIDE DEF read
<1> QED
  BY <1>3, <1>4, AppendProperties

\* One entry more is read.
ReadingStep(s) ==
  [p \in Seq(ReadEntry) \X (Nat \ {0}) |-> IF p[2] \in DOMAIN s THEN DecodeNext(p[1], s[p[2]]) ELSE p[1]]

\* What is read is completed from what was read before.
LEMMA ReadingAccumulates ==
  ASSUME NEW s \in Seq(BlockEntry)
  PROVE  /\ ReadingStep(s) \in [Seq(ReadEntry) \X (Nat \ {0}) -> Seq(ReadEntry)]
         /\ \A t \in Seq(ReadEntry), m \in 1..Len(s) : ReadingStep(s)[<<t, m>>] = DecodeNext(t, s[m])
         /\ \E acc : Accumulates(acc, << >>, ReadingStep(s), Len(s)) /\ Reading(s) = acc[Len(s)]
<1> DEFINE step == ReadingStep(s)
           Body(iter) == [u \in SUBSET (DOMAIN s) |->
                            IF u = {} THEN << >>
                            ELSE DecodeNext(iter[u \ {Max(u)}], s[Max(u)])]
           It == CHOOSE iter : iter = Body(iter)
<1>1. Reading(s) = It[DOMAIN s]
  BY DEF Reading, FoldLeft, MapThenFoldSet, DecodeNext
<1>2. /\ Len(s) \in Nat /\ DOMAIN s = 1..Len(s)
      /\ \A i \in DOMAIN s : s[i] \in BlockEntry
  BY LenProperties, ElementOfSeq
<1>3. /\ << >> \in Seq(ReadEntry)
      /\ \A t \in Seq(ReadEntry), x \in BlockEntry : DecodeNext(t, x) \in Seq(ReadEntry)
  BY ReadingStays
<1>4. step \in [Seq(ReadEntry) \X (Nat \ {0}) -> Seq(ReadEntry)]
  <2>1. ASSUME NEW p \in Seq(ReadEntry) \X (Nat \ {0})
        PROVE  (IF p[2] \in DOMAIN s THEN DecodeNext(p[1], s[p[2]]) ELSE p[1]) \in Seq(ReadEntry)
    <3>1. p[1] \in Seq(ReadEntry)
      OBVIOUS
    <3> QED
      BY <1>2, <1>3, <3>1
  <2> QED
    BY <2>1, Zenon DEF ReadingStep
<1>5. ASSUME NEW t \in Seq(ReadEntry), NEW m \in 1..Len(s) PROVE step[<<t, m>>] = DecodeNext(t, s[m])
  <2>1. <<t, m>> \in Seq(ReadEntry) \X (Nat \ {0}) /\ m \in DOMAIN s
    BY <1>2
  <2> QED
    BY <2>1 DEF ReadingStep
<1> HIDE DEF step
<1>6. ASSUME NEW u \in SUBSET (1..Len(s)), u # {}, NEW f, f[u \ {Max(u)}] \in Seq(ReadEntry)
      PROVE  step[<<f[u \ {Max(u)}], Max(u)>>] = Body(f)[u]
  <2>1. Max(u) \in 1..Len(s)
    BY <1>2, <1>6, MaxOfPositions
  <2>2. u \in SUBSET (DOMAIN s)
    BY <1>2
  <2> QED
    BY <1>5, <1>6, <2>1, <2>2
<1>7. ASSUME NEW f, f = Body(f) PROVE FoldsFrom(Seq(ReadEntry), f, << >>, step, Len(s))
  <2>1. ASSUME NEW u \in SUBSET (1..Len(s)), u # {}, f[u \ {Max(u)}] \in Seq(ReadEntry)
        PROVE  f[u] = step[<<f[u \ {Max(u)}], Max(u)>>]
    <3>1. f[u] = Body(f)[u]
      BY <1>7
    <3> HIDE DEF Body
    <3> QED
      BY <1>6, <2>1, <3>1
  <2>2. f[{}] = << >>
    BY <1>2, <1>7
  <2> HIDE DEF Body
  <2> QED
    BY <2>1, <2>2 DEF FoldsFrom
<1>8. PICK it \in [SUBSET (1..Len(s)) -> Seq(ReadEntry)] : Folds(it, << >>, step, Len(s))
  BY <1>2, <1>3, <1>4, FoldsExist
<1>9. it = Body(it)
  <2>1. ASSUME NEW u \in SUBSET (1..Len(s)) PROVE it[u] = Body(it)[u]
    <3>1. CASE u = {}
      <4>1. it[u] = << >>
        BY <1>8, <3>1 DEF Folds
      <4> QED
        BY <1>2, <3>1, <4>1
    <3>2. CASE u # {}
      <4>1. it[u \ {Max(u)}] \in Seq(ReadEntry)
        OBVIOUS
      <4>2. it[u] = step[<<it[u \ {Max(u)}], Max(u)>>]
        BY <1>8, <3>2 DEF Folds
      <4> HIDE DEF Body
      <4> QED
        BY <1>6, <3>2, <4>1, <4>2
    <3> QED
      BY <3>1, <3>2
  <2>2. Body(it) = [u \in SUBSET (1..Len(s)) |-> Body(it)[u]]
    BY <1>2
  <2> HIDE DEF Body
  <2> QED
    BY <2>1, <2>2
<1> HIDE DEF Body
<1>10. It = Body(It)
  BY <1>9
<1> HIDE DEF It
<1>11. FoldsFrom(Seq(ReadEntry), It, << >>, step, Len(s))
  BY <1>7, <1>10
<1> DEFINE acc == [m \in 0..Len(s) |-> It[1..m]]
<1>12. Reading(s) = acc[Len(s)]
  BY <1>1, <1>2
<1>13. acc = [m \in 0..Len(s) |-> It[1..m]] /\ Len(s) \in Nat
  BY <1>2
<1> HIDE DEF acc
<1>14. Accumulates(acc, << >>, step, Len(s))
  BY <1>3, <1>4, <1>11, <1>13, FoldsAccumulate
<1>15. Accumulates(acc, << >>, ReadingStep(s), Len(s))
  BY <1>14 DEF step
<1> QED
  BY <1>4, <1>5, <1>12, <1>15 DEF step

\* What a reader gets, entry by entry.
LEMMA ReadingFolds ==
  ASSUME NEW s \in Seq(BlockEntry), NEW e \in BlockEntry
  PROVE  /\ Reading(<< >>) = << >>
         /\ Reading(s) \in Seq(ReadEntry)
         /\ Reading(Append(s, e)) = DecodeNext(Reading(s), e)
<1> DEFINE g == Append(s, e)
           n == Len(s)
<1>1. /\ n \in Nat /\ g \in Seq(BlockEntry) /\ Len(g) = n + 1
      /\ \A i \in 1..n : g[i] = s[i]
      /\ g[n + 1] = e
  BY LenProperties, AppendProperties
<1> HIDE DEF g
<1>2. Reading(<< >>) = << >>
  <2>1. << >> \in Seq(BlockEntry) /\ Len(<< >>) = 0
    BY EmptySeq
  <2>2. PICK acc : /\ Accumulates(acc, << >>, ReadingStep(<< >>), Len(<< >>))
                   /\ Reading(<< >>) = acc[Len(<< >>)]
    BY <2>1, ReadingAccumulates
  <2> QED
    BY <2>1, <2>2 DEF Accumulates
<1>3. PICK b : Accumulates(b, << >>, ReadingStep(g), n + 1) /\ Reading(g) = b[n + 1]
  BY <1>1, ReadingAccumulates
<1>4. PICK a : Accumulates(a, << >>, ReadingStep(s), n) /\ Reading(s) = a[n]
  BY ReadingAccumulates
<1>5. /\ ReadingStep(s) \in [Seq(ReadEntry) \X (Nat \ {0}) -> Seq(ReadEntry)]
      /\ ReadingStep(g) \in [Seq(ReadEntry) \X (Nat \ {0}) -> Seq(ReadEntry)]
      /\ \A t \in Seq(ReadEntry), m \in 1..n : ReadingStep(s)[<<t, m>>] = DecodeNext(t, s[m])
      /\ \A t \in Seq(ReadEntry), m \in 1..Len(g) : ReadingStep(g)[<<t, m>>] = DecodeNext(t, g[m])
  BY <1>1, ReadingAccumulates
<1>6. SameSteps(Seq(ReadEntry), ReadingStep(s), ReadingStep(g), n)
  <2>1. ASSUME NEW t \in Seq(ReadEntry), NEW m \in 1..n
        PROVE  ReadingStep(s)[<<t, m>>] = ReadingStep(g)[<<t, m>>]
    <3>1. m \in 1..Len(g) /\ g[m] = s[m]
      BY <1>1
    <3> QED
      BY <1>5, <3>1
  <2> QED
    BY <2>1 DEF SameSteps
<1>7. << >> \in Seq(ReadEntry)
  BY ReadingStays
<1> HIDE DEF n
<1>8. a[n] \in Seq(ReadEntry) /\ b[n + 1] = ReadingStep(g)[<<a[n], n + 1>>]
  <2> DEFINE f == ReadingStep(s)
             h == ReadingStep(g)
  <2>1. Accumulates(b, << >>, h, n) /\ b[n + 1] = h[<<b[(n + 1) - 1], n + 1>>]
    BY <1>1, <1>3 DEF Accumulates
  <2>2. /\ f \in [Seq(ReadEntry) \X (Nat \ {0}) -> Seq(ReadEntry)]
        /\ h \in [Seq(ReadEntry) \X (Nat \ {0}) -> Seq(ReadEntry)]
        /\ n \in Nat
    BY <1>1, <1>5
  <2>3. SameSteps(Seq(ReadEntry), f, h, n) /\ Accumulates(a, << >>, f, n)
    BY <1>4, <1>6
  <2> HIDE DEF f, h
  <2>4. \A m \in 0..n : a[m] = b[m] /\ a[m] \in Seq(ReadEntry)
    BY <1>7, <2>1, <2>2, <2>3, AccumulationUnique
  <2>5. n \in 0..n /\ (n + 1) - 1 = n
    BY <1>1
  <2> QED
    BY <2>1, <2>4, <2>5 DEF h
<1>9. ReadingStep(g)[<<a[n], n + 1>>] = DecodeNext(a[n], e)
  <2>1. n + 1 \in 1..Len(g) /\ g[n + 1] = e
    BY <1>1
  <2> QED
    BY <1>5, <1>8, <2>1
<1> QED
  BY <1>2, <1>3, <1>4, <1>8, <1>9 DEF g

-----------------------------------------------------------------------------
(* Keys, shortened and completed.                                          *)

\* A string begins with any of its first parts.
LEMMA FirstParts ==
  ASSUME NEW a \in String, NEW n \in 0..Len(a)
  PROVE  SubSeq(a, 1, n) \in String /\ Len(SubSeq(a, 1, n)) = n /\ IsPrefix(SubSeq(a, 1, n), a)
<1>1. n \in Int /\ Len(a) \in Nat /\ \A i \in 1..n : a[i] \in Nat
  BY DEF String
<1>2. /\ SubSeq(a, 1, n) \in Seq(Nat)
      /\ Len(SubSeq(a, 1, n)) = IF 1 <= n THEN n - 1 + 1 ELSE 0
  BY <1>1, SubSeqProperties
<1>3. Len(SubSeq(a, 1, n)) = n
  BY <1>1, <1>2
<1> DEFINE p == SubSeq(a, 1, n)
<1>4. SubSeq(p, 1, Len(p)) = p
  BY <1>2, SubSeqFull
<1> QED
  BY <1>1, <1>2, <1>3, <1>4 DEF IsPrefix, String

\* What the longest common prefix of two keys is.
LEMMA SharedLetters ==
  ASSUME NEW a \in String, NEW b \in String, NEW n, n = Len(LongestCommonPrefix({a, b}))
  PROVE  n \in 0..Len(a) /\ n \in 0..Len(b) /\ SubSeq(a, 1, n) = SubSeq(b, 1, n)
<1> DEFINE C == CommonPrefixes({a, b})
<1>1. Len(a) \in Nat /\ Len(b) \in Nat
  BY DEF String
<1>2. ASSUME NEW p \in C PROVE p \in String /\ IsPrefix(p, a) /\ IsPrefix(p, b)
  <2>1. IsPrefix(p, a) /\ IsPrefix(p, b) /\ p \in Prefixes(a) \cup Prefixes(b)
    BY DEF CommonPrefixes
  <2>2. p \in String
    <3>1. CASE p \in Prefixes(a)
      <4>1. PICK l \in 0..Len(a) : p = SubSeq(a, 1, l)
        BY <3>1 DEF Prefixes
      <4> QED
        BY <4>1, FirstParts
    <3>2. CASE p \in Prefixes(b)
      <4>1. PICK l \in 0..Len(b) : p = SubSeq(b, 1, l)
        BY <3>2 DEF Prefixes
      <4> QED
        BY <4>1, FirstParts
    <3> QED
      BY <2>1, <3>1, <3>2
  <2> QED
    BY <2>1, <2>2
<1>3. << >> \in C
  <2> DEFINE none == << >>
  <2>1. 0 \in 0..Len(a) /\ 0 \in 0..Len(b)
    BY <1>1
  <2>2. none = SubSeq(a, 1, 0) /\ none = SubSeq(b, 1, 0)
    BY SubSeqEmpty
  <2>3. IsPrefix(SubSeq(a, 1, 0), a) /\ IsPrefix(SubSeq(b, 1, 0), b)
    BY <2>1, FirstParts
  <2>4. none \in Prefixes(a)
    BY <2>1, <2>2 DEF Prefixes
  <2> HIDE DEF none
  <2>5. IsPrefix(none, a) /\ IsPrefix(none, b)
    BY <2>2, <2>3
  <2>6. none \in C
    BY <2>4, <2>5 DEF CommonPrefixes
  <2> QED
    BY <2>6 DEF none
<1> HIDE DEF C
<1>4. \E longest \in C : \A other \in C : Len(other) <= Len(longest)
  <2> DEFINE S == {m \in 1..(Len(a) + 1) : \E p \in C : m = Len(p) + 1}
  <2>1. ASSUME NEW p \in C PROVE Len(p) \in Nat /\ Len(p) <= Len(a)
    BY <1>2 DEF IsPrefix, String
  <2>2. ASSUME NEW p \in C PROVE Len(p) + 1 \in S
    <3>1. Len(p) + 1 \in 1..(Len(a) + 1)
      BY <1>1, <2>1
    <3> QED
      BY <3>1
  <2>3. S # {} /\ S \in SUBSET (1..(Len(a) + 1)) /\ Len(a) + 1 \in Nat
    BY <1>1, <1>3, <2>2
  <2>4. \A m \in S : \E p \in C : m = Len(p) + 1
    OBVIOUS
  <2> HIDE DEF S
  <2>5. Max(S) \in S /\ \A m \in S : m <= Max(S)
    BY <2>3, MaxOfPositions
  <2>6. PICK longest \in C : Max(S) = Len(longest) + 1
    BY <2>4, <2>5
  <2>7. ASSUME NEW other \in C PROVE Len(other) <= Len(longest)
    <3>1. Len(other) + 1 <= Len(longest) + 1
      BY <2>2, <2>5, <2>6
    <3> QED
      BY <2>1, <3>1
  <2> QED
    BY <2>7
<1> DEFINE p == LongestCommonPrefix({a, b})
<1>5. p \in C
  BY <1>4 DEF LongestCommonPrefix, C
<1> HIDE DEF p
<1>6. p \in Seq(Nat) /\ IsPrefix(p, a) /\ IsPrefix(p, b) /\ n = Len(p)
  BY <1>2, <1>5 DEF String, p
<1>7. Len(p) \in Nat /\ n \in Nat
  BY <1>6, LenProperties
<1>8. Len(p) <= Len(a) /\ SubSeq(p, 1, Len(p)) = SubSeq(a, 1, Len(p))
  BY <1>6, Zenon DEF IsPrefix
<1>9. Len(p) <= Len(b) /\ SubSeq(p, 1, Len(p)) = SubSeq(b, 1, Len(p))
  BY <1>6, Zenon DEF IsPrefix
<1>10. n <= Len(a) /\ n <= Len(b)
  BY <1>6, <1>8, <1>9
<1>11. SubSeq(a, 1, n) = SubSeq(b, 1, n)
  BY <1>6, <1>8, <1>9
<1>12. n \in 0..Len(a) /\ n \in 0..Len(b)
  <2> DEFINE la == Len(a)
             lb == Len(b)
  <2>1. la \in Nat /\ lb \in Nat /\ n <= la /\ n <= lb
    BY <1>1, <1>10
  <2> HIDE DEF la, lb
  <2>2. n \in 0..la /\ n \in 0..lb
    BY <1>7, <2>1
  <2> QED
    BY <2>2 DEF la, lb
<1> QED
  BY <1>11, <1>12

\* An entry that shares what it says with the key before it gives its key back.
LEMMA ReadsBack ==
  ASSUME NEW done \in Seq(ReadEntry), NEW e \in BlockEntry, NEW key \in String,
         e.shared \in 0..Len(key), e.unshared = SubSeq(key, e.shared + 1, Len(key)),
         \/ e.shared = 0
         \/ /\ e.shared <= Len(KeyBefore(done))
            /\ SubSeq(KeyBefore(done), 1, e.shared) = SubSeq(key, 1, e.shared)
  PROVE  DecodeNext(done, e) =
           Append(done, [key |-> key, value |-> e.value, seq |-> e.seq, deleted |-> e.deleted])
<1> DEFINE n == e.shared
<1>1. n \in 0..Len(key) /\ Len(key) \in Nat /\ e.unshared = SubSeq(key, n + 1, Len(key))
  BY DEF String
<1>2. Kept(done, e) = SubSeq(key, 1, n)
  <2>1. CASE n = 0
    <3>1. SubSeq(key, 1, n) = << >>
      BY <2>1, SubSeqEmpty
    <3>2. Kept(done, e) = SubSeq(KeyBefore(done), 1, 0) \/ Kept(done, e) = KeyBefore(done)
      BY <2>1 DEF Kept
    <3>3. SubSeq(KeyBefore(done), 1, 0) = << >>
      BY SubSeqEmpty
    <3>4. KeyBefore(done) \in Seq(Nat)
      <4>1. CASE done = << >>
        BY <4>1 DEF KeyBefore, Empty
      <4>2. CASE done # << >>
        <5>1. Last(done) \in ReadEntry
          BY <4>2 DEF Last
        <5> QED
          BY <4>2, <5>1 DEF KeyBefore, ReadEntry, String
      <4> QED
        BY <4>1, <4>2
    <3>5. 0 <= Len(KeyBefore(done))
      BY <3>4
    <3> QED
      BY <2>1, <3>1, <3>3, <3>5 DEF Kept
  <2>2. CASE /\ n <= Len(KeyBefore(done))
             /\ SubSeq(KeyBefore(done), 1, n) = SubSeq(key, 1, n)
    BY <2>2 DEF Kept
  <2> QED
    BY <2>1, <2>2
<1>3. SubSeq(key, 1, n) \o SubSeq(key, n + 1, Len(key)) = key
  <2>1. 1 \in 1..(Len(key) + 1) /\ n \in (1 - 1)..Len(key) /\ Len(key) \in n..Len(key)
    BY <1>1
  <2>2. SubSeq(key, 1, n) \o SubSeq(key, n + 1, Len(key)) = SubSeq(key, 1, Len(key))
    BY <2>1, ConcatAdjacentSubSeq DEF String
  <2> QED
    BY <2>2, SubSeqFull DEF String
<1>4. Kept(done, e) \o e.unshared = key
  BY <1>1, <1>2, <1>3
<1> QED
  BY <1>4 DEF DecodeNext, Kept, KeyBefore

-----------------------------------------------------------------------------
(* Closing a block.                                                        *)

Builders ==
  [block : Seq(BlockEntry), restarts : Seq(Nat), lastKey : String, blockOffset : Nat,
   index : Seq(IndexEntry), minSeq : Int, maxSeq : Nat, count : Nat, capacity : Nat,
   open : BOOLEAN, named : BOOLEAN, file : Seq(ClosedBlock), closed : Seq(ClosedBlock),
   dangling : BOOLEAN, state : {"building", "finished", "abandoned"}]

\* What the blocks keep of the entries that were added.
Stored(entries) == [i \in DOMAIN entries |-> [entries[i] EXCEPT !.seq = @ % SeqModulus]]

\* Where the entries of a block start.
Starts(entries) == {Bytes(SubSeq(entries, 1, n)) : n \in 0..(Len(entries) - 1)}

BlockBytes(entries, restarts) == Bytes(entries) + WordSize * (Len(restarts) + 1)

\* The index says where the closed blocks are and what their last keys are.
IndexOK(index, closed, offset) ==
  /\ Len(index) = Len(closed)
  /\ \A i \in 1..Len(index) :
       /\ index[i].key = Last(Decode(SubSeq(closed, 1, i))).key
       /\ index[i].size = BlockBytes(closed[i].entries, closed[i].restarts)
       /\ index[i].offset + index[i].size =
            IF i = Len(index) THEN offset ELSE index[i + 1].offset

\* The closed blocks and the one in progress hold entries, and the builder
\* remembers the last key of the block in progress.
BlocksOK(b, entries) ==
  /\ b \in Builders
  /\ entries \in Seq(ReadEntry)
  /\ Reading(EntriesIn(b.closed) \o b.block) = Stored(entries)
  /\ b.block = << >> => b.lastKey = Empty
  /\ b.block # << >> => entries # << >> /\ b.lastKey = Last(entries).key
  /\ IndexOK(b.index, b.closed, b.blockOffset)
  /\ \A i \in 1..Len(b.closed) : Range(b.closed[i].restarts) \subseteq Starts(b.closed[i].entries)
  /\ Range(b.restarts) \subseteq Starts(b.block) \cup {0}
  /\ b.capacity >= BlockSize
  /\ ~b.dangling

\* Blocks have sizes.
LEMMA BytesType ==
  ASSUME NEW s \in Seq(BlockEntry)
  PROVE  Bytes(s) \in Nat /\ Bytes(<< >>) = 0
<1>1. [shared |-> 0, unshared |-> << >>, value |-> << >>, seq |-> 0, deleted |-> FALSE] \in BlockEntry
  BY DEF BlockEntry, String
<1> QED
  BY <1>1, SizeFolds

\* And so have files entries.
LEMMA EntriesType ==
  ASSUME NEW s \in Seq(ClosedBlock)
  PROVE  EntriesIn(s) \in Seq(BlockEntry) /\ EntriesIn(<< >>) = << >>
<1>1. [entries |-> << >>, restarts |-> << >>] \in ClosedBlock
  BY DEF ClosedBlock
<1> QED
  BY <1>1, EntriesFolds

\* And readers entries with keys.
LEMMA ReadingType ==
  ASSUME NEW s \in Seq(BlockEntry)
  PROVE  Reading(s) \in Seq(ReadEntry) /\ Reading(<< >>) = << >>
<1>1. [shared |-> 0, unshared |-> << >>, value |-> << >>, seq |-> 0, deleted |-> FALSE] \in BlockEntry
  BY DEF BlockEntry, String
<1> QED
  BY <1>1, ReadingFolds

\* The size of a block on file.
LEMMA BlockBytesType ==
  ASSUME NEW s \in Seq(BlockEntry), NEW r \in Seq(Nat)
  PROVE  BlockBytes(s, r) \in Nat
<1> DEFINE m == Len(r) + 1
           n == Bytes(s)
<1>1. m \in Nat /\ n \in Nat /\ WordSize \in Nat /\ BlockBytes(s, r) = n + WordSize * m
  BY BytesType, BuilderAssumption, LenProperties DEF BlockBytes
<1> HIDE DEF m, n
<1>2. WordSize * m \in Nat
  BY <1>1
<1> QED
  BY <1>1, <1>2

\* What FlushBlock makes of a builder.
LEMMA FlushedFields ==
  ASSUME NEW b \in Builders, b.block # << >>, NEW f, f = FlushBlock(b),
         NEW bytes, bytes = BlockBytes(b.block, b.restarts)
  PROVE  /\ f \in Builders
         /\ f.block = << >> /\ f.restarts = <<0>> /\ f.lastKey = Empty
         /\ f.blockOffset = b.blockOffset + bytes
         /\ f.closed = Append(b.closed, [entries |-> b.block, restarts |-> b.restarts])
         /\ f.index = Append(b.index, [key |-> b.lastKey, offset |-> b.blockOffset, size |-> bytes])
         /\ f.capacity = Larger(b.capacity, bytes)
         /\ f.dangling = b.dangling /\ f.count = b.count /\ f.state = b.state
<1> DEFINE full == [entries |-> b.block, restarts |-> b.restarts]
           entry == [key |-> b.lastKey, offset |-> b.blockOffset, size |-> bytes]
           file2 == IF b.open THEN Append(b.file, full) ELSE b.file
           closed2 == Append(b.closed, full)
           index2 == Append(b.index, entry)
           offset2 == b.blockOffset + bytes
           capacity2 == Larger(b.capacity, bytes)
<1>1. bytes \in Nat
  BY BlockBytesType DEF Builders
<1>2. full \in ClosedBlock /\ entry \in IndexEntry
  BY <1>1 DEF Builders, ClosedBlock, IndexEntry
<1>3. closed2 \in Seq(ClosedBlock) /\ file2 \in Seq(ClosedBlock) /\ index2 \in Seq(IndexEntry)
  <2> HIDE DEF full, entry
  <2>1. b.closed \in Seq(ClosedBlock) /\ b.file \in Seq(ClosedBlock) /\ b.index \in Seq(IndexEntry)
    BY DEF Builders
  <2> QED
    BY <1>2, <2>1, AppendProperties
<1>4. offset2 \in Nat /\ capacity2 \in Nat
  BY <1>1 DEF Builders, Larger
<1>5. f = [b EXCEPT !.file = file2, !.closed = closed2, !.blockOffset = offset2, !.index = index2,
                    !.capacity = capacity2, !.block = << >>, !.restarts = <<0>>, !.lastKey = Empty]
  BY DEF FlushBlock, ResetBlock, BlockBytes, Builders
<1> HIDE DEF file2, closed2, index2, offset2, capacity2
<1>6. << >> \in Seq(BlockEntry) /\ <<0>> \in Seq(Nat) /\ Empty \in String
  BY DEF Empty, String
<1>7. f \in Builders
  <2> DEFINE g == [b EXCEPT !.file = file2, !.closed = closed2, !.blockOffset = offset2]
             h == [g EXCEPT !.index = index2, !.capacity = capacity2]
  <2>1. g \in Builders
    BY <1>3, <1>4 DEF Builders
  <2>2. f = [h EXCEPT !.block = << >>, !.restarts = <<0>>, !.lastKey = Empty]
    BY <1>5 DEF Builders
  <2> HIDE DEF g
  <2>3. h \in Builders
    BY <1>3, <1>4, <2>1 DEF Builders
  <2> HIDE DEF h
  <2> QED
    BY <1>6, <2>2, <2>3 DEF Builders
<1>8. /\ f.block = << >> /\ f.restarts = <<0>> /\ f.lastKey = Empty
      /\ f.blockOffset = offset2 /\ f.closed = closed2 /\ f.index = index2
      /\ f.capacity = capacity2
      /\ f.dangling = b.dangling /\ f.count = b.count /\ f.state = b.state
  BY <1>5 DEF Builders
<1> QED
  BY <1>7, <1>8 DEF offset2, closed2, index2, capacity2, full, entry

\* The first part of a sequence that grew.
LEMMA PartOfAppend ==
  ASSUME NEW S, NEW s \in Seq(S), NEW x \in S
  PROVE  /\ \A i \in 0..Len(s) : SubSeq(Append(s, x), 1, i) = SubSeq(s, 1, i)
         /\ SubSeq(Append(s, x), 1, Len(s) + 1) = Append(s, x)
<1> DEFINE t == Append(s, x)
<1>1. /\ t \in Seq(S) /\ Len(s) \in Nat /\ Len(t) = Len(s) + 1
      /\ \A i \in 1..Len(s) : t[i] = s[i] /\ s[i] \in S
  BY AppendProperties, LenProperties, ElementOfSeq
<1> HIDE DEF t
<1>2. SubSeq(t, 1, Len(s) + 1) = t
  <2>1. SubSeq(t, 1, Len(t)) = t
    BY <1>1, SubSeqFull
  <2> QED
    BY <1>1, <2>1
<1>3. ASSUME NEW i \in 0..Len(s) PROVE SubSeq(t, 1, i) = SubSeq(s, 1, i)
  <2>1. i \in Nat /\ \A k \in 1..i : k \in 1..Len(s)
    BY <1>1
  <2>2. \A k \in 1..i : t[k] = s[k] /\ s[k] \in S
    BY <1>1, <2>1
  <2>3. SubSeq(t, 1, i) = [k \in 1..i |-> t[k]] /\ SubSeq(s, 1, i) = [k \in 1..i |-> s[k]]
    BY <2>1
  <2> QED
    BY <2>2, <2>3
<1> QED
  BY <1>2, <1>3 DEF t

\* What is stored, entry by entry.
LEMMA StoredEntries ==
  ASSUME NEW s \in Seq(ReadEntry)
  PROVE  /\ Stored(s) \in Seq(ReadEntry) /\ Len(Stored(s)) = Len(s)
         /\ s # << >> => Stored(s) # << >> /\ Last(Stored(s)).key = Last(s).key
<1>1. /\ Len(s) \in Nat /\ DOMAIN s = 1..Len(s)
      /\ \A i \in 1..Len(s) : s[i] \in ReadEntry
  BY LenProperties, ElementOfSeq
<1>2. ASSUME NEW i \in 1..Len(s)
      PROVE  /\ [s[i] EXCEPT !.seq = @ % SeqModulus] \in ReadEntry
             /\ [s[i] EXCEPT !.seq = @ % SeqModulus].key = s[i].key
  <2>1. s[i] \in ReadEntry
    BY <1>1
  <2>2. s[i].seq % SeqModulus \in Nat
    <3> DEFINE n == s[i].seq
    <3>1. n \in Int /\ SeqModulus \in Nat \ {0}
      BY <2>1, BuilderAssumption DEF ReadEntry
    <3> HIDE DEF n
    <3>2. n % SeqModulus \in 0..(SeqModulus - 1)
      BY <3>1, DivisionInInt
    <3>3. n % SeqModulus \in Nat
      BY <3>1, <3>2
    <3> QED
      BY <3>3 DEF n
  <2> QED
    BY <2>1, <2>2 DEF ReadEntry
<1>3. /\ Stored(s) \in Seq(ReadEntry) /\ Len(Stored(s)) = Len(s)
      /\ \A i \in 1..Len(s) : Stored(s)[i] = [s[i] EXCEPT !.seq = @ % SeqModulus]
  <2>1. Stored(s) = [i \in 1..Len(s) |-> [s[i] EXCEPT !.seq = @ % SeqModulus]]
    BY <1>1 DEF Stored
  <2>2. Stored(s) \in [1..Len(s) -> ReadEntry]
    BY <1>2, <2>1
  <2> QED
    BY <1>1, <2>1, <2>2
<1>4. ASSUME s # << >> PROVE Stored(s) # << >> /\ Last(Stored(s)).key = Last(s).key
  <2>1. Len(s) \in 1..Len(s)
    BY <1>1, <1>4
  <2>2. Stored(s)[Len(s)].key = s[Len(s)].key
    BY <1>2, <1>3, <2>1
  <2>3. Stored(s) # << >>
    BY <1>3, <2>1
  <2> QED
    BY <1>3, <2>2, <2>3 DEF Last
<1> QED
  BY <1>3, <1>4

\* One entry more is stored.
LEMMA StoredGrows ==
  ASSUME NEW s \in Seq(ReadEntry), NEW x \in ReadEntry
  PROVE  Stored(Append(s, x)) = Append(Stored(s), [x EXCEPT !.seq = @ % SeqModulus])
<1> DEFINE t == Append(s, x)
           y == [x EXCEPT !.seq = @ % SeqModulus]
           low(i) == [t[i] EXCEPT !.seq = @ % SeqModulus]
           u == Append(Stored(s), y)
<1>1. /\ t \in Seq(ReadEntry) /\ Len(s) \in Nat /\ Len(t) = Len(s) + 1
      /\ \A i \in 1..Len(s) : t[i] = s[i]
      /\ t[Len(s) + 1] = x /\ DOMAIN s = 1..Len(s) /\ DOMAIN t = 1..(Len(s) + 1)
  BY AppendProperties, LenProperties
<1>2. Stored(s) \in Seq(ReadEntry) /\ Len(Stored(s)) = Len(s)
      /\ Stored(t) \in Seq(ReadEntry) /\ Len(Stored(t)) = Len(s) + 1
  BY <1>1, StoredEntries
<1>3. \A i \in 1..Len(s) : Stored(s)[i] = [s[i] EXCEPT !.seq = @ % SeqModulus]
  BY <1>1 DEF Stored
<1>4. \A i \in 1..(Len(s) + 1) : Stored(t)[i] = low(i)
  BY <1>1 DEF Stored
<1>5. y \in ReadEntry
  <2>1. Stored(t)[Len(s) + 1] = y /\ Len(s) + 1 \in 1..Len(Stored(t))
    BY <1>1, <1>2, <1>4
  <2> QED
    BY <1>2, <2>1, ElementOfSeq
<1>6. /\ u \in Seq(ReadEntry) /\ Len(u) = Len(s) + 1
      /\ \A i \in 1..Len(s) : u[i] = Stored(s)[i]
      /\ u[Len(s) + 1] = y
  BY <1>2, <1>5, AppendProperties
<1> DEFINE old == Stored(s)
           new == Stored(t)
<1>7. ASSUME NEW i \in 1..(Len(s) + 1) PROVE new[i] = u[i]
  <2> HIDE DEF u, old
  <2>1. i \in 1..Len(s) \/ i = Len(s) + 1
    BY <1>1
  <2>2. CASE i \in 1..Len(s)
    <3>1. t[i] = s[i]
      BY <1>1, <2>2
    <3> HIDE DEF t
    <3>2. new[i] = [t[i] EXCEPT !.seq = @ % SeqModulus]
      BY <1>4
    <3>3. old[i] = [s[i] EXCEPT !.seq = @ % SeqModulus]
      BY <1>3, <2>2 DEF old
    <3>4. u[i] = old[i]
      BY <1>6, <2>2 DEF old
    <3> HIDE DEF new
    <3> QED
      BY <3>1, <3>2, <3>3, <3>4
  <2>3. CASE i = Len(s) + 1
    <3>1. t[i] = x
      BY <1>1, <2>3
    <3> HIDE DEF t
    <3>2. new[i] = [t[i] EXCEPT !.seq = @ % SeqModulus]
      BY <1>4
    <3>3. u[i] = y
      BY <1>6, <2>3
    <3> HIDE DEF new
    <3> QED
      BY <3>1, <3>2, <3>3
  <2> QED
    BY <2>1, <2>2, <2>3
<1> HIDE DEF t, u, old
<1>8. Stored(t) = u
  BY <1>2, <1>6, <1>7, SeqEqual DEF new
<1> QED
  BY <1>8 DEF t, u

\* A block more in the index.
LEMMA IndexGrows ==
  ASSUME NEW index \in Seq(IndexEntry), NEW closed \in Seq(ClosedBlock), NEW offset \in Nat,
         IndexOK(index, closed, offset), NEW full \in ClosedBlock,
         NEW entry \in IndexEntry, entry.offset = offset,
         entry.size = BlockBytes(full.entries, full.restarts),
         entry.key = Last(Decode(Append(closed, full))).key
  PROVE  IndexOK(Append(index, entry), Append(closed, full), offset + entry.size)
<1> DEFINE index2 == Append(index, entry)
           closed2 == Append(closed, full)
           n == Len(index)
<1>1. /\ n \in Nat /\ Len(closed) = n /\ Len(index2) = n + 1 /\ Len(closed2) = n + 1
      /\ \A i \in 1..n : index2[i] = index[i] /\ closed2[i] = closed[i]
      /\ index2[n + 1] = entry /\ closed2[n + 1] = full
  BY AppendProperties, LenProperties DEF IndexOK
<1>2. /\ \A i \in 0..n : SubSeq(closed2, 1, i) = SubSeq(closed, 1, i)
      /\ SubSeq(closed2, 1, n + 1) = closed2
  BY <1>1, PartOfAppend
<1>3. entry.key = Last(Decode(closed2)).key
  OBVIOUS
<1> HIDE DEF index2, closed2
<1>4. ASSUME NEW i \in 1..(n + 1)
      PROVE  /\ index2[i].key = Last(Decode(SubSeq(closed2, 1, i))).key
             /\ index2[i].size = BlockBytes(closed2[i].entries, closed2[i].restarts)
             /\ index2[i].offset + index2[i].size =
                  IF i = n + 1 THEN offset + entry.size ELSE index2[i + 1].offset
  <2>1. CASE i = n + 1
    BY <1>1, <1>2, <1>3, <2>1
  <2>2. CASE i # n + 1
    <3>1. i \in 1..n /\ i \in 0..n
      BY <1>1, <2>2
    <3>2. /\ index[i].key = Last(Decode(SubSeq(closed, 1, i))).key
          /\ index[i].size = BlockBytes(closed[i].entries, closed[i].restarts)
          /\ index[i].offset + index[i].size = IF i = n THEN offset ELSE index[i + 1].offset
      BY <3>1 DEF IndexOK
    <3>3. index2[i + 1].offset = IF i = n THEN offset ELSE index[i + 1].offset
      <4>1. CASE i = n
        BY <1>1, <4>1
      <4>2. CASE i # n
        <5>1. i + 1 \in 1..n
          BY <1>1, <3>1, <4>2
        <5> QED
          BY <1>1, <4>2, <5>1
      <4> QED
        BY <4>1, <4>2
    <3> QED
      BY <1>1, <1>2, <2>2, <3>1, <3>2, <3>3
  <2> QED
    BY <2>1, <2>2
<1> HIDE DEF n
<1>5. IndexOK(index2, closed2, offset + entry.size)
  BY <1>1, <1>4 DEF IndexOK
<1> QED
  BY <1>5 DEF index2, closed2

\* An entry has a header.
LEMMA HeaderInEntry ==
  ASSUME NEW e \in BlockEntry
  PROVE  EntrySize(e) \in Nat /\ EntrySize(e) >= EntryHeader
<1>1. e.unshared \in Seq(Nat) /\ e.value \in Seq(Nat)
  BY DEF BlockEntry, String
<1>2. Len(e.unshared) \in Nat /\ Len(e.value) \in Nat /\ EntryHeader \in Nat
  BY <1>1, LenProperties, BuilderAssumption
<1> DEFINE k == Len(e.unshared)
           v == Len(e.value)
<1>3. EntrySize(e) = EntryHeader + k + v /\ k \in Nat /\ v \in Nat
  BY <1>2 DEF EntrySize
<1> HIDE DEF k, v
<1> QED
  BY <1>2, <1>3

\* The first entry of a block starts at 0.
LEMMA BlockStartsAtZero ==
  ASSUME NEW s \in Seq(BlockEntry), s # << >>
  PROVE  0 \in Starts(s)
<1>1. Len(s) \in Nat /\ Len(s) # 0
  BY LenProperties, EmptySeq
<1>2. 0 \in 0..(Len(s) - 1)
  BY <1>1
<1>3. Bytes(SubSeq(s, 1, 0)) = 0
  <2> DEFINE none == << >>
             first == SubSeq(s, 1, 0)
  <2>1. Bytes(none) = 0
    BY BytesType
  <2>2. first = none
    BY SubSeqEmpty
  <2> HIDE DEF none, first
  <2>3. Bytes(first) = 0
    BY <2>1, <2>2
  <2> QED
    BY <2>3 DEF first
<1> QED
  BY <1>2, <1>3 DEF Starts

\* A block that grows keeps the starts of its entries.
LEMMA StartsGrow ==
  ASSUME NEW s \in Seq(BlockEntry), NEW e \in BlockEntry
  PROVE  Starts(s) \cup {0} \cup {Bytes(s)} \subseteq Starts(Append(s, e))
<1> DEFINE t == Append(s, e)
           n == Len(s)
<1>1. /\ n \in Nat /\ t \in Seq(BlockEntry) /\ Len(t) = n + 1
      /\ \A i \in 0..n : SubSeq(t, 1, i) = SubSeq(s, 1, i)
      /\ SubSeq(s, 1, n) = s
  BY AppendProperties, LenProperties, PartOfAppend, SubSeqFull
<1> HIDE DEF t, n
<1>2. Starts(t) = {Bytes(SubSeq(t, 1, i)) : i \in 0..n}
  BY <1>1 DEF Starts
<1>3. Starts(s) = {Bytes(SubSeq(s, 1, i)) : i \in 0..(n - 1)}
  BY DEF Starts, n
<1>4. \A i \in 0..n : Bytes(SubSeq(s, 1, i)) \in Starts(t)
  BY <1>1, <1>2
<1>5. Starts(s) \subseteq Starts(t)
  <2>1. \A i \in 0..(n - 1) : i \in 0..n
    BY <1>1
  <2> QED
    BY <1>3, <1>4, <2>1
<1>6. Bytes(s) \in Starts(t)
  <2>1. n \in 0..n
    BY <1>1
  <2>2. Bytes(SubSeq(s, 1, n)) \in Starts(t)
    BY <1>4, <2>1
  <2> QED
    BY <1>1, <2>2
<1>7. 0 \in Starts(t)
  <2>1. t # << >>
    BY <1>1, EmptySeq
  <2> QED
    BY <1>1, <2>1, BlockStartsAtZero
<1> QED
  BY <1>5, <1>6, <1>7 DEF t

\* FlushBlock moves entries and loses none; it leaves the block empty.
LEMMA FlushKeepsBlocks ==
  ASSUME NEW b, NEW entries, BlocksOK(b, entries), NEW f, f = FlushBlock(b)
  PROVE  /\ BlocksOK(f, entries)
         /\ f.block = << >> /\ f.count = b.count /\ f.state = b.state
         /\ b.block # << >> => f.index # << >>
<1>1. CASE b.block = << >>
  BY <1>1 DEF FlushBlock
<1>2. CASE b.block # << >>
  <2> DEFINE bytes == BlockBytes(b.block, b.restarts)
             full == [entries |-> b.block, restarts |-> b.restarts]
             entry == [key |-> b.lastKey, offset |-> b.blockOffset, size |-> bytes]
             closed2 == Append(b.closed, full)
             index2 == Append(b.index, entry)
  <2>1. /\ b \in Builders /\ entries \in Seq(ReadEntry) /\ entries # << >>
        /\ b.lastKey = Last(entries).key
        /\ Reading(EntriesIn(b.closed) \o b.block) = Stored(entries)
        /\ IndexOK(b.index, b.closed, b.blockOffset)
        /\ \A i \in 1..Len(b.closed) :
             Range(b.closed[i].restarts) \subseteq Starts(b.closed[i].entries)
        /\ Range(b.restarts) \subseteq Starts(b.block) \cup {0}
        /\ b.capacity >= BlockSize /\ ~b.dangling
    BY <1>2 DEF BlocksOK
  <2>2. /\ f \in Builders
        /\ f.block = << >> /\ f.restarts = <<0>> /\ f.lastKey = Empty
        /\ f.blockOffset = b.blockOffset + bytes
        /\ f.closed = closed2 /\ f.index = index2
        /\ f.capacity = Larger(b.capacity, bytes)
        /\ f.dangling = b.dangling /\ f.count = b.count /\ f.state = b.state
    BY <1>2, <2>1, FlushedFields
  <2>3. /\ b.block \in Seq(BlockEntry) /\ b.restarts \in Seq(Nat) /\ b.lastKey \in String
        /\ b.blockOffset \in Nat /\ b.closed \in Seq(ClosedBlock) /\ b.index \in Seq(IndexEntry)
        /\ b.capacity \in Nat
    BY <2>1 DEF Builders
  <2>4. bytes \in Nat
    BY <2>3, BlockBytesType
  <2>5. full \in ClosedBlock /\ full.entries = b.block /\ full.restarts = b.restarts
    BY <2>3 DEF ClosedBlock
  <2>6. entry \in IndexEntry /\ entry.key = b.lastKey /\ entry.offset = b.blockOffset
        /\ entry.size = BlockBytes(full.entries, full.restarts)
    BY <2>3, <2>4 DEF IndexEntry
  <2> HIDE DEF bytes, full, entry
  <2>7. /\ closed2 \in Seq(ClosedBlock) /\ Len(closed2) = Len(b.closed) + 1 /\ Len(b.closed) \in Nat
        /\ \A i \in 1..Len(b.closed) : closed2[i] = b.closed[i]
        /\ closed2[Len(b.closed) + 1] = full
    BY <2>3, <2>5, AppendProperties, LenProperties
  <2>8. index2 # << >>
    <3>1. Len(index2) = Len(b.index) + 1 /\ Len(b.index) \in Nat
      BY <2>3, <2>6, AppendProperties, LenProperties
    <3> QED
      BY <3>1, EmptySeq
  <2>9. EntriesIn(closed2) = EntriesIn(b.closed) \o b.block
    BY <2>3, <2>5, EntriesFolds DEF Joined
  <2>10. EntriesIn(closed2) \o << >> = EntriesIn(closed2)
    BY <2>7, EntriesType, ConcatEmptySeq
  <2>11. Reading(EntriesIn(f.closed) \o f.block) = Stored(entries)
    BY <2>1, <2>2, <2>9, <2>10
  <2>12. IndexOK(f.index, f.closed, f.blockOffset)
    <3>1. Decode(closed2) = Stored(entries)
      BY <2>1, <2>9 DEF Decode, Reading
    <3>2. entry.key = Last(Decode(closed2)).key
      BY <2>1, <2>6, <3>1, StoredEntries
    <3>3. IndexOK(index2, closed2, b.blockOffset + entry.size)
      BY <2>1, <2>3, <2>5, <2>6, <3>2, IndexGrows
    <3> QED
      BY <2>2, <2>5, <2>6, <3>3 DEF bytes
  <2>13. ASSUME NEW i \in 1..Len(f.closed)
         PROVE  Range(f.closed[i].restarts) \subseteq Starts(f.closed[i].entries)
    <3>1. CASE i = Len(b.closed) + 1
      <4>1. f.closed[i] = full
        BY <2>2, <2>7, <3>1
      <4>2. 0 \in Starts(b.block)
        BY <1>2, <2>3, BlockStartsAtZero
      <4> QED
        BY <2>1, <2>5, <4>1, <4>2
    <3>2. CASE i # Len(b.closed) + 1
      <4>1. i \in 1..Len(b.closed)
        BY <2>2, <2>7, <3>2
      <4>2. f.closed[i] = b.closed[i]
        BY <2>2, <2>7, <4>1
      <4> QED
        BY <2>1, <4>1, <4>2
    <3> QED
      BY <3>1, <3>2
  <2>14. Range(f.restarts) \subseteq {0}
    BY <2>2 DEF Range
  <2>15. f.capacity >= BlockSize
    BY <2>1, <2>2, <2>3, <2>4, BuilderAssumption DEF Larger
  <2> HIDE DEF closed2, index2
  <2>16. BlocksOK(f, entries)
    BY <2>1, <2>2, <2>11, <2>12, <2>13, <2>14, <2>15 DEF BlocksOK
  <2> QED
    BY <2>2, <2>8, <2>16
<1> QED
  BY <1>1, <1>2

-----------------------------------------------------------------------------
(* Adding an entry.                                                        *)

\* Block entry e keeps x, shortened against the key of the last of entries.
Shortens(e, x, entries) ==
  /\ e.value = x.value /\ e.seq = x.seq % SeqModulus /\ e.deleted = x.deleted
  /\ e.shared \in 0..Len(x.key)
  /\ e.unshared = SubSeq(x.key, e.shared + 1, Len(x.key))
  /\ \/ e.shared = 0
     \/ /\ entries # << >>
        /\ e.shared <= Len(Last(entries).key)
        /\ SubSeq(Last(entries).key, 1, e.shared) = SubSeq(x.key, 1, e.shared)

\* There is room for e in the block in progress.
Fits(b, e) == b.block # << >> => Bytes(b.block) + EntrySize(e) <= BlockSize

\* The builder with e at the end of its block.
WithEntry(b, e, key) ==
  [b EXCEPT
     !.block = Append(b.block, e),
     !.lastKey = key,
     !.restarts = IF (Len(b.block) + 1) % RestartInterval = 0
                    THEN Append(@, Bytes(b.block)) ELSE @,
     !.dangling = @ \/ Bytes(b.block) + EntryHeader > b.capacity,
     !.capacity = Larger(@, Bytes(b.block) + EntrySize(e))]

\* A shortened entry is read as the entry it keeps.
LEMMA ShortenedReadsBack ==
  ASSUME NEW entries \in Seq(ReadEntry), NEW x \in ReadEntry, NEW e \in BlockEntry,
         Shortens(e, x, entries)
  PROVE  DecodeNext(Stored(entries), e) = Stored(Append(entries, x))
<1> DEFINE done == Stored(entries)
           key == x.key
<1>1. done \in Seq(ReadEntry) /\ key \in String
  BY StoredEntries DEF ReadEntry
<1>2. e.shared \in 0..Len(key) /\ e.unshared = SubSeq(key, e.shared + 1, Len(key))
  BY DEF Shortens
<1>3. \/ e.shared = 0
      \/ /\ e.shared <= Len(KeyBefore(done))
         /\ SubSeq(KeyBefore(done), 1, e.shared) = SubSeq(key, 1, e.shared)
  <2>1. CASE e.shared = 0
    BY <2>1
  <2>2. CASE e.shared # 0
    <3>1. KeyBefore(done) = Last(entries).key
      BY <2>2, StoredEntries DEF KeyBefore, Shortens
    <3> QED
      BY <2>2, <3>1 DEF Shortens
  <2> QED
    BY <2>1, <2>2
<1>4. DecodeNext(done, e) =
        Append(done, [key |-> key, value |-> e.value, seq |-> e.seq, deleted |-> e.deleted])
  <2> HIDE DEF done, key
  <2> QED
    BY <1>1, <1>2, <1>3, ReadsBack
<1>5. [key |-> key, value |-> e.value, seq |-> e.seq, deleted |-> e.deleted]
        = [x EXCEPT !.seq = @ % SeqModulus]
  BY DEF ReadEntry, Shortens
<1>6. Stored(Append(entries, x)) = Append(done, [x EXCEPT !.seq = @ % SeqModulus])
  BY StoredGrows
<1> QED
  BY <1>4, <1>5, <1>6

\* What the fields of a builder are after an entry went in.
LEMMA EntryFields ==
  ASSUME NEW b \in Builders, NEW e \in BlockEntry, NEW key \in String,
         NEW a, a = WithEntry(b, e, key)
  PROVE  /\ a \in Builders
         /\ a.block = Append(b.block, e) /\ a.lastKey = key
         /\ a.restarts = b.restarts \/ a.restarts = Append(b.restarts, Bytes(b.block))
         /\ a.dangling <=> b.dangling \/ Bytes(b.block) + EntryHeader > b.capacity
         /\ a.capacity = Larger(b.capacity, Bytes(b.block) + EntrySize(e))
         /\ a.closed = b.closed /\ a.index = b.index /\ a.blockOffset = b.blockOffset
         /\ a.count = b.count /\ a.state = b.state
<1> DEFINE block2 == Append(b.block, e)
           restarts2 == IF (Len(b.block) + 1) % RestartInterval = 0
                          THEN Append(b.restarts, Bytes(b.block)) ELSE b.restarts
           dangling2 == b.dangling \/ Bytes(b.block) + EntryHeader > b.capacity
           capacity2 == Larger(b.capacity, Bytes(b.block) + EntrySize(e))
<1>1. b.block \in Seq(BlockEntry) /\ b.restarts \in Seq(Nat) /\ b.capacity \in Nat
  BY DEF Builders
<1>2. Bytes(b.block) \in Nat /\ EntrySize(e) \in Nat
  BY <1>1, BytesType, HeaderInEntry
<1>3. block2 \in Seq(BlockEntry)
  BY <1>1, AppendProperties
<1>4. restarts2 \in Seq(Nat)
  BY <1>1, <1>2, AppendProperties
<1>5. capacity2 \in Nat /\ dangling2 \in BOOLEAN
  BY <1>1, <1>2 DEF Larger
<1>6. a = [b EXCEPT !.block = block2, !.lastKey = key, !.restarts = restarts2,
                    !.dangling = dangling2, !.capacity = capacity2]
  BY DEF WithEntry, Builders
<1>7. restarts2 = b.restarts \/ restarts2 = Append(b.restarts, Bytes(b.block))
  OBVIOUS
<1> HIDE DEF block2, restarts2, dangling2, capacity2
<1>8. a \in Builders
  BY <1>3, <1>4, <1>5, <1>6 DEF Builders
<1>9. /\ a.block = block2 /\ a.lastKey = key /\ a.restarts = restarts2
      /\ a.dangling = dangling2 /\ a.capacity = capacity2
      /\ a.closed = b.closed /\ a.index = b.index /\ a.blockOffset = b.blockOffset
      /\ a.count = b.count /\ a.state = b.state
  BY <1>6 DEF Builders
<1> QED
  BY <1>7, <1>8, <1>9 DEF block2, dangling2, capacity2

\* An entry goes into a block that has room for it, or is empty.
LEMMA EntryGoesIn ==
  ASSUME NEW b, NEW entries, BlocksOK(b, entries), NEW x \in ReadEntry, NEW e \in BlockEntry,
         Shortens(e, x, entries), Fits(b, e), NEW a, a = WithEntry(b, e, x.key)
  PROVE  /\ BlocksOK(a, Append(entries, x))
         /\ a.block # << >> /\ a.lastKey = x.key /\ a.count = b.count /\ a.state = b.state
<1> DEFINE more == Append(entries, x)
           size1 == Bytes(b.block)
           size2 == EntrySize(e)
<1>1. /\ b \in Builders /\ entries \in Seq(ReadEntry)
      /\ Reading(EntriesIn(b.closed) \o b.block) = Stored(entries)
      /\ IndexOK(b.index, b.closed, b.blockOffset)
      /\ \A i \in 1..Len(b.closed) :
           Range(b.closed[i].restarts) \subseteq Starts(b.closed[i].entries)
      /\ Range(b.restarts) \subseteq Starts(b.block) \cup {0}
      /\ b.capacity >= BlockSize /\ ~b.dangling
  BY DEF BlocksOK
<1>2. /\ b.block \in Seq(BlockEntry) /\ b.restarts \in Seq(Nat)
      /\ b.closed \in Seq(ClosedBlock) /\ b.capacity \in Nat /\ x.key \in String
  BY <1>1 DEF Builders, ReadEntry
<1>3. /\ a \in Builders
      /\ a.block = Append(b.block, e) /\ a.lastKey = x.key
      /\ a.restarts = b.restarts \/ a.restarts = Append(b.restarts, size1)
      /\ a.dangling <=> b.dangling \/ size1 + EntryHeader > b.capacity
      /\ a.capacity = Larger(b.capacity, size1 + size2)
      /\ a.closed = b.closed /\ a.index = b.index /\ a.blockOffset = b.blockOffset
      /\ a.count = b.count /\ a.state = b.state
  BY <1>1, <1>2, EntryFields, SMTT(40)
<1>4. /\ more \in Seq(ReadEntry) /\ more # << >> /\ Last(more) = x
  <2>1. /\ more \in Seq(ReadEntry) /\ Len(more) = Len(entries) + 1 /\ Len(entries) \in Nat
        /\ more[Len(entries) + 1] = x
    BY <1>1, AppendProperties, LenProperties
  <2>2. more # << >>
    BY <2>1, EmptySeq
  <2> QED
    BY <2>1, <2>2 DEF Last
<1>5. a.block # << >>
  <2> DEFINE t == Append(b.block, e)
  <2>1. Len(t) = Len(b.block) + 1 /\ Len(b.block) \in Nat
    BY <1>2, AppendProperties, LenProperties
  <2> HIDE DEF t
  <2>2. t # << >>
    BY <2>1, EmptySeq
  <2> QED
    BY <1>3, <2>2 DEF t
<1>6. size1 \in Nat /\ size2 \in Nat /\ size2 >= EntryHeader /\ EntryHeader \in Nat
      /\ BlockSize \in Nat /\ BlockSize >= EntryHeader
  BY <1>2, BytesType, HeaderInEntry, BuilderAssumption
<1>7. ~a.dangling /\ a.capacity >= BlockSize
  <2>1. size1 + EntryHeader <= BlockSize
    <3>1. CASE b.block = << >>
      <4> DEFINE none == << >>
      <4>1. Bytes(none) = 0 /\ b.block = none
        BY <1>2, <3>1, BytesType
      <4> HIDE DEF none
      <4>2. size1 = 0
        BY <4>1
      <4> QED
        BY <1>6, <4>2
    <3>2. CASE b.block # << >>
      <4>1. size1 + size2 <= BlockSize
        BY <3>2 DEF Fits
      <4> HIDE DEF size1, size2
      <4> QED
        BY <1>6, <4>1
    <3> QED
      BY <3>1, <3>2
  <2> HIDE DEF size1, size2
  <2>2. ~(size1 + EntryHeader > b.capacity)
    BY <1>1, <1>2, <1>6, <2>1
  <2>3. Larger(b.capacity, size1 + size2) >= BlockSize
    BY <1>1, <1>2, <1>6 DEF Larger
  <2> QED
    BY <1>1, <1>3, <2>2, <2>3
<1>8. Reading(EntriesIn(a.closed) \o a.block) = Stored(more)
  <2> DEFINE before == EntriesIn(b.closed)
  <2>1. before \in Seq(BlockEntry)
    BY <1>2, EntriesType
  <2> HIDE DEF before
  <2>2. before \o b.block \in Seq(BlockEntry)
    BY <1>2, <2>1, ConcatProperties
  <2>3. before \o Append(b.block, e) = Append(before \o b.block, e)
    BY <1>2, <2>1
  <2>4. Reading(Append(before \o b.block, e)) = DecodeNext(Reading(before \o b.block), e)
    BY <2>2, ReadingFolds
  <2>5. DecodeNext(Stored(entries), e) = Stored(more)
    BY <1>1, ShortenedReadsBack
  <2> QED
    BY <1>1, <1>3, <2>3, <2>4, <2>5 DEF before
<1>9. Range(a.restarts) \subseteq Starts(a.block) \cup {0}
  <2>1. Starts(b.block) \cup {0} \cup {size1} \subseteq Starts(a.block)
    BY <1>2, <1>3, StartsGrow
  <2>2. Range(Append(b.restarts, size1)) \subseteq Range(b.restarts) \cup {size1}
    <3> DEFINE r == Append(b.restarts, size1)
    <3>1. /\ Len(r) = Len(b.restarts) + 1 /\ Len(b.restarts) \in Nat
          /\ \A i \in 1..Len(b.restarts) : r[i] = b.restarts[i]
          /\ r[Len(b.restarts) + 1] = size1
          /\ DOMAIN r = 1..Len(r) /\ DOMAIN b.restarts = 1..Len(b.restarts)
      BY <1>2, <1>6, AppendProperties, LenProperties
    <3> HIDE DEF r
    <3>2. ASSUME NEW i \in DOMAIN r PROVE r[i] \in Range(b.restarts) \cup {size1}
      <4>1. i \in 1..Len(b.restarts) \/ i = Len(b.restarts) + 1
        BY <3>1
      <4> QED
        BY <3>1, <4>1 DEF Range
    <3> QED
      BY <3>2 DEF Range, r
  <2> QED
    BY <1>1, <1>3, <2>1, <2>2
<1>10. a.lastKey = Last(more).key
  BY <1>3, <1>4
<1> HIDE DEF more, size1, size2
<1>11. BlocksOK(a, more)
  BY <1>1, <1>3, <1>4, <1>5, <1>7, <1>8, <1>9, <1>10 DEF BlocksOK
<1> QED
  BY <1>3, <1>5, <1>11 DEF more

\* A builder that has counted an entry more.
Counted(b, min, max) == [b EXCEPT !.minSeq = min, !.maxSeq = max, !.count = @ + 1]

\* Counting an entry leaves the blocks alone.
LEMMA CountKeepsBlocks ==
  ASSUME NEW b, NEW entries, BlocksOK(b, entries), NEW min \in Int, NEW max \in Nat,
         NEW c, c = Counted(b, min, max)
  PROVE  BlocksOK(c, entries) /\ c.count = b.count + 1 /\ c.state = b.state
<1>1. b \in Builders
  BY DEF BlocksOK
<1> DEFINE n == b.count + 1
<1>2. c \in Builders
  <2>1. n \in Nat
    BY <1>1 DEF Builders
  <2>2. c = [b EXCEPT !.minSeq = min, !.maxSeq = max, !.count = n]
    BY <1>1 DEF Builders, Counted
  <2> HIDE DEF n
  <2> QED
    BY <1>1, <2>1, <2>2 DEF Builders
<1>3. /\ c.block = b.block /\ c.restarts = b.restarts /\ c.lastKey = b.lastKey
      /\ c.blockOffset = b.blockOffset /\ c.index = b.index /\ c.closed = b.closed
      /\ c.capacity = b.capacity /\ c.dangling = b.dangling
      /\ c.count = b.count + 1 /\ c.state = b.state
  BY <1>1 DEF Builders, Counted
<1> QED
  BY <1>2, <1>3 DEF BlocksOK

\* What AddToBlock writes, shortened against last_key.
BlockEntryOf(b, x) ==
  LET shared == Len(LongestCommonPrefix({b.lastKey, x.key}))
  IN  [shared |-> shared, unshared |-> SubSeq(x.key, shared + 1, Len(x.key)),
       value |-> x.value, seq |-> x.seq % SeqModulus, deleted |-> x.deleted]

\* It is shortened against the last entry, or not at all.
LEMMA LastKeyShortens ==
  ASSUME NEW b, NEW entries, BlocksOK(b, entries), NEW x \in ReadEntry
  PROVE  BlockEntryOf(b, x) \in BlockEntry /\ Shortens(BlockEntryOf(b, x), x, entries)
<1> DEFINE n == Len(LongestCommonPrefix({b.lastKey, x.key}))
           key == x.key
           rest == SubSeq(key, n + 1, Len(key))
           seq == x.seq % SeqModulus
           e == BlockEntryOf(b, x)
<1>1. b \in Builders /\ entries \in Seq(ReadEntry)
  BY DEF BlocksOK
<1>2. b.lastKey \in String /\ key \in String /\ x.seq \in Nat
      /\ x.value \in String /\ x.deleted \in BOOLEAN
  BY <1>1 DEF Builders, ReadEntry
<1>3. n \in 0..Len(b.lastKey) /\ n \in 0..Len(key) /\ SubSeq(b.lastKey, 1, n) = SubSeq(key, 1, n)
  BY <1>2, SharedLetters
<1>4. Len(key) \in Nat /\ Len(b.lastKey) \in Nat
  BY <1>2, LenProperties DEF String
<1>5. seq \in Nat
  <2> DEFINE q == x.seq
  <2>1. q \in Int /\ SeqModulus \in Nat \ {0}
    BY <1>2, BuilderAssumption
  <2> HIDE DEF q
  <2>2. q % SeqModulus \in 0..(SeqModulus - 1)
    BY <2>1, DivisionInInt
  <2>3. q % SeqModulus \in Nat
    BY <2>1, <2>2
  <2> QED
    BY <2>3 DEF q
<1>6. e = [shared |-> n, unshared |-> rest, value |-> x.value, seq |-> seq, deleted |-> x.deleted]
  BY DEF BlockEntryOf
<1>7. n = 0 \/ /\ entries # << >>
               /\ n <= Len(Last(entries).key)
               /\ SubSeq(Last(entries).key, 1, n) = SubSeq(key, 1, n)
  <2>1. CASE b.block = << >>
    <3> DEFINE l == Len(b.lastKey)
    <3>1. b.lastKey = << >>
      BY <2>1 DEF BlocksOK, Empty
    <3>2. l = 0
      BY <3>1
    <3> HIDE DEF l, n
    <3>3. n \in 0..l
      BY <1>3 DEF l
    <3> QED
      BY <3>2, <3>3
  <2>2. CASE b.block # << >>
    <3>1. entries # << >> /\ b.lastKey = Last(entries).key
      BY <2>2 DEF BlocksOK
    <3>2. n <= Len(b.lastKey)
      <4> DEFINE l == Len(b.lastKey)
      <4> HIDE DEF l, n
      <4>1. n \in 0..l /\ l \in Nat
        BY <1>3, <1>4 DEF l
      <4>2. n <= l
        BY <4>1
      <4> QED
        BY <4>2 DEF l
    <3> QED
      BY <1>3, <3>1, <3>2
  <2> QED
    BY <2>1, <2>2
<1>8. n \in Nat /\ n + 1 \in Int /\ n + 1 \in 1..(Len(key) + 1)
  <2> DEFINE l == Len(key)
  <2>1. l \in Nat /\ n \in 0..l
    BY <1>3, <1>4
  <2> HIDE DEF l, n
  <2>2. n \in Nat /\ n + 1 \in Int /\ n + 1 \in 1..(l + 1)
    BY <2>1
  <2> QED
    BY <2>2 DEF l
<1>9. rest \in String
  <2>1. key \in Seq(Nat) /\ n + 1 \in 1..(Len(key) + 1) /\ Len(key) \in Int
    BY <1>2, <1>4, <1>8 DEF String
  <2>2. \A i \in (n + 1)..Len(key) : key[i] \in Nat
    <3> DEFINE l == Len(key)
    <3>1. l \in Nat /\ n \in Nat
      BY <1>4, <1>8
    <3> HIDE DEF n, l
    <3>2. \A i \in (n + 1)..l : i \in 1..l
      BY <3>1
    <3>3. \A i \in 1..l : key[i] \in Nat
      BY <2>1, ElementOfSeq DEF l
    <3>4. \A i \in (n + 1)..l : key[i] \in Nat
      BY <3>2, <3>3
    <3> QED
      BY <3>4 DEF l
  <2>3. n + 1 \in Int /\ Len(key) \in Int
    BY <1>4, <1>8
  <2> HIDE DEF n, key
  <2>4. SubSeq(key, n + 1, Len(key)) \in Seq(Nat)
    BY <2>1, <2>2, <2>3, SubSeqProperties
  <2> QED
    BY <2>4 DEF String
<1> HIDE DEF n, rest, seq, e
<1>10. e \in BlockEntry
  BY <1>2, <1>5, <1>6, <1>8, <1>9 DEF BlockEntry
<1>11. /\ e.shared = n /\ e.unshared = rest /\ e.value = x.value /\ e.seq = seq
       /\ e.deleted = x.deleted
  BY <1>6
<1>12. Shortens(e, x, entries)
  BY <1>3, <1>7, <1>11 DEF Shortens, rest, seq
<1> QED
  BY <1>10, <1>12 DEF e

\* Add puts one entry after those already added.
LEMMA AddKeepsBlocks ==
  ASSUME NEW b, NEW entries, BlocksOK(b, entries), NEW x \in ReadEntry,
         NEW a, a = Add(b, x.key, x.value, x.seq, x.deleted)
  PROVE  /\ BlocksOK(a, Append(entries, x))
         /\ a.block # << >> /\ a.lastKey = x.key
         /\ a.count = b.count + 1 /\ a.state = b.state
<1> DEFINE min == IF b.minSeq = NoSequence \/ x.seq < b.minSeq THEN x.seq ELSE b.minSeq
           max == Larger(b.maxSeq, x.seq)
           c == Counted(b, min, max)
           e == BlockEntryOf(c, x)
           full == c.block # << >> /\ Bytes(c.block) + EntrySize(e) > BlockSize
           into == IF full THEN FlushBlock(c) ELSE c
<1>1. b \in Builders /\ x.seq \in Nat
  BY DEF BlocksOK, ReadEntry
<1>2. min \in Int /\ max \in Nat
  BY <1>1 DEF Builders, Larger
<1>3. a = AddToBlock(c, x.key, x.value, x.seq, x.deleted)
  BY <1>1 DEF Add, Builders, Counted
<1> HIDE DEF min, max
<1>4. BlocksOK(c, entries) /\ c.count = b.count + 1 /\ c.state = b.state
  BY <1>2, CountKeepsBlocks
<1>5. e \in BlockEntry /\ Shortens(e, x, entries)
  BY <1>4, LastKeyShortens
<1>6. a = [into EXCEPT
             !.block = Append(into.block, e),
             !.lastKey = x.key,
             !.restarts = IF Len(Append(into.block, e)) % RestartInterval = 0
                            THEN Append(@, Bytes(into.block)) ELSE @,
             !.dangling = @ \/ Bytes(into.block) + EntryHeader > into.capacity,
             !.capacity = Larger(@, Bytes(into.block) + EntrySize(e))]
  BY <1>3 DEF AddToBlock, BlockEntryOf
<1> HIDE DEF c, e
<1>7. /\ BlocksOK(into, entries) /\ into.count = c.count /\ into.state = c.state
      /\ full => into.block = << >>
  BY <1>4, FlushKeepsBlocks
<1>8. Fits(into, e)
  <2>1. CASE full
    BY <1>7, <2>1 DEF Fits
  <2>2. CASE ~full
    <3>1. into = c
      BY <2>2
    <3>2. ASSUME c.block # << >> PROVE Bytes(c.block) + EntrySize(e) <= BlockSize
      <4>1. ~(Bytes(c.block) + EntrySize(e) > BlockSize)
        BY <2>2, <3>2
      <4>2. c.block \in Seq(BlockEntry)
        BY <1>4 DEF BlocksOK, Builders
      <4> DEFINE m == Bytes(c.block)
                 k == EntrySize(e)
      <4>3. m \in Nat /\ k \in Nat /\ BlockSize \in Nat
        BY <1>5, <4>2, BytesType, HeaderInEntry, BuilderAssumption
      <4>4. ~(m + k > BlockSize)
        BY <4>1
      <4> HIDE DEF m, k
      <4>5. m + k <= BlockSize
        BY <4>3, <4>4
      <4> QED
        BY <4>5 DEF m, k
    <3> QED
      BY <3>1, <3>2 DEF Fits
  <2> QED
    BY <2>1, <2>2
<1> HIDE DEF full, into
<1>9. into \in Builders /\ into.block \in Seq(BlockEntry)
  BY <1>7 DEF BlocksOK, Builders
<1>10. Len(Append(into.block, e)) = Len(into.block) + 1
  BY <1>5, <1>9, AppendProperties
<1>11. a = WithEntry(into, e, x.key)
  BY <1>6, <1>10 DEF WithEntry
<1> QED
  BY <1>4, <1>5, <1>7, <1>8, <1>11, EntryGoesIn

-----------------------------------------------------------------------------
(* Opening, closing and giving up.                                         *)

\* A builder with the same blocks.
LEMMA SameBlocks ==
  ASSUME NEW b, NEW entries, BlocksOK(b, entries), NEW c \in Builders,
         c.block = b.block, c.restarts = b.restarts, c.lastKey = b.lastKey,
         c.index = b.index, c.closed = b.closed,
         c.capacity = b.capacity, c.dangling = b.dangling,
         c.blockOffset = b.blockOffset \/ b.index = << >>
  PROVE  BlocksOK(c, entries)
<1>1. IndexOK(c.index, c.closed, c.blockOffset)
  <2>1. IndexOK(b.index, b.closed, b.blockOffset)
    BY DEF BlocksOK
  <2>2. CASE c.blockOffset = b.blockOffset
    BY <2>1, <2>2
  <2>3. CASE b.index = << >>
    <3> DEFINE index == c.index
    <3>1. Len(index) = 0 /\ Len(index) = Len(c.closed)
      BY <2>1, <2>3 DEF IndexOK
    <3> HIDE DEF index
    <3>2. \A i \in 1..Len(index) : FALSE
      BY <3>1
    <3>3. IndexOK(index, c.closed, c.blockOffset)
      BY <3>1, <3>2 DEF IndexOK
    <3> QED
      BY <3>3 DEF index
  <2> QED
    BY <2>2, <2>3
<1> QED
  BY <1>1 DEF BlocksOK

\* A new builder has no blocks.
LEMMA NewBuilderStarts ==
  BlocksOK(NewBuilder, << >>) /\ NewBuilder.count = 0 /\ NewBuilder.state = "building"
<1> DEFINE none == << >>
           b == NewBuilder
<1>1. none \in Seq(ReadEntry) /\ none \in Seq(ClosedBlock) /\ none \in Seq(BlockEntry)
      /\ Len(none) = 0 /\ DOMAIN none = {}
  BY EmptySeq
<1>2. /\ b \in Builders
      /\ b.block = none /\ b.restarts = none /\ b.lastKey = Empty /\ b.blockOffset = 0
      /\ b.index = none /\ b.closed = none /\ b.capacity = BlockSize /\ b.dangling = FALSE
      /\ b.count = 0 /\ b.state = "building"
  BY BuilderAssumption DEF NewBuilder, Builders, NoSequence, Empty, String
<1>3. EntriesIn(none) = none
  BY <1>1, EntriesType
<1>4. none \o none = none
  BY <1>1, ConcatEmptySeq
<1>5. Reading(none) = none
  BY <1>1, ReadingType
<1>6. Stored(none) = none
  <2>1. Stored(none) = [i \in {} |-> [none[i] EXCEPT !.seq = @ % SeqModulus]]
    BY <1>1 DEF Stored
  <2>2. Stored(none) \in Seq(ReadEntry) /\ Len(Stored(none)) = 0
    BY <1>1, StoredEntries
  <2> QED
    BY <2>2, EmptySeq
<1> HIDE DEF none, b
<1>7. Reading(EntriesIn(b.closed) \o b.block) = Stored(none)
  BY <1>2, <1>3, <1>4, <1>5, <1>6
<1>8. b.block = << >>
  BY <1>2 DEF none
<1>9. IndexOK(b.index, b.closed, b.blockOffset)
  <2>1. \A i \in 1..Len(none) : FALSE
    BY <1>1
  <2> QED
    BY <1>2, <2>1 DEF IndexOK
<1>10. /\ \A i \in 1..Len(b.closed) :
           Range(b.closed[i].restarts) \subseteq Starts(b.closed[i].entries)
       /\ Range(b.restarts) \subseteq Starts(b.block) \cup {0}
  <2>1. \A i \in 1..Len(none) : FALSE
    BY <1>1
  <2>2. Range(none) = {}
    BY <1>1 DEF Range
  <2> QED
    BY <1>2, <2>1, <2>2
<1>11. b.capacity >= BlockSize
  BY <1>2, BuilderAssumption
<1>12. BlocksOK(b, none)
  BY <1>1, <1>2, <1>7, <1>8, <1>9, <1>10, <1>11 DEF BlocksOK
<1> QED
  BY <1>2, <1>12 DEF none, b

\* Setting the name does nothing to the blocks.
LEMMA NamingKeepsBlocks ==
  ASSUME NEW b, NEW entries, BlocksOK(b, entries), NEW c, c = [b EXCEPT !.named = TRUE]
  PROVE  BlocksOK(c, entries) /\ c.count = b.count
<1>1. b \in Builders
  BY DEF BlocksOK
<1>2. /\ c \in Builders
      /\ c.block = b.block /\ c.restarts = b.restarts /\ c.lastKey = b.lastKey
      /\ c.index = b.index /\ c.closed = b.closed /\ c.capacity = b.capacity
      /\ c.dangling = b.dangling /\ c.blockOffset = b.blockOffset /\ c.count = b.count
  BY <1>1 DEF Builders
<1> QED
  BY <1>2, SameBlocks

\* Opening the file closes the last block.
LEMMA OpenedKeepsBlocks ==
  ASSUME NEW b, NEW entries, BlocksOK(b, entries), NEW o, o = Opened(b)
  PROVE  /\ BlocksOK(o, entries) /\ o.count = b.count
         /\ b.block # << >> => IndexKills(o)
<1> DEFINE c == [b EXCEPT !.named = TRUE, !.open = TRUE, !.file = << >>]
<1>1. b \in Builders
  BY DEF BlocksOK
<1>2. << >> \in Seq(ClosedBlock)
  BY EmptySeq
<1>3. /\ c \in Builders
      /\ c.block = b.block /\ c.restarts = b.restarts /\ c.lastKey = b.lastKey
      /\ c.index = b.index /\ c.closed = b.closed /\ c.capacity = b.capacity
      /\ c.dangling = b.dangling /\ c.blockOffset = b.blockOffset /\ c.count = b.count
  BY <1>1, <1>2 DEF Builders
<1>4. o = FlushBlock(c)
  BY DEF Opened
<1> HIDE DEF c
<1>5. BlocksOK(c, entries)
  BY <1>3, SameBlocks
<1> QED
  BY <1>3, <1>4, <1>5, FlushKeepsBlocks DEF IndexKills

\* The rest of Finish, which only an empty index survives.
LEMMA ClosedKeepsBlocks ==
  ASSUME NEW b, NEW entries, BlocksOK(b, entries), ~IndexKills(b), NEW good \in BOOLEAN,
         NEW c, c = Closed(b, good)
  PROVE  BlocksOK(c, entries) /\ c.count = b.count
<1>1. b \in Builders /\ b.index = << >>
  BY DEF BlocksOK, IndexKills
<1> DEFINE offset == b.blockOffset + 2 * WordSize + MetaSize
<1>2. offset \in Nat
  <2>1. b.blockOffset \in Nat /\ WordSize \in Nat /\ MetaSize \in Nat
    BY <1>1, BuilderAssumption DEF Builders
  <2> QED
    BY <2>1
<1>3. c = [b EXCEPT !.open = FALSE, !.blockOffset = offset,
                    !.state = IF good THEN "finished" ELSE @]
  BY <1>1 DEF Closed, Builders
<1> HIDE DEF offset
<1>4. /\ c \in Builders
      /\ c.block = b.block /\ c.restarts = b.restarts /\ c.lastKey = b.lastKey
      /\ c.index = b.index /\ c.closed = b.closed /\ c.capacity = b.capacity
      /\ c.dangling = b.dangling /\ c.count = b.count
  BY <1>1, <1>2, <1>3 DEF Builders
<1> QED
  BY <1>1, <1>4, SameBlocks

\* Abandon takes the file away and leaves the blocks.
LEMMA AbandonKeepsBlocks ==
  ASSUME NEW b, NEW entries, BlocksOK(b, entries), NEW c, c = Abandon(b)
  PROVE  BlocksOK(c, entries) /\ c.count = b.count
<1>1. b \in Builders
  BY DEF BlocksOK
<1>2. << >> \in Seq(ClosedBlock)
  BY EmptySeq
<1>3. /\ c \in Builders
      /\ c.block = b.block /\ c.restarts = b.restarts /\ c.lastKey = b.lastKey
      /\ c.index = b.index /\ c.closed = b.closed /\ c.capacity = b.capacity
      /\ c.dangling = b.dangling /\ c.blockOffset = b.blockOffset /\ c.count = b.count
  BY <1>1, <1>2 DEF Abandon, Builders
<1> QED
  BY <1>3, SameBlocks

\* What a reader and the index find in blocks that are in order.
LEMMA BlocksRead ==
  ASSUME NEW b, NEW entries, BlocksOK(b, entries)
  PROVE  Decode(AllBlocks(b)) = Stored(entries) /\ IndexMatches(b) /\ ~b.dangling
<1> DEFINE last == [entries |-> b.block, restarts |-> b.restarts]
           all == AllBlocks(b)
<1>1. /\ b.block \in Seq(BlockEntry) /\ b.restarts \in Seq(Nat)
      /\ b.closed \in Seq(ClosedBlock) /\ b.index \in Seq(IndexEntry)
  BY DEF BlocksOK, Builders
<1>2. last \in ClosedBlock /\ last.entries = b.block /\ last.restarts = b.restarts
  BY <1>1 DEF ClosedBlock
<1>3. Reading(EntriesIn(b.closed) \o b.block) = Stored(entries)
  BY DEF BlocksOK
<1>4. EntriesIn(all) = EntriesIn(b.closed) \o b.block
  <2>1. CASE b.block = << >>
    <3>1. EntriesIn(b.closed) \o << >> = EntriesIn(b.closed)
      BY <1>1, EntriesType, ConcatEmptySeq
    <3> QED
      BY <2>1, <3>1 DEF AllBlocks
  <2>2. CASE b.block # << >>
    <3>1. all = Append(b.closed, last)
      BY <2>2 DEF AllBlocks
    <3> HIDE DEF all, last
    <3> QED
      BY <1>1, <1>2, <3>1, EntriesFolds DEF Joined
  <2> QED
    BY <2>1, <2>2
<1>5. Decode(all) = Stored(entries)
  BY <1>3, <1>4 DEF Decode, Reading
<1>6. ASSUME NEW i \in DOMAIN all
      PROVE  Range(all[i].restarts) \subseteq Starts(all[i].entries)
  <2>1. \A k \in 1..Len(b.closed) : Range(b.closed[k].restarts) \subseteq Starts(b.closed[k].entries)
    BY DEF BlocksOK
  <2>2. DOMAIN b.closed = 1..Len(b.closed) /\ Len(b.closed) \in Nat
    BY <1>1, LenProperties
  <2>3. CASE b.block = << >>
    BY <1>6, <2>1, <2>2, <2>3 DEF AllBlocks
  <2>4. CASE b.block # << >>
    <3>1. all = Append(b.closed, last)
      BY <2>4 DEF AllBlocks
    <3> HIDE DEF all, last
    <3>2. /\ DOMAIN all = 1..(Len(b.closed) + 1)
          /\ \A k \in 1..Len(b.closed) : all[k] = b.closed[k]
          /\ all[Len(b.closed) + 1] = last
      BY <1>1, <1>2, <3>1, AppendProperties, LenProperties
    <3>3. CASE i = Len(b.closed) + 1
      <4>1. Range(b.restarts) \subseteq Starts(b.block) \cup {0}
        BY DEF BlocksOK
      <4>2. 0 \in Starts(b.block)
        BY <1>1, <2>4, BlockStartsAtZero
      <4> QED
        BY <1>2, <3>2, <3>3, <4>1, <4>2
    <3>4. CASE i # Len(b.closed) + 1
      <4>1. i \in 1..Len(b.closed)
        BY <1>6, <2>2, <3>2, <3>4
      <4> QED
        BY <2>1, <3>2, <4>1
    <3> QED
      BY <3>3, <3>4
  <2> QED
    BY <2>3, <2>4
<1>7. IndexMatches(b)
  <2>1. DOMAIN b.index = 1..Len(b.index)
    BY <1>1, LenProperties
  <2>2. IndexOK(b.index, b.closed, b.blockOffset)
    BY DEF BlocksOK
  <2> DEFINE index == b.index
             closed == b.closed
  <2> HIDE DEF all
  <2>3. ASSUME NEW i \in DOMAIN index
        PROVE  /\ index[i].key = Last(Decode(SubSeq(closed, 1, i))).key
               /\ index[i].size = Bytes(closed[i].entries) + WordSize * (Len(closed[i].restarts) + 1)
               /\ index[i].offset + index[i].size =
                    IF i = Len(index) THEN b.blockOffset ELSE index[i + 1].offset
    BY <2>1, <2>2, <2>3 DEF IndexOK, BlockBytes
  <2>4. ASSUME NEW i \in DOMAIN all
        PROVE  Range(all[i].restarts) \subseteq
                 {Bytes(SubSeq(all[i].entries, 1, n)) : n \in 0..(Len(all[i].entries) - 1)}
    BY <1>6, Zenon DEF Starts
  <2>5. Len(index) = Len(closed)
    BY <2>2 DEF IndexOK
  <2> QED
    BY <2>3, <2>4, <2>5, Zenon DEF IndexMatches, all
<1> QED
  BY <1>5, <1>7 DEF BlocksOK

-----------------------------------------------------------------------------
(* PerformFlush and a builder in the hands of a caller.                    *)

\* Node n as the scan hands it to the builder.
Handed(ns, n) ==
  [key |-> ns[n].key, value |-> ns[n].value, seq |-> ns[n].seq, deleted |-> ns[n].deleted]

\* The first p nodes of the list L, as the builder took them.
Taken(ns, L, p) == [i \in 1..p |-> Handed(ns, L[i])]

\* The scan has taken p nodes of the list L.
ScanAt(L, p) ==
  /\ p \in 0..Len(L)
  /\ cursor = At(L, p + 1)
  /\ added = Taken(nodes, L, p)
  /\ p > 0 => builder.lastKey = nodes[L[p]].key /\ builder.block # << >>

\* The builder's blocks hold the entries that were added.
BuilderInv == BlocksOK(builder, added) /\ builder.count = Len(added)

\* The inductive invariant of the flush.
FlushInv ==
  /\ BuilderInv
  /\ phase \in {"filling", "scanning", "building", "over"}
  /\ phase = "filling" => added = << >> /\ result = "none" /\ builder.state = "building"
  /\ phase = "scanning" =>
       /\ result = "none" /\ builder.state = "building"
       /\ \E L, p : Listed(nodes, L) /\ ScanAt(L, p)
  /\ phase = "over" /\ result = "OK" /\ revived = 0 =>
       Live(nodes) = {} \/ Len(nodes) > SizeModulus

\* A caller's entry, and a node's, is an entry.
LEMMA EntriesHanded ==
  /\ \A key \in Key, value \in Value, seq \in Sequence, deleted \in BOOLEAN :
       [key |-> key, value |-> value, seq |-> seq, deleted |-> deleted] \in ReadEntry
  /\ NodesOK(nodes) => \A n \in 2..Len(nodes) : Handed(nodes, n) \in ReadEntry
<1>1. Key \subseteq String /\ Value \subseteq String /\ Sequence \subseteq Nat
  BY TableAssumption DEF String
<1> QED
  BY <1>1 DEF ReadEntry, NodesOK, NodeRecord, Handed

\* AddEntry appends one entry to what the blocks hold.
LEMMA AddEntryKeepsBlocks ==
  ASSUME BuilderInv, NEW key, NEW value, NEW seq, NEW deleted,
         [key |-> key, value |-> value, seq |-> seq, deleted |-> deleted] \in ReadEntry,
         AddEntry(key, value, seq, deleted)
  PROVE  /\ BuilderInv'
         /\ builder'.block # << >> /\ builder'.lastKey = key /\ builder'.state = builder.state
<1> DEFINE x == [key |-> key, value |-> value, seq |-> seq, deleted |-> deleted]
<1>1. /\ builder' = Add(builder, x.key, x.value, x.seq, x.deleted)
      /\ added' = Append(added, x) /\ x \in ReadEntry /\ x.key = key
  BY DEF AddEntry
<1> HIDE DEF x
<1>2. BlocksOK(builder, added) /\ builder.count = Len(added) /\ added \in Seq(ReadEntry)
  BY DEF BuilderInv, BlocksOK
<1>3. /\ BlocksOK(builder', added')
      /\ builder'.block # << >> /\ builder'.lastKey = key
      /\ builder'.count = builder.count + 1 /\ builder'.state = builder.state
  BY <1>1, <1>2, AddKeepsBlocks
<1>4. Len(added') = Len(added) + 1
  BY <1>1, <1>2, AppendProperties
<1> QED
  BY <1>2, <1>3, <1>4 DEF BuilderInv

\* Finish keeps what the blocks hold, and does not return OK after an entry.
LEMMA FinishKeepsBlocks ==
  ASSUME BuilderInv, Finish, added' = added
  PROVE  /\ BuilderInv'
         /\ result' = "OK" => result = "OK" \/ builder.block = << >>
<1>1. BlocksOK(builder, added) /\ builder.count = Len(added)
  BY DEF BuilderInv
<1>2. /\ BlocksOK(Opened(builder), added) /\ Opened(builder).count = builder.count
      /\ builder.block # << >> => IndexKills(Opened(builder))
  BY <1>1, OpenedKeepsBlocks
<1>3. CASE builder' = [builder EXCEPT !.named = TRUE] /\ result' = "IOError"
  <2>1. BlocksOK(builder', added) /\ builder'.count = builder.count
    BY <1>1, <1>3, NamingKeepsBlocks
  <2> QED
    BY <1>1, <1>3, <2>1 DEF BuilderInv
<1>4. CASE builder' = Opened(builder) /\ result' = result
  BY <1>1, <1>2, <1>4 DEF BuilderInv
<1>5. ASSUME ~IndexKills(Opened(builder)), NEW good \in BOOLEAN,
             builder' = Closed(Opened(builder), good)
      PROVE  BuilderInv' /\ builder.block = << >>
  <2>1. BlocksOK(builder', added) /\ builder'.count = Opened(builder).count
    BY <1>2, <1>5, ClosedKeepsBlocks
  <2> QED
    BY <1>1, <1>2, <1>5, <2>1 DEF BuilderInv
<1> QED
  BY <1>3, <1>4, <1>5 DEF Finish

\* One node more was taken.
LEMMA TakenGrows ==
  ASSUME NEW ns, NEW L, NEW p \in Nat
  PROVE  /\ Taken(ns, L, 0) = << >>
         /\ (\A i \in 1..(p + 1) : Handed(ns, L[i]) \in ReadEntry) =>
              /\ Taken(ns, L, p) \in Seq(ReadEntry) /\ Len(Taken(ns, L, p)) = p
              /\ Append(Taken(ns, L, p), Handed(ns, L[p + 1])) = Taken(ns, L, p + 1)
<1>1. Taken(ns, L, 0) = << >>
  <2>1. Taken(ns, L, 0) \in Seq({}) /\ Len(Taken(ns, L, 0)) = 0
    BY DEF Taken
  <2> QED
    BY <2>1, EmptySeq
<1>2. ASSUME \A i \in 1..(p + 1) : Handed(ns, L[i]) \in ReadEntry
      PROVE  /\ Taken(ns, L, p) \in Seq(ReadEntry) /\ Len(Taken(ns, L, p)) = p
             /\ Append(Taken(ns, L, p), Handed(ns, L[p + 1])) = Taken(ns, L, p + 1)
  <2> DEFINE s == Taken(ns, L, p)
             x == Handed(ns, L[p + 1])
             t == Taken(ns, L, p + 1)
             u == Append(s, x)
  <2>1. s \in [1..p -> ReadEntry] /\ t \in [1..(p + 1) -> ReadEntry]
    BY <1>2 DEF Taken
  <2>2. s \in Seq(ReadEntry) /\ Len(s) = p /\ t \in Seq(ReadEntry) /\ Len(t) = p + 1
    BY <2>1
  <2>3. (\A i \in 1..p : s[i] = t[i]) /\ t[p + 1] = x /\ x \in ReadEntry
    BY <1>2 DEF Taken
  <2> HIDE DEF s, t, x
  <2>4. /\ u \in Seq(ReadEntry) /\ Len(u) = p + 1
        /\ \A i \in 1..p : u[i] = s[i]
        /\ u[p + 1] = x
    BY <2>2, <2>3, AppendProperties
  <2> HIDE DEF u
  <2>5. ASSUME NEW i \in 1..(p + 1) PROVE u[i] = t[i]
    <3>1. i \in 1..p \/ i = p + 1
      OBVIOUS
    <3> QED
      BY <2>3, <2>4, <3>1
  <2>6. u = t
    BY <2>2, <2>4, <2>5, SeqEqual
  <2> QED
    BY <2>2, <2>6 DEF s, t, u, x
<1> QED
  BY <1>1, <1>2

\* With few nodes, a table that counts no entry and brought none back has
\* none that is live.
LEMMA NoneCountedNoneLive ==
  ASSUME TableInv, size = 0, revived = 0
  PROVE  Live(nodes) = {} \/ Len(nodes) > SizeModulus
<1> DEFINE c == Cardinality(Live(nodes))
           n == Len(nodes)
<1>1. NodesOK(nodes) /\ size = (c - revived) % SizeModulus /\ SizeModulus \in Nat \ {0}
  BY TableAssumption DEF TableInv
<1>2. IsFiniteSet(Live(nodes)) /\ c \in Nat /\ n \in Nat \ {0}
  BY <1>1, LiveFinite, NodeTypes
<1>3. c <= n - 1
  <2>1. Live(nodes) \in SUBSET (2..n)
    BY DEF Live
  <2>2. IsFiniteSet(2..n) /\ Cardinality(2..n) = IF 2 > n THEN 0 ELSE n - 2 + 1
    <3>1. 2 \in Int /\ n \in Int
      BY <1>2
    <3> HIDE DEF n
    <3> QED
      BY <3>1, FS_Interval
  <2>3. c <= Cardinality(2..n)
    BY <2>1, <2>2, FS_Subset
  <2> HIDE DEF c, n
  <2> QED
    BY <1>2, <2>2, <2>3
<1> HIDE DEF c, n
<1>4. CASE c = 0
  <2>1. Live(nodes) = {}
    BY <1>2, <1>4, FS_EmptySet DEF c
  <2> QED
    BY <2>1
<1>5. CASE c # 0
  <2>1. c % SizeModulus = 0
    BY <1>1, <1>2
  <2>2. ~(c < SizeModulus)
    BY <1>1, <1>2, <1>5, <2>1
  <2>3. n > SizeModulus
    BY <1>1, <1>2, <1>3, <2>2
  <2> QED
    BY <2>3 DEF n
<1> QED
  BY <1>4, <1>5

\* The cursor is on a node as long as the scan has not taken them all.
LEMMA CursorOnNode ==
  ASSUME NodesOK(nodes), NEW L, Listed(nodes, L), NEW p, ScanAt(L, p)
  PROVE  /\ p \in Nat
         /\ cursor # Null => /\ p + 1 \in 1..Len(L) /\ cursor = L[p + 1]
                             /\ nodes[cursor].forward[0] = At(L, p + 2)
         /\ cursor = Null => p = Len(L)
<1> DEFINE l == Len(L)
<1>1. l \in Nat /\ p \in 0..l /\ cursor = At(L, p + 1)
      /\ \A i \in 1..l : L[i] \in 2..Len(nodes)
  BY ListedNodes DEF ScanAt
<1>2. cursor = IF p + 1 <= l THEN L[p + 1] ELSE Null
  <2> HIDE DEF l
  <2>1. p + 1 # 0
    BY <1>1
  <2> QED
    BY <1>1, <2>1 DEF At, l
<1>3. \A i \in 0..l : nodes[At(L, i)].forward[0] = At(L, i + 1)
  BY DEF Listed
<1> HIDE DEF l
<1>4. ASSUME cursor # Null
      PROVE  p + 1 \in 1..l /\ cursor = L[p + 1] /\ nodes[cursor].forward[0] = At(L, p + 2)
  <2>1. p + 1 \in 1..l /\ p + 1 \in 0..l /\ p + 1 + 1 = p + 2
    BY <1>1, <1>2, <1>4
  <2>2. nodes[At(L, p + 1)].forward[0] = At(L, p + 1 + 1)
    BY <1>3, <2>1
  <2> QED
    BY <1>1, <1>2, <1>4, <2>1, <2>2
<1>5. ASSUME cursor = Null PROVE p = l
  <2>1. CASE p + 1 <= l
    <3>1. p + 1 \in 1..l
      BY <1>1, <2>1
    <3>2. L[p + 1] \in 2..Len(nodes)
      BY <1>1, <3>1
    <3>3. L[p + 1] # Null
      BY <3>2 DEF Null
    <3> QED
      BY <1>2, <1>5, <2>1, <3>3
  <2>2. CASE ~(p + 1 <= l)
    BY <1>1, <2>2
  <2> QED
    BY <2>1, <2>2
<1> QED
  BY <1>1, <1>4, <1>5 DEF l

\* The builder takes the node at the cursor.
LEMMA CursorAccepted ==
  ASSUME NodesOK(nodes), NEW L, Listed(nodes, L), NEW p, ScanAt(L, p), cursor # Null,
         builder.state = "building", builder.count = Len(added)
  PROVE  Accepts(builder, nodes[cursor].key)
<1>1. p \in Nat /\ p + 1 \in 1..Len(L) /\ cursor = L[p + 1]
  BY CursorOnNode
<1>2. Len(added) = p
  <2> DEFINE s == added
  <2>1. s = [i \in 1..p |-> Handed(nodes, L[i])]
    BY DEF ScanAt, Taken
  <2> HIDE DEF s
  <2>2. Len(s) = p
    BY <1>1, <2>1
  <2> QED
    BY <2>2 DEF s
<1>3. ASSUME p > 0 PROVE Before(builder.lastKey, nodes[cursor].key)
  <2>1. builder.lastKey = nodes[L[p]].key
    BY <1>3 DEF ScanAt
  <2>2. p \in 1..Len(L) /\ p < p + 1
    <3> DEFINE l == Len(L)
    <3>1. l \in Nat /\ p + 1 \in 1..l
      BY <1>1, ListedNodes
    <3> HIDE DEF l
    <3>2. p \in 1..l
      BY <1>1, <1>3, <3>1
    <3> QED
      BY <1>1, <3>2 DEF l
  <2>3. Before(nodes[L[p]].key, nodes[L[p + 1]].key)
    BY <1>1, <2>2 DEF Listed
  <2> QED
    BY <1>1, <2>1, <2>3
<1> QED
  BY <1>2, <1>3 DEF Accepts

\* The flush starts with an empty builder.
LEMMA FlushStarts ==
  ASSUME Init
  PROVE  FlushInv
<1>1. builder = NewBuilder /\ added = << >> /\ result = "none" /\ phase \in {"filling", "building"}
  BY DEF Init
<1>2. Len(<< >>) = 0
  OBVIOUS
<1>3. BuilderInv
  <2> DEFINE none == << >>
  <2>1. BlocksOK(NewBuilder, none) /\ NewBuilder.count = 0 /\ added = none /\ Len(none) = 0
    BY <1>1, NewBuilderStarts
  <2> HIDE DEF none
  <2> QED
    BY <1>1, <2>1 DEF BuilderInv
<1> QED
  BY <1>1, <1>3, NewBuilderStarts DEF FlushInv

\* One step of the scan.
LEMMA ScanStepKeepsInv ==
  ASSUME TableInv, FlushInv, ScanStep
  PROVE  FlushInv'
<1>1. /\ NodesOK(nodes) /\ BuilderInv /\ phase = "scanning" /\ cursor # Null
      /\ result = "none" /\ builder.state = "building" /\ builder.count = Len(added)
      /\ UNCHANGED tableVars
  BY DEF TableInv, FlushInv, BuilderInv, ScanStep
<1>2. PICK L, p : Listed(nodes, L) /\ ScanAt(L, p)
  BY <1>1 DEF FlushInv
<1> DEFINE node == nodes[cursor]
<1>3. Accepts(builder, node.key)
  BY <1>1, <1>2, CursorAccepted
<1>4. /\ AddEntry(node.key, node.value, node.seq, node.deleted)
      /\ cursor' = node.forward[0] /\ phase' = phase /\ result' = result
  BY <1>3 DEF ScanStep
<1>5. /\ p \in Nat /\ p + 1 \in 1..Len(L) /\ cursor = L[p + 1]
      /\ node.forward[0] = At(L, p + 2)
  BY <1>1, <1>2, CursorOnNode
<1>6. /\ Len(L) \in Nat /\ \A i \in 1..Len(L) : L[i] \in 2..Len(nodes)
      /\ \A i \in 1..Len(L) : Handed(nodes, L[i]) \in ReadEntry
  BY <1>1, <1>2, ListedNodes, EntriesHanded
<1>7. [key |-> node.key, value |-> node.value, seq |-> node.seq, deleted |-> node.deleted]
        = Handed(nodes, L[p + 1])
  BY <1>5 DEF Handed
<1>8. /\ BuilderInv'
      /\ builder'.block # << >> /\ builder'.lastKey = node.key /\ builder'.state = "building"
  BY <1>1, <1>4, <1>5, <1>6, <1>7, AddEntryKeepsBlocks
<1>9. added' = Taken(nodes, L, p + 1)
  <2>1. added' = Append(Taken(nodes, L, p), Handed(nodes, L[p + 1]))
    BY <1>2, <1>4, <1>7 DEF AddEntry, ScanAt
  <2>2. \A i \in 1..(p + 1) : Handed(nodes, L[i]) \in ReadEntry
    <3> DEFINE l == Len(L)
    <3>1. l \in Nat /\ p + 1 \in 1..l
      BY <1>5, <1>6
    <3> HIDE DEF l
    <3>2. \A i \in 1..(p + 1) : i \in 1..l
      BY <1>5, <3>1
    <3> QED
      BY <1>6, <3>2 DEF l
  <2> QED
    BY <1>5, <2>1, <2>2, TakenGrows
<1>10. nodes' = nodes
  BY <1>1 DEF tableVars
<1>11. Listed(nodes', L)
  BY <1>2, <1>10
<1>12. ScanAt(L, p + 1)'
  <2> DEFINE l == Len(L)
             q == p + 1
  <2>1. q \in 0..l /\ q + 1 = p + 2
    <3>1. l \in Nat /\ q \in 1..l
      BY <1>5, <1>6
    <3> HIDE DEF l
    <3> QED
      BY <1>5, <3>1
  <2>2. cursor' = At(L, q + 1) /\ added' = Taken(nodes', L, q)
    BY <1>4, <1>5, <1>9, <1>10, <2>1
  <2>3. builder'.lastKey = nodes'[L[q]].key /\ builder'.block # << >>
    BY <1>5, <1>8, <1>10
  <2> HIDE DEF q, l
  <2>4. ScanAt(L, q)'
    BY <2>1, <2>2, <2>3 DEF ScanAt, l
  <2> QED
    BY <2>4 DEF q
<1> QED
  BY <1>1, <1>4, <1>8, <1>11, <1>12 DEF FlushInv

\* The end of the scan.
LEMMA FinishScanKeepsInv ==
  ASSUME TableInv, FlushInv, FinishScan
  PROVE  FlushInv'
<1>1. /\ NodesOK(nodes) /\ BuilderInv /\ phase = "scanning" /\ cursor = Null
      /\ result = "none" /\ Finish /\ phase' = "over" /\ added' = added /\ nodes' = nodes
  BY DEF TableInv, FlushInv, FinishScan
<1>2. PICK L, p : Listed(nodes, L) /\ ScanAt(L, p)
  BY <1>1 DEF FlushInv
<1>3. BuilderInv' /\ (result' = "OK" => builder.block = << >>)
  BY <1>1, FinishKeepsBlocks
<1>4. ASSUME builder.block = << >> PROVE Live(nodes') = {}
  <2>1. p \in Nat /\ p = Len(L) /\ ~(p > 0)
    BY <1>1, <1>2, <1>4, CursorOnNode DEF ScanAt
  <2> DEFINE l == Len(L)
  <2>2. l = 0
    BY <2>1
  <2>3. \A n \in 2..Len(nodes) : \E i \in 1..l : L[i] = n
    BY <1>2 DEF Listed
  <2> HIDE DEF l
  <2>4. \A n \in 2..Len(nodes) : FALSE
    BY <2>2, <2>3
  <2> QED
    BY <1>1, <2>4 DEF Live
<1> QED
  BY <1>1, <1>3, <1>4 DEF FlushInv

\* The scan begins at the first node.
LEMMA StartScanKeepsInv ==
  ASSUME TableInv, FlushInv, StartScan
  PROVE  FlushInv'
<1>1. /\ NodesOK(nodes) /\ BuilderInv /\ added = << >> /\ result = "none"
      /\ builder.state = "building" /\ phase' = "scanning"
      /\ cursor' = nodes[HeadNode].forward[0]
      /\ UNCHANGED <<tableVars, builder, result, added>>
  BY DEF TableInv, FlushInv, StartScan
<1>2. PICK L : Listed(nodes, L)
  BY DEF TableInv
<1>3. nodes' = nodes
  BY <1>1 DEF tableVars
<1>4. cursor' = At(L, 1) /\ 0 \in 0..Len(L)
  <2>1. Len(L) \in Nat
    BY <1>1, <1>2, ListedNodes
  <2>2. At(L, 0) = HeadNode /\ 0 \in 0..Len(L) /\ 0 + 1 = 1
    BY <2>1 DEF At
  <2> QED
    BY <1>1, <1>2, <2>2 DEF Listed
<1>5. added' = Taken(nodes', L, 0)
  <2>1. 0 \in Nat
    OBVIOUS
  <2> QED
    BY <1>1, <2>1, TakenGrows
<1>6. ScanAt(L, 0)'
  BY <1>4, <1>5 DEF ScanAt
<1>7. BuilderInv'
  BY <1>1 DEF BuilderInv
<1> QED
  BY <1>1, <1>2, <1>3, <1>6, <1>7 DEF FlushInv

\* What a caller does with a builder of its own.
LEMMA CallsKeepInv ==
  ASSUME FlushInv, CallAdd \/ CallFinish \/ CallAbandon
  PROVE  FlushInv'
<1>1. BuilderInv /\ phase = "building" /\ phase' = phase
  BY DEF FlushInv, CallAdd, CallFinish, CallAbandon
<1>2. BuilderInv'
  <2>1. CASE CallAdd
    <3>1. PICK key \in Key, value \in Value, seq \in Sequence, deleted \in BOOLEAN :
            AddEntry(key, value, seq, deleted)
      BY <2>1 DEF CallAdd
    <3>2. [key |-> key, value |-> value, seq |-> seq, deleted |-> deleted] \in ReadEntry
      BY EntriesHanded
    <3> QED
      BY <1>1, <3>1, <3>2, AddEntryKeepsBlocks
  <2>2. CASE CallFinish
    BY <1>1, <2>2, FinishKeepsBlocks DEF CallFinish
  <2>3. CASE CallAbandon
    <3>1. BlocksOK(builder, added) /\ builder.count = Len(added)
          /\ builder' = Abandon(builder) /\ added' = added
      BY <1>1, <2>3 DEF BuilderInv, CallAbandon
    <3>2. BlocksOK(builder', added) /\ builder'.count = builder.count
      BY <3>1, AbandonKeepsBlocks
    <3> QED
      BY <3>1, <3>2 DEF BuilderInv
  <2> QED
    BY <2>1, <2>2, <2>3
<1> QED
  BY <1>1, <1>2 DEF FlushInv

\* The blocks, the scan and the answer stay in order through every step.
THEOREM TableFlushInvariant == Spec => []FlushInv
<1>1. Init => FlushInv
  BY FlushStarts
<1>2. TableInv /\ FlushInv /\ [Next]_vars => FlushInv'
  <2> SUFFICES ASSUME TableInv, FlushInv, [Next]_vars PROVE FlushInv'
    OBVIOUS
  <2>1. CASE UNCHANGED vars
    BY <2>1 DEF vars, tableVars, flushVars, FlushInv, BuilderInv, ScanAt
  <2>2. CASE Fill
    <3>1. phase = "filling" /\ UNCHANGED flushVars
      BY <2>2 DEF Fill
    <3> QED
      BY <3>1 DEF flushVars, FlushInv, BuilderInv
  <2>3. CASE FlushNothing
    <3>1. phase = "filling" /\ size = 0 /\ phase' = "over"
          /\ UNCHANGED <<tableVars, builder, cursor, added>>
      BY <2>3 DEF FlushNothing, Return
    <3>2. revived = 0 => Live(nodes) = {} \/ Len(nodes) > SizeModulus
      BY <3>1, NoneCountedNoneLive
    <3> QED
      BY <3>1, <3>2 DEF tableVars, FlushInv, BuilderInv
  <2>4. CASE StartScan
    BY <2>4, StartScanKeepsInv
  <2>5. CASE ScanStep
    BY <2>5, ScanStepKeepsInv
  <2>6. CASE FinishScan
    BY <2>6, FinishScanKeepsInv
  <2>7. CASE CallAdd \/ CallFinish \/ CallAbandon
    BY <2>7, CallsKeepInv
  <2> QED
    BY <2>1, <2>2, <2>3, <2>4, <2>5, <2>6, <2>7 DEF Next
<1> QED
  BY <1>1, <1>2, TableInvariant, PTL DEF Spec

\* The blocks, read in order, give back what was added, the index fits them
\* and no header is written behind their storage, for any sizes and intervals.
THEOREM FlushBlocksHold == Spec => []BlocksHoldEntries
<1>1. FlushInv => BlocksHoldEntries
  <2> SUFFICES ASSUME FlushInv PROVE BlocksHoldEntries
    OBVIOUS
  <2>1. BlocksOK(builder, added) /\ builder.count = Len(added)
    BY DEF FlushInv, BuilderInv
  <2>2. Decode(AllBlocks(builder)) = Stored(added) /\ IndexMatches(builder) /\ ~builder.dangling
    BY <2>1, BlocksRead
  <2> QED
    BY <2>1, <2>2, Zenon DEF BlocksHoldEntries, Stored
<1> QED
  BY <1>1, TableFlushInvariant, PTL

\* What was taken and what is left make up the list.
LEMMA ScanSplitsList ==
  ASSUME TableInv, NEW L, Listed(nodes, L), NEW p, ScanAt(L, p)
  PROVE  /\ Walk = L /\ From(cursor) = SubSeq(L, p + 1, Len(L))
         /\ Len(added) = p /\ Len(Walk) - Len(From(cursor)) = p
<1>1. NodesOK(nodes) /\ L \in Seq(2..Len(nodes)) /\ Len(L) \in Nat
      /\ p \in 0..Len(L) /\ cursor = At(L, p + 1)
  BY ListedNodes DEF TableInv, Listed, ScanAt
<1>2. Walk = L
  BY <1>1, WalkIsList
<1> DEFINE l == Len(L)
           q == p + 1
           rest == SubSeq(L, q, l)
<1>3. l \in Nat /\ p \in Nat /\ p <= l /\ q \in 1..(l + 1) /\ q = p + 1
  <2> HIDE DEF l
  <2>1. l \in Nat /\ p \in 0..l
    BY <1>1 DEF l
  <2> QED
    BY <2>1
<1>4. From(cursor) = rest
  <2>1. From(At(L, q)) = Rest(L, q)
    BY <1>1, <1>3, IteratorVisitsRest
  <2> QED
    BY <1>1, <2>1 DEF Rest
<1>5. Len(rest) = l - p
  <2> DEFINE m == Len(rest)
  <2>1. \A i \in q..l : L[i] \in 2..Len(nodes)
    <3> HIDE DEF l, q
    <3>1. \A i \in q..l : i \in 1..l
      BY <1>3
    <3>2. \A i \in 1..l : L[i] \in 2..Len(nodes)
      BY <1>1, ElementOfSeq DEF l
    <3> QED
      BY <3>1, <3>2
  <2>2. q \in Int /\ l \in Int
    BY <1>3
  <2>3. m = IF q <= l THEN l - q + 1 ELSE 0
    <3> HIDE DEF l, q
    <3> QED
      BY <1>1, <2>1, <2>2, SubSeqProperties
  <2> HIDE DEF m, l, q
  <2>4. m = l - p
    BY <1>3, <2>3
  <2> QED
    BY <2>4 DEF m
<1>6. Len(added) = p
  <2> DEFINE s == added
  <2>1. s = [i \in 1..p |-> Handed(nodes, L[i])]
    BY DEF ScanAt, Taken
  <2> HIDE DEF s, l, q
  <2>2. Len(s) = p
    BY <1>3, <2>1
  <2> QED
    BY <2>2 DEF s
<1>7. Len(Walk) - Len(From(cursor)) = p
  <2> DEFINE m == Len(rest)
  <2>1. Len(Walk) = l /\ Len(From(cursor)) = m /\ m = l - p
    BY <1>2, <1>4, <1>5
  <2> HIDE DEF m, l
  <2>2. l - m = p
    BY <1>3, <2>1
  <2> QED
    BY <2>1, <2>2
<1> QED
  BY <1>2, <1>4, <1>6, <1>7

\* PerformFlush hands over the table's entries in order, tombstones too, the
\* builder refuses none, and OK means that nothing live was dropped, as long
\* as the table has not more entries than size_ can count.
THEOREM FlushTakesEntries == Spec => [](Len(nodes) <= SizeModulus => FlushTakesTable)
<1>1. TableInv /\ FlushInv => (Len(nodes) <= SizeModulus => FlushTakesTable)
  <2> SUFFICES ASSUME TableInv, FlushInv, Len(nodes) <= SizeModulus
               PROVE  FlushTakesTable
    OBVIOUS
  <2> DEFINE Entry(n) == [key |-> nodes[n].key, value |-> nodes[n].value,
                          seq |-> nodes[n].seq, deleted |-> nodes[n].deleted]
  <2>1. NodesOK(nodes) /\ Len(nodes) \in Nat /\ SizeModulus \in Nat
    BY NodeTypes, TableAssumption DEF TableInv
  <2>2. ASSUME phase = "scanning"
        PROVE  /\ added = [i \in 1..(Len(Walk) - Len(From(cursor))) |-> Entry(Walk[i])]
               /\ From(cursor) = SubSeq(Walk, Len(added) + 1, Len(Walk))
               /\ cursor # Null => Accepts(builder, nodes[cursor].key)
    <3>1. PICK L, p : Listed(nodes, L) /\ ScanAt(L, p)
      BY <2>2 DEF FlushInv
    <3>2. /\ Walk = L /\ From(cursor) = SubSeq(L, p + 1, Len(L))
          /\ Len(added) = p /\ Len(Walk) - Len(From(cursor)) = p
      BY <3>1, ScanSplitsList
    <3>3. \A n : Entry(n) = Handed(nodes, n)
      BY DEF Handed
    <3>4. added = [i \in 1..p |-> Handed(nodes, L[i])]
      BY <3>1 DEF ScanAt, Taken
    <3>5. cursor # Null => Accepts(builder, nodes[cursor].key)
      BY <2>1, <2>2, <3>1, CursorAccepted DEF FlushInv, BuilderInv
    <3> HIDE DEF Entry
    <3>6. added = [i \in 1..(Len(Walk) - Len(From(cursor))) |-> Entry(Walk[i])]
      BY <3>2, <3>3, <3>4
    <3> QED
      BY <3>2, <3>5, <3>6
  <2>3. ASSUME phase = "over", result = "OK", revived = 0 PROVE LiveEntries = {}
    <3>1. Live(nodes) = {} \/ Len(nodes) > SizeModulus
      BY <2>3 DEF FlushInv
    <3>2. ~(Len(nodes) > SizeModulus)
      <4> DEFINE n == Len(nodes)
      <4>1. n \in Nat /\ n <= SizeModulus
        BY <2>1
      <4> HIDE DEF n
      <4>2. ~(n > SizeModulus)
        BY <2>1, <4>1
      <4> QED
        BY <4>2 DEF n
    <3> QED
      BY <3>1, <3>2, EntriesAreMap
  <2> QED
    BY <2>2, <2>3, Zenon DEF FlushTakesTable
<1> QED
  BY <1>1, TableInvariant, TableFlushInvariant, PTL
=============================================================================
