--------------------------- MODULE BPlusTreeProofs ---------------------------
(***************************************************************************)
(* What every sequence of Puts and Deletes leaves of the B+ tree, for all  *)
(* keys, values, node sizes and preloads: one tree, whose leaves are on    *)
(* one level, in a heap that accounts for every node.                      *)
(*                                                                         *)
(* A heap is seen as a forest: each node in use has a level, its children  *)
(* are one level down, and a node that is nobody's child is a root.        *)
(* Splits, borrowing, merging and changes of the root are six changes of   *)
(* that shape.  The recursions of the code are taken level by level.       *)
(***************************************************************************)
EXTENDS BPlusTree, FoldProofs, SequenceTheorems, FiniteSetTheorems

-----------------------------------------------------------------------------
(* Vectors: what the edits of keys, values and children leave.             *)

\* The sequences of n elements of S.
Vectors(S, n) == {s \in Seq(S) : Len(s) = n}

\* Two vectors one after the other.
LEMMA ConcatVectors ==
  ASSUME NEW S, NEW m \in Nat, NEW n \in Nat, NEW s \in Vectors(S, m), NEW t \in Vectors(S, n)
  PROVE  s \o t \in Vectors(S, m + n)
<1>1. s \in Seq(S) /\ t \in Seq(S) /\ Len(s) = m /\ Len(t) = n
  BY DEF Vectors
<1>2. s \o t \in Seq(S) /\ Len(s \o t) = Len(s) + Len(t)
  BY <1>1, ConcatProperties
<1> QED
  BY <1>1, <1>2 DEF Vectors

\* A vector of one element.
LEMMA OneVector ==
  ASSUME NEW S, NEW e \in S
  PROVE  <<e>> \in Vectors(S, 1)
BY DEF Vectors

\* What is at a position of a vector.
LEMMA ElementOfVector ==
  ASSUME NEW S, NEW n \in Nat, NEW s \in Vectors(S, n), NEW i \in 1..n
  PROVE  s[i] \in S
BY ElementOfSeq DEF Vectors

\* The two parts of a vector that is cut at i.
LEMMA CutVector ==
  ASSUME NEW S, NEW n \in Nat, NEW s \in Vectors(S, n), NEW i \in 0..n
  PROVE  /\ Take(s, i) \in Vectors(S, i)
         /\ Drop(s, i) \in Vectors(S, n - i)
         /\ \A j \in 1..i : Take(s, i)[j] = s[j]
         /\ \A j \in 1..(n - i) : Drop(s, i)[j] = s[i + j]
<1>1. s \in Seq(S) /\ Len(s) = n /\ \A j \in 1..n : s[j] \in S
  BY ElementOfSeq DEF Vectors
<1>2. /\ SubSeq(s, 1, i) \in Seq(S)
      /\ Len(SubSeq(s, 1, i)) = IF 1 <= i THEN i - 1 + 1 ELSE 0
      /\ \A j \in 1..(i - 1 + 1) : SubSeq(s, 1, i)[j] = s[1 + j - 1]
  BY <1>1, SubSeqProperties
<1>3. /\ SubSeq(s, i + 1, n) \in Seq(S)
      /\ Len(SubSeq(s, i + 1, n)) = IF i + 1 <= n THEN n - (i + 1) + 1 ELSE 0
      /\ \A j \in 1..(n - (i + 1) + 1) : SubSeq(s, i + 1, n)[j] = s[i + 1 + j - 1]
  <2>1. i + 1 \in Int /\ n \in Int /\ \A j \in (i + 1)..n : s[j] \in S
    BY <1>1
  <2> QED
    BY <2>1, SubSeqProperties
<1>4. Len(SubSeq(s, 1, i)) = i /\ \A j \in 1..i : SubSeq(s, 1, i)[j] = s[j]
  BY <1>2
<1>5. Len(SubSeq(s, i + 1, n)) = n - i /\ \A j \in 1..(n - i) : SubSeq(s, i + 1, n)[j] = s[i + j]
  BY <1>3
<1> QED
  BY <1>1, <1>2, <1>3, <1>4, <1>5 DEF Take, Drop, Vectors

\* The edits in terms of cuts.
LEMMA EditsCut ==
  ASSUME NEW S, NEW n \in Nat, NEW s \in Vectors(S, n), NEW e \in S
  PROVE  /\ \A i \in 0..n : InsertAt(s, i + 1, e) = (Take(s, i) \o <<e>>) \o Drop(s, i)
         /\ \A i \in 1..n : RemoveAt(s, i) = Take(s, i - 1) \o Drop(s, i)
         /\ Cons(e, s) = <<e>> \o s
         /\ Append(s, e) = s \o <<e>>
         /\ n > 0 => Tail(s) = Drop(s, 1) /\ Head(s) = s[1]
         /\ n > 0 => Front(s) = Take(s, n - 1) /\ Last(s) = s[n]
<1>1. s \in Seq(S) /\ Len(s) = n
  BY DEF Vectors
<1>2. ASSUME NEW i \in 0..n PROVE InsertAt(s, i + 1, e) = (Take(s, i) \o <<e>>) \o Drop(s, i)
  <2>1. (i + 1) - 1 = i
    OBVIOUS
  <2> QED
    BY <2>1 DEF InsertAt, Take, Drop
<1>3. Append(s, e) = s \o <<e>>
  BY <1>1, AppendIsConcat
<1>4. ASSUME n > 0 PROVE Tail(s) = Drop(s, 1) /\ Head(s) = s[1]
  <2>1. s # << >>
    BY <1>1, <1>4, EmptySeq
  <2>2. Tail(s) = SubSeq(s, 2, Len(s))
    BY <1>1, <2>1, TailIsSubSeq
  <2>3. 1 + 1 = 2
    OBVIOUS
  <2>4. Head(s) = s[1]
    BY <1>1, <2>1
  <2> QED
    BY <2>2, <2>3, <2>4 DEF Drop
<1>5. n > 0 => Front(s) = Take(s, n - 1) /\ Last(s) = s[n]
  BY <1>1 DEF Front, Take, Last
<1>6. \A i \in 1..n : RemoveAt(s, i) = Take(s, i - 1) \o Drop(s, i)
  BY DEF RemoveAt, Take, Drop
<1> QED
  BY <1>2, <1>3, <1>4, <1>5, <1>6 DEF Cons

\* Lengths after an edit.
LEMMA EditVector ==
  ASSUME NEW S, NEW n \in Nat, NEW s \in Vectors(S, n), NEW e \in S
  PROVE  /\ \A i \in 0..n : InsertAt(s, i + 1, e) \in Vectors(S, n + 1)
         /\ \A i \in 1..n : RemoveAt(s, i) \in Vectors(S, n - 1)
         /\ Cons(e, s) \in Vectors(S, n + 1)
         /\ Append(s, e) \in Vectors(S, n + 1)
         /\ \A i \in 1..n : [s EXCEPT ![i] = e] \in Vectors(S, n)
<1>1. <<e>> \in Vectors(S, 1)
  BY OneVector
<1>2. ASSUME NEW i \in 0..n PROVE InsertAt(s, i + 1, e) \in Vectors(S, n + 1)
  <2>1. Take(s, i) \in Vectors(S, i) /\ Drop(s, i) \in Vectors(S, n - i)
    BY CutVector
  <2>2. i \in Nat /\ n - i \in Nat /\ i + 1 \in Nat /\ (i + 1) + (n - i) = n + 1
    OBVIOUS
  <2>3. Take(s, i) \o <<e>> \in Vectors(S, i + 1)
    BY <1>1, <2>1, <2>2, ConcatVectors
  <2>4. (Take(s, i) \o <<e>>) \o Drop(s, i) \in Vectors(S, (i + 1) + (n - i))
    BY <2>1, <2>2, <2>3, ConcatVectors
  <2>5. InsertAt(s, i + 1, e) = (Take(s, i) \o <<e>>) \o Drop(s, i)
    BY EditsCut
  <2> QED
    BY <2>2, <2>4, <2>5
<1>3. ASSUME NEW i \in 1..n PROVE RemoveAt(s, i) \in Vectors(S, n - 1)
  <2>1. i - 1 \in 0..n /\ i \in 0..n /\ i - 1 \in Nat /\ n - i \in Nat /\ (i - 1) + (n - i) = n - 1
    OBVIOUS
  <2>2. Take(s, i - 1) \in Vectors(S, i - 1) /\ Drop(s, i) \in Vectors(S, n - i)
    BY <2>1, CutVector
  <2>3. Take(s, i - 1) \o Drop(s, i) \in Vectors(S, (i - 1) + (n - i))
    BY <2>1, <2>2, ConcatVectors
  <2>4. RemoveAt(s, i) = Take(s, i - 1) \o Drop(s, i)
    BY DEF RemoveAt, Take, Drop
  <2>5. Take(s, i - 1) \o Drop(s, i) \in Vectors(S, n - 1)
    BY <2>1, <2>3
  <2> QED
    BY <2>4, <2>5
<1>4. Cons(e, s) \in Vectors(S, n + 1) /\ Append(s, e) \in Vectors(S, n + 1)
  <2>1. <<e>> \o s \in Vectors(S, 1 + n) /\ s \o <<e>> \in Vectors(S, n + 1)
    BY <1>1, ConcatVectors
  <2>2. 1 + n = n + 1
    OBVIOUS
  <2> QED
    BY <2>1, <2>2, EditsCut
<1>5. ASSUME NEW i \in 1..n PROVE [s EXCEPT ![i] = e] \in Vectors(S, n)
  BY ExceptSeq DEF Vectors
<1> QED
  BY <1>2, <1>3, <1>4, <1>5

\* A vector without its last or first element, and that element.
LEMMA EndsOfVector ==
  ASSUME NEW S, NEW n \in Nat \ {0}, NEW s \in Vectors(S, n)
  PROVE  /\ Front(s) \in Vectors(S, n - 1) /\ Last(s) \in S
         /\ Tail(s) \in Vectors(S, n - 1) /\ Head(s) \in S
<1>1. s[1] \in S /\ s[n] \in S
  BY ElementOfVector
<1>2. n - 1 \in 0..n /\ 1 \in 0..n
  OBVIOUS
<1>3. Take(s, n - 1) \in Vectors(S, n - 1) /\ Drop(s, 1) \in Vectors(S, n - 1)
  BY <1>2, CutVector
<1>4. Tail(s) = Drop(s, 1) /\ Head(s) = s[1] /\ Front(s) = Take(s, n - 1) /\ Last(s) = s[n]
  <2>1. n \in Nat /\ n > 0
    OBVIOUS
  <2> QED
    BY <1>1, <2>1, EditsCut
<1> QED
  BY <1>1, <1>3, <1>4

-----------------------------------------------------------------------------
(* Lists of children: vectors without repetitions, and their sets.         *)

Lists(S, n, A) == {s \in Vectors(S, n) : ToSet(s) = A /\ IsInjective(s)}

\* What a list holds: each element of A once.
LEMMA ListElements ==
  ASSUME NEW S, NEW n \in Nat, NEW A, NEW s \in Lists(S, n, A)
  PROVE  /\ s \in Vectors(S, n) /\ DOMAIN s = 1..n
         /\ A \subseteq S
         /\ \A i \in 1..n : s[i] \in A
         /\ \A e \in A : \E i \in 1..n : s[i] = e
         /\ \A i, j \in 1..n : s[i] = s[j] => i = j
<1>1. s \in Seq(S) /\ Len(s) = n /\ DOMAIN s = 1..n
  BY LenProperties DEF Lists, Vectors
<1>2. \A i \in 1..n : s[i] \in S
  BY <1>1, ElementOfSeq
<1> QED
  BY <1>1, <1>2 DEF Lists, ToSet, IsInjective

\* A vector that holds each element of A once is a list of A.
LEMMA IsList ==
  ASSUME NEW S, NEW n \in Nat, NEW A, NEW s \in Vectors(S, n),
         \A i \in 1..n : s[i] \in A,
         \A e \in A : \E i \in 1..n : s[i] = e,
         \A i, j \in 1..n : s[i] = s[j] => i = j
  PROVE  s \in Lists(S, n, A)
<1>1. DOMAIN s = 1..n
  BY LenProperties DEF Vectors
<1> QED
  BY <1>1 DEF Lists, ToSet, IsInjective

\* A list of one element.
LEMMA OneList ==
  ASSUME NEW S, NEW e \in S
  PROVE  <<e>> \in Lists(S, 1, {e})
<1>1. <<e>> \in Vectors(S, 1) /\ <<e>>[1] = e
  BY OneVector
<1>2. \A i \in 1..1 : i = 1
  OBVIOUS
<1>3. 1 \in 1..1 /\ 1 \in Nat
  OBVIOUS
<1> DEFINE s == <<e>>
<1> HIDE DEF s
<1>4. s \in Lists(S, 1, {e})
  <2>1. s \in Vectors(S, 1) /\ s[1] = e
    BY <1>1 DEF s
  <2> QED
    BY <1>2, <1>3, <2>1, IsList
<1> QED
  BY <1>4 DEF s

\* Two lists with nothing in common, one after the other.
LEMMA ConcatLists ==
  ASSUME NEW S, NEW m \in Nat, NEW n \in Nat, NEW A, NEW B, A \cap B = {},
         NEW s \in Lists(S, m, A), NEW t \in Lists(S, n, B)
  PROVE  s \o t \in Lists(S, m + n, A \cup B)
<1>1. s \in Vectors(S, m) /\ t \in Vectors(S, n)
  BY ListElements
<1>2. s \o t \in Vectors(S, m + n)
  BY <1>1, ConcatVectors
<1> DEFINE c == s \o t
<1>3. \A i \in 1..(m + n) : c[i] = IF i <= m THEN s[i] ELSE t[i - m]
  <2>1. s \in Seq(S) /\ t \in Seq(S) /\ Len(s) = m /\ Len(t) = n
    BY <1>1 DEF Vectors
  <2>2. \A i \in 1..(Len(s) + Len(t)) : (s \o t)[i] = IF i <= Len(s) THEN s[i] ELSE t[i - Len(s)]
    BY <2>1, ConcatProperties
  <2> QED
    BY <2>1, <2>2
<1> HIDE DEF c
<1>4. \A i \in 1..m : c[i] = s[i]
  BY <1>3
<1>5. \A i \in 1..n : c[m + i] = t[i]
  <2> SUFFICES ASSUME NEW i \in 1..n PROVE c[m + i] = t[i]
    OBVIOUS
  <2>1. m + i \in 1..(m + n) /\ ~(m + i <= m) /\ (m + i) - m = i
    OBVIOUS
  <2> QED
    BY <1>3, <2>1
<1>6. \A i \in 1..(m + n) : i \in 1..m \/ (i - m \in 1..n /\ i = m + (i - m))
  OBVIOUS
<1>7. \A i \in 1..m : i \in 1..(m + n)
  OBVIOUS
<1>8. \A i \in 1..n : m + i \in 1..(m + n)
  OBVIOUS
<1>9. /\ \A i \in 1..m : s[i] \in A
      /\ \A e \in A : \E i \in 1..m : s[i] = e
      /\ \A i, j \in 1..m : s[i] = s[j] => i = j
  <2>1. DOMAIN s = 1..m
    BY <1>1, LenProperties DEF Vectors
  <2> QED
    BY <2>1 DEF Lists, ToSet, IsInjective
<1>10. /\ \A i \in 1..n : t[i] \in B
       /\ \A e \in B : \E i \in 1..n : t[i] = e
       /\ \A i, j \in 1..n : t[i] = t[j] => i = j
  <2>1. DOMAIN t = 1..n
    BY <1>1, LenProperties DEF Vectors
  <2> QED
    BY <2>1 DEF Lists, ToSet, IsInjective
<1>11. \A i \in 1..(m + n) : c[i] \in A \cup B
  BY <1>4, <1>5, <1>6, <1>9, <1>10
<1>12. \A e \in A \cup B : \E i \in 1..(m + n) : c[i] = e
  <2> SUFFICES ASSUME NEW e \in A \cup B PROVE \E i \in 1..(m + n) : c[i] = e
    OBVIOUS
  <2>1. CASE e \in A
    BY <1>4, <1>7, <1>9, <2>1
  <2>2. CASE e \in B
    BY <1>5, <1>8, <1>10, <2>2
  <2> QED
    BY <2>1, <2>2
<1>13. ASSUME NEW i \in 1..(m + n), NEW j \in 1..(m + n), c[i] = c[j] PROVE i = j
  <2>1. CASE i \in 1..m /\ j \in 1..m
    BY <1>4, <1>9, <1>13, <2>1
  <2>2. CASE i \in 1..m /\ j - m \in 1..n
    BY <1>4, <1>5, <1>6, <1>9, <1>10, <1>13, <2>2
  <2>3. CASE i - m \in 1..n /\ j \in 1..m
    BY <1>4, <1>5, <1>6, <1>9, <1>10, <1>13, <2>3
  <2>4. CASE i - m \in 1..n /\ j - m \in 1..n
    <3>1. c[m + (i - m)] = t[i - m] /\ c[m + (j - m)] = t[j - m]
      BY <1>5, <2>4
    <3>2. i = m + (i - m) /\ j = m + (j - m)
      OBVIOUS
    <3>3. t[i - m] = t[j - m]
      BY <1>13, <3>1, <3>2
    <3> QED
      BY <1>10, <2>4, <3>2, <3>3
  <2> QED
    BY <1>6, <2>1, <2>2, <2>3, <2>4
<1>14. m + n \in Nat /\ c \in Vectors(S, m + n)
  BY <1>2 DEF c
<1>15. c \in Lists(S, m + n, A \cup B)
  BY <1>11, <1>12, <1>13, <1>14, IsList
<1> QED
  BY <1>15 DEF c

\* The first i children and the others share out the set.
Cuts(S, n, A, s, i, B, C) ==
  /\ B \cup C = A /\ B \cap C = {}
  /\ Take(s, i) \in Lists(S, i, B)
  /\ Drop(s, i) \in Lists(S, n - i, C)
  /\ \A j \in 1..i : s[j] \in B
  /\ \A j \in (i + 1)..n : s[j] \in C

\* A list that is cut at i lists two disjoint sets.
LEMMA CutList ==
  ASSUME NEW S, NEW n \in Nat, NEW A, NEW s \in Lists(S, n, A), NEW i \in 0..n
  PROVE  \E B, C : Cuts(S, n, A, s, i, B, C)
<1> DEFINE B == {s[j] : j \in 1..i}
           C == {s[j] : j \in (i + 1)..n}
<1>1. /\ s \in Vectors(S, n)
      /\ \A j \in 1..n : s[j] \in A
      /\ \A e \in A : \E j \in 1..n : s[j] = e
      /\ \A j, k \in 1..n : s[j] = s[k] => j = k
  BY ListElements
<1>2. /\ Take(s, i) \in Vectors(S, i)
      /\ Drop(s, i) \in Vectors(S, n - i)
      /\ \A j \in 1..i : Take(s, i)[j] = s[j]
      /\ \A j \in 1..(n - i) : Drop(s, i)[j] = s[i + j]
  BY <1>1, CutVector
<1>3. i \in Nat /\ n - i \in Nat
  OBVIOUS
<1>4. B \cup C = A
  <2>1. \A j \in 1..n : j \in 1..i \/ j \in (i + 1)..n
    OBVIOUS
  <2>2. \A j \in 1..i : j \in 1..n
    OBVIOUS
  <2>3. \A j \in (i + 1)..n : j \in 1..n
    OBVIOUS
  <2> QED
    BY <1>1, <2>1, <2>2, <2>3
<1>5. B \cap C = {}
  <2> SUFFICES ASSUME NEW j \in 1..i, NEW k \in (i + 1)..n, s[j] = s[k] PROVE FALSE
    OBVIOUS
  <2>1. j \in 1..n /\ k \in 1..n /\ j # k
    OBVIOUS
  <2> QED
    BY <1>1, <2>1
<1>6. Take(s, i) \in Lists(S, i, B)
  <2> DEFINE t == Take(s, i)
  <2>1. t \in Vectors(S, i) /\ \A j \in 1..i : t[j] = s[j]
    BY <1>2
  <2> HIDE DEF t
  <2>2. \A j \in 1..i : t[j] \in B
    BY <2>1
  <2>3. \A e \in B : \E j \in 1..i : t[j] = e
    BY <2>1
  <2>4. \A j, k \in 1..i : t[j] = t[k] => j = k
    <3>1. \A j \in 1..i : j \in 1..n
      OBVIOUS
    <3> QED
      BY <1>1, <2>1, <3>1
  <2> HIDE DEF B
  <2>5. t \in Lists(S, i, B)
    BY <1>3, <2>1, <2>2, <2>3, <2>4, IsList
  <2> QED
    BY <2>5 DEF t
<1>7. Drop(s, i) \in Lists(S, n - i, C)
  <2> DEFINE t == Drop(s, i)
             m == n - i
  <2>1. t \in Vectors(S, m) /\ \A j \in 1..m : t[j] = s[i + j]
    BY <1>2
  <2>2. m \in Nat /\ \A j \in 1..m : i + j \in (i + 1)..n /\ i + j \in 1..n
    OBVIOUS
  <2>3. \A j \in (i + 1)..n : j - i \in 1..m /\ i + (j - i) = j
    OBVIOUS
  <2> HIDE DEF t, m
  <2>4. \A j \in 1..m : t[j] \in C
    BY <2>1, <2>2
  <2>5. \A e \in C : \E j \in 1..m : t[j] = e
    BY <2>1, <2>3
  <2>6. ASSUME NEW j \in 1..m, NEW k \in 1..m, t[j] = t[k] PROVE j = k
    <3>1. s[i + j] = s[i + k]
      BY <2>1, <2>6
    <3>2. i + j = i + k
      BY <1>1, <2>2, <3>1
    <3> QED
      BY <2>2, <3>2
  <2> HIDE DEF C
  <2>7. t \in Lists(S, m, C)
    BY <2>1, <2>2, <2>4, <2>5, <2>6, IsList
  <2> QED
    BY <2>7 DEF t, m
<1>8. (\A j \in 1..i : s[j] \in B) /\ (\A j \in (i + 1)..n : s[j] \in C)
  OBVIOUS
<1> HIDE DEF B, C
<1> QED
  BY <1>4, <1>5, <1>6, <1>7, <1>8 DEF Cuts

\* One child more.
LEMMA WiderList ==
  ASSUME NEW S, NEW n \in Nat, NEW A, NEW s \in Lists(S, n, A), NEW e \in S, e \notin A
  PROVE  /\ \A i \in 0..n : InsertAt(s, i + 1, e) \in Lists(S, n + 1, A \cup {e})
         /\ Cons(e, s) \in Lists(S, n + 1, A \cup {e})
         /\ Append(s, e) \in Lists(S, n + 1, A \cup {e})
<1>1. s \in Vectors(S, n) /\ <<e>> \in Lists(S, 1, {e}) /\ A \cap {e} = {} /\ {e} \cap A = {}
  BY ListElements, OneList
<1>2. ASSUME NEW i \in 0..n PROVE InsertAt(s, i + 1, e) \in Lists(S, n + 1, A \cup {e})
  <2>0. PICK B, C : Cuts(S, n, A, s, i, B, C)
    BY CutList
  <2>1. /\ B \cup C = A /\ B \cap C = {}
        /\ Take(s, i) \in Lists(S, i, B) /\ Drop(s, i) \in Lists(S, n - i, C)
    BY <2>0 DEF Cuts
  <2>2. i \in Nat /\ n - i \in Nat /\ i + 1 \in Nat /\ 1 \in Nat /\ (i + 1) + (n - i) = n + 1
    OBVIOUS
  <2>3. B \cap {e} = {} /\ (B \cup {e}) \cap C = {} /\ (B \cup {e}) \cup C = A \cup {e}
    BY <2>1
  <2>4. Take(s, i) \o <<e>> \in Lists(S, i + 1, B \cup {e})
    BY <1>1, <2>1, <2>2, <2>3, ConcatLists
  <2>5. (Take(s, i) \o <<e>>) \o Drop(s, i) \in Lists(S, (i + 1) + (n - i), (B \cup {e}) \cup C)
    BY <2>1, <2>2, <2>3, <2>4, ConcatLists
  <2>6. InsertAt(s, i + 1, e) = (Take(s, i) \o <<e>>) \o Drop(s, i)
    BY <1>1, EditsCut
  <2> QED
    BY <2>2, <2>3, <2>5, <2>6
<1>3. Cons(e, s) \in Lists(S, n + 1, A \cup {e})
  <2>1. <<e>> \o s \in Lists(S, 1 + n, {e} \cup A)
    BY <1>1, ConcatLists
  <2>2. 1 + n = n + 1 /\ {e} \cup A = A \cup {e}
    OBVIOUS
  <2>3. Cons(e, s) = <<e>> \o s
    BY <1>1, EditsCut
  <2> QED
    BY <2>1, <2>2, <2>3
<1>4. Append(s, e) \in Lists(S, n + 1, A \cup {e})
  <2>1. s \o <<e>> \in Lists(S, n + 1, A \cup {e})
    BY <1>1, ConcatLists
  <2>2. Append(s, e) = s \o <<e>>
    BY <1>1, EditsCut
  <2> QED
    BY <2>1, <2>2
<1> QED
  BY <1>2, <1>3, <1>4

\* One child less.
LEMMA NarrowerList ==
  ASSUME NEW S, NEW n \in Nat, NEW A, NEW s \in Lists(S, n, A), NEW i \in 1..n
  PROVE  s[i] \in A /\ RemoveAt(s, i) \in Lists(S, n - 1, A \ {s[i]})
<1>1. s \in Vectors(S, n) /\ s[i] \in A /\ s[i] \in S
  BY ListElements, ElementOfVector
<1>2. i \in 0..n /\ i - 1 \in 0..i /\ i - 1 \in Nat /\ n - i \in Nat /\ i \in Nat
  OBVIOUS
<1>a. PICK B, C : Cuts(S, n, A, s, i, B, C)
  BY <1>2, CutList
<1>3. /\ B \cup C = A /\ B \cap C = {}
      /\ Take(s, i) \in Lists(S, i, B) /\ Drop(s, i) \in Lists(S, n - i, C)
  BY <1>a DEF Cuts
<1> DEFINE t == Take(s, i)
<1>4. \A j \in 1..i : t[j] = s[j]
  BY <1>1, <1>2, CutVector
<1>5. t \in Vectors(S, i)
  BY <1>2, <1>3, ListElements
<1> HIDE DEF t
<1>b. t \in Lists(S, i, B)
  BY <1>3 DEF t
<1>c. PICK D, E : Cuts(S, i, B, t, i - 1, D, E)
  BY <1>2, <1>b, CutList
<1>6. /\ D \cup E = B /\ D \cap E = {}
      /\ Take(t, i - 1) \in Lists(S, i - 1, D)
      /\ Drop(t, i - 1) \in Lists(S, i - (i - 1), E)
      /\ \A j \in ((i - 1) + 1)..i : t[j] \in E
  BY <1>c DEF Cuts
<1>7. Take(t, i - 1) = Take(s, i - 1)
  <2> DEFINE a == Take(t, i - 1)
             b == Take(s, i - 1)
  <2>1. i - 1 \in 0..n /\ \A j \in 1..(i - 1) : j \in 1..i
    BY <1>2
  <2>2. a \in Vectors(S, i - 1) /\ b \in Vectors(S, i - 1)
    BY <1>1, <1>2, <1>5, <2>1, CutVector
  <2>3. \A j \in 1..(i - 1) : a[j] = t[j]
    BY <1>2, <1>5, CutVector
  <2>4. \A j \in 1..(i - 1) : b[j] = s[j]
    BY <1>1, <2>1, CutVector
  <2> HIDE DEF a, b
  <2>5. \A j \in 1..(i - 1) : a[j] = b[j]
    BY <1>4, <2>1, <2>3, <2>4
  <2>6. a \in Seq(S) /\ b \in Seq(S) /\ Len(a) = i - 1 /\ Len(b) = i - 1
    BY <2>2 DEF Vectors
  <2>7. a = b
    BY <2>5, <2>6, SeqEqual
  <2> QED
    BY <2>7 DEF a, b
<1>8. E = {s[i]}
  <2> DEFINE d == Drop(t, i - 1)
  <2>1. i - (i - 1) = 1 /\ (i - 1) + 1 = i /\ i \in i..i
    OBVIOUS
  <2>2. d \in Lists(S, 1, E)
    BY <1>6, <2>1
  <2>3. t[i] \in E /\ t[i] = s[i]
    BY <1>4, <1>6, <2>1
  <2> HIDE DEF d
  <2>4. \A e \in E : \E j \in 1..1 : d[j] = e
    BY <2>2, ListElements
  <2>5. \A e \in E : d[1] = e
    BY <2>4
  <2> QED
    BY <2>3, <2>5
<1>9. D \cap C = {} /\ D \cup C = A \ {s[i]}
  BY <1>3, <1>6, <1>8
<1>10. Take(s, i - 1) \o Drop(s, i) \in Lists(S, (i - 1) + (n - i), D \cup C)
  BY <1>2, <1>3, <1>6, <1>7, <1>9, ConcatLists
<1>11. (i - 1) + (n - i) = n - 1
  OBVIOUS
<1>12. RemoveAt(s, i) = Take(s, i - 1) \o Drop(s, i)
  BY <1>1, EditsCut
<1> QED
  BY <1>1, <1>9, <1>10, <1>11, <1>12

\* The first or the last child leaves.
LEMMA EndsOfList ==
  ASSUME NEW S, NEW n \in Nat \ {0}, NEW A, NEW s \in Lists(S, n, A)
  PROVE  /\ Last(s) \in A /\ Front(s) \in Lists(S, n - 1, A \ {Last(s)})
         /\ Head(s) \in A /\ Tail(s) \in Lists(S, n - 1, A \ {Head(s)})
<1>1. s \in Vectors(S, n) /\ n \in Nat /\ n > 0 /\ 1 \in 1..n /\ n \in 1..n
  BY ListElements
<1>2. s[1] \in S
  BY <1>1, ElementOfVector
<1>3. /\ Tail(s) = Drop(s, 1) /\ Head(s) = s[1]
      /\ Front(s) = Take(s, n - 1) /\ Last(s) = s[n]
  BY <1>1, <1>2, EditsCut
<1>4. RemoveAt(s, 1) = Take(s, 0) \o Drop(s, 1) /\ RemoveAt(s, n) = Take(s, n - 1) \o Drop(s, n)
  <2>1. \A i \in 1..n : RemoveAt(s, i) = Take(s, i - 1) \o Drop(s, i)
    BY DEF RemoveAt, Take, Drop
  <2>2. RemoveAt(s, 1) = Take(s, 1 - 1) \o Drop(s, 1) /\ RemoveAt(s, n) = Take(s, n - 1) \o Drop(s, n)
    BY <1>1, <2>1
  <2> QED
    BY <2>2
<1>5. s \in Seq(S) /\ Len(s) = n
  BY <1>1 DEF Vectors
<1>6. Take(s, 0) = << >> /\ Drop(s, n) = << >>
  <2>1. SubSeq(s, 1, 0) = << >>
    BY SubSeqEmpty
  <2>2. SubSeq(s, n + 1, n) = << >>
    <3>1. n + 1 \in Int /\ n \in Int /\ n < n + 1
      OBVIOUS
    <3> QED
      BY <3>1, SubSeqEmpty
  <2> QED
    BY <1>5, <2>1, <2>2 DEF Take, Drop
<1>7. Drop(s, 1) \in Seq(S) /\ Take(s, n - 1) \in Seq(S)
  <2>1. 1 \in 0..n /\ n - 1 \in 0..n
    BY <1>1
  <2>2. Drop(s, 1) \in Vectors(S, n - 1) /\ Take(s, n - 1) \in Vectors(S, n - 1)
    BY <1>1, <2>1, CutVector
  <2> QED
    BY <2>2 DEF Vectors
<1>8. RemoveAt(s, 1) = Tail(s) /\ RemoveAt(s, n) = Front(s)
  BY <1>3, <1>4, <1>6, <1>7, ConcatEmptySeq
<1>9. s[1] \in A /\ RemoveAt(s, 1) \in Lists(S, n - 1, A \ {s[1]})
  BY <1>1, NarrowerList
<1>10. s[n] \in A /\ RemoveAt(s, n) \in Lists(S, n - 1, A \ {s[n]})
  BY <1>1, NarrowerList
<1> QED
  BY <1>3, <1>8, <1>9, <1>10

-----------------------------------------------------------------------------
(* Binary search.                                                          *)

Spans(n) == (0..n) \X (0..n)
Mid(r) == r[1] + (r[2] - r[1]) \div 2

\* f is a bisection of n keys by the set of positions to the left.
Bisects(f, n, before) ==
  \A r \in Spans(n) :
    f[r] = IF r[1] >= r[2] THEN r[1]
           ELSE IF Mid(r) + 1 \in before THEN f[<<Mid(r) + 1, r[2]>>]
           ELSE f[<<r[1], Mid(r)>>]

\* The middle of a span that is not empty.
LEMMA MidOfSpan ==
  ASSUME NEW n \in Nat, NEW lo \in 0..n, NEW hi \in 0..n, lo < hi
  PROVE  lo + (hi - lo) \div 2 \in lo..(hi - 1)
<1> DEFINE d == hi - lo
           h == d \div 2
<1>1. d \in Nat \ {0}
  OBVIOUS
<1>2. h \in Nat /\ h < d
  <2> HIDE DEF d
  <2> QED
    BY <1>1
<1>3. lo \in Nat /\ hi = lo + d /\ hi \in Nat
  OBVIOUS
<1> HIDE DEF h, d
<1>4. lo + h \in lo..(hi - 1)
  BY <1>1, <1>2, <1>3
<1> QED
  BY <1>4 DEF h, d

\* Its halves are spans, and shorter.
LEMMA HalfSpans ==
  ASSUME NEW n \in Nat, NEW r \in Spans(n), r[1] < r[2]
  PROVE  /\ Mid(r) \in Int /\ r[1] \in Int /\ r[2] \in Int
         /\ <<Mid(r) + 1, r[2]>> \in Spans(n) /\ <<r[1], Mid(r)>> \in Spans(n)
         /\ r[2] - (Mid(r) + 1) < r[2] - r[1] /\ Mid(r) - r[1] < r[2] - r[1]
<1>1. r[1] \in 0..n /\ r[2] \in 0..n
  BY DEF Spans
<1>2. Mid(r) \in r[1]..(r[2] - 1)
  BY <1>1, MidOfSpan DEF Mid
<1>3. Mid(r) + 1 \in 0..n /\ Mid(r) \in 0..n
  BY <1>1, <1>2
<1>4. r[2] - (Mid(r) + 1) < r[2] - r[1] /\ Mid(r) - r[1] < r[2] - r[1]
  BY <1>1, <1>2
<1>5. <<Mid(r) + 1, r[2]>> \in Spans(n) /\ <<r[1], Mid(r)>> \in Spans(n)
  BY <1>1, <1>3 DEF Spans
<1> QED
  BY <1>1, <1>3, <1>4, <1>5

\* There is one, and it ends between the ends of its span.
LEMMA BisectionExists ==
  ASSUME NEW n \in Nat, NEW before
  PROVE  \E f : f = [r \in Spans(n) |-> f[r]] /\ Bisects(f, n, before)
<1> DEFINE Upto(m) == {r \in Spans(n) : r[2] - r[1] < m}
           Good(f, m) == \A r \in Upto(m) :
                f[r] = IF r[1] >= r[2] THEN r[1]
                       ELSE IF Mid(r) + 1 \in before THEN f[<<Mid(r) + 1, r[2]>>]
                       ELSE f[<<r[1], Mid(r)>>]
           S == {m \in Nat : \E f : f = [r \in Spans(n) |-> f[r]] /\ Good(f, m)}
<1>1. 0 \in S
  <2> DEFINE f == [r \in Spans(n) |-> r[1]]
  <2>1. f = [r \in Spans(n) |-> f[r]]
    OBVIOUS
  <2>2. ASSUME NEW r \in Upto(0) PROVE f[r] = r[1] /\ r[1] >= r[2]
    BY DEF Spans
  <2>3. Good(f, 0)
    BY <2>2
  <2> HIDE DEF f, Good
  <2> QED
    BY <2>1, <2>3
<1>2. ASSUME NEW m \in Nat, m \in S PROVE m + 1 \in S
  <2>1. PICK g : g = [r \in Spans(n) |-> g[r]] /\ Good(g, m)
    BY <1>2
  <2> DEFINE Step(r) == IF r[1] >= r[2] THEN r[1]
                        ELSE IF Mid(r) + 1 \in before THEN g[<<Mid(r) + 1, r[2]>>]
                        ELSE g[<<r[1], Mid(r)>>]
             f == [r \in Spans(n) |-> IF r[2] - r[1] < m THEN g[r] ELSE Step(r)]
  <2>2. f = [r \in Spans(n) |-> f[r]]
    OBVIOUS
  <2>3. \A r \in Spans(n) : r[2] - r[1] < m => f[r] = g[r]
    OBVIOUS
  <2>4. \A r \in Spans(n) : f[r] = Step(r)
    <3> SUFFICES ASSUME NEW r \in Spans(n) PROVE f[r] = Step(r)
      OBVIOUS
    <3>1. CASE r[2] - r[1] < m
      <4>1. r \in Upto(m)
        BY <3>1
      <4> QED
        BY <2>1, <2>3, <3>1, <4>1
    <3>2. CASE ~(r[2] - r[1] < m)
      BY <3>2
    <3> QED
      BY <3>1, <3>2
  <2> HIDE DEF f
  <2>5. ASSUME NEW r \in Upto(m + 1), r[1] < r[2]
        PROVE  /\ f[<<Mid(r) + 1, r[2]>>] = g[<<Mid(r) + 1, r[2]>>]
               /\ f[<<r[1], Mid(r)>>] = g[<<r[1], Mid(r)>>]
    <3>1. r \in Spans(n) /\ r[2] - r[1] < m + 1 /\ r[1] < r[2]
      BY <2>5
    <3>2. /\ Mid(r) \in Int /\ r[1] \in Int /\ r[2] \in Int
          /\ <<Mid(r) + 1, r[2]>> \in Spans(n) /\ <<r[1], Mid(r)>> \in Spans(n)
          /\ r[2] - (Mid(r) + 1) < r[2] - r[1] /\ Mid(r) - r[1] < r[2] - r[1]
      BY <3>1, HalfSpans
    <3>3. r[2] - (Mid(r) + 1) < m /\ Mid(r) - r[1] < m
      BY <3>1, <3>2
    <3> DEFINE u == <<Mid(r) + 1, r[2]>>
               v == <<r[1], Mid(r)>>
    <3>4. u \in Spans(n) /\ v \in Spans(n)
      BY <3>2
    <3>5. u[2] - u[1] < m /\ v[2] - v[1] < m
      BY <3>3
    <3> HIDE DEF u, v
    <3>6. f[u] = g[u] /\ f[v] = g[v]
      BY <2>3, <3>4, <3>5
    <3> QED
      BY <3>6 DEF u, v
  <2>6. Good(f, m + 1)
    <3> SUFFICES ASSUME NEW r \in Upto(m + 1)
                 PROVE  f[r] = IF r[1] >= r[2] THEN r[1]
                               ELSE IF Mid(r) + 1 \in before THEN f[<<Mid(r) + 1, r[2]>>]
                               ELSE f[<<r[1], Mid(r)>>]
      OBVIOUS
    <3>1. f[r] = Step(r) /\ r[1] \in Int /\ r[2] \in Int
      BY <2>4 DEF Spans
    <3>2. CASE r[1] >= r[2]
      BY <3>1, <3>2
    <3>3. CASE r[1] < r[2]
      BY <2>5, <3>1, <3>3
    <3> QED
      BY <3>1, <3>2, <3>3
  <2> HIDE DEF Good
  <2> QED
    BY <2>2, <2>6
<1>3. n + 1 \in S
  <2> HIDE DEF S
  <2>1. Nat \subseteq S
    BY <1>1, <1>2, SetInduction
  <2> QED
    BY <2>1
<1>4. PICK f : f = [r \in Spans(n) |-> f[r]] /\ Good(f, n + 1)
  BY <1>3
<1>5. \A r \in Spans(n) : r \in Upto(n + 1)
  BY DEF Spans
<1>6. Bisects(f, n, before)
  BY <1>4, <1>5 DEF Bisects
<1> HIDE DEF Good
<1> QED
  BY <1>4, <1>6

\* A bisection ends between its bounds.
LEMMA BisectionBound ==
  ASSUME NEW n \in Nat, NEW before, NEW f, Bisects(f, n, before)
  PROVE  f[<<0, n>>] \in 0..n
<1> DEFINE S == {m \in Nat : \A lo \in 0..n, hi \in 0..n :
                   lo <= hi /\ hi - lo <= m => f[<<lo, hi>>] \in lo..hi}
<1>0. ASSUME NEW lo \in 0..n, NEW hi \in 0..n
      PROVE  f[<<lo, hi>>] = IF lo >= hi THEN lo
                 ELSE IF (lo + (hi - lo) \div 2) + 1 \in before THEN f[<<(lo + (hi - lo) \div 2) + 1, hi>>]
                 ELSE f[<<lo, lo + (hi - lo) \div 2>>]
  <2> DEFINE r == <<lo, hi>>
  <2>1. r \in Spans(n) /\ r[1] = lo /\ r[2] = hi
    BY DEF Spans
  <2> HIDE DEF r
  <2>2. f[r] = IF lo >= hi THEN lo
                 ELSE IF (lo + (hi - lo) \div 2) + 1 \in before THEN f[<<(lo + (hi - lo) \div 2) + 1, hi>>]
                 ELSE f[<<lo, lo + (hi - lo) \div 2>>]
    BY <2>1 DEF Bisects, Mid
  <2> QED
    BY <2>2 DEF r
<1>1. 0 \in S
  <2> SUFFICES ASSUME NEW lo \in 0..n, NEW hi \in 0..n, lo <= hi /\ hi - lo <= 0 PROVE f[<<lo, hi>>] \in lo..hi
    OBVIOUS
  <2>1. lo = hi /\ lo >= hi
    OBVIOUS
  <2>2. f[<<lo, hi>>] = lo
    BY <1>0, <2>1
  <2> QED
    BY <2>1, <2>2
<1>2. ASSUME NEW m \in Nat, m \in S PROVE m + 1 \in S
  <2> SUFFICES ASSUME NEW lo \in 0..n, NEW hi \in 0..n, lo <= hi, hi - lo <= m + 1
               PROVE  f[<<lo, hi>>] \in lo..hi
    OBVIOUS
  <2>1. CASE lo >= hi
    <3>1. f[<<lo, hi>>] = lo
      BY <1>0, <2>1
    <3> QED
      BY <3>1
  <2>2. CASE lo < hi
    <3> DEFINE mid == lo + (hi - lo) \div 2
    <3>1. mid \in lo..(hi - 1)
      BY <2>2, MidOfSpan
    <3>2. f[<<lo, hi>>] = IF mid + 1 \in before THEN f[<<mid + 1, hi>>] ELSE f[<<lo, mid>>]
      BY <1>0, <2>2
    <3> HIDE DEF mid
    <3>3. /\ mid + 1 \in 0..n /\ mid \in 0..n /\ mid + 1 <= hi /\ hi - (mid + 1) <= m
          /\ lo <= mid /\ mid - lo <= m
      BY <3>1
    <3>4. f[<<mid + 1, hi>>] \in (mid + 1)..hi /\ f[<<lo, mid>>] \in lo..mid
      BY <1>2, <3>3
    <3>5. mid \in Int
      BY <3>1
    <3>6. f[<<mid + 1, hi>>] \in lo..hi /\ f[<<lo, mid>>] \in lo..hi
      BY <3>1, <3>4, <3>5
    <3> QED
      BY <3>2, <3>6
  <2> QED
    BY <2>1, <2>2
<1>3. n \in S
  <2> HIDE DEF S
  <2>1. Nat \subseteq S
    BY <1>1, <1>2, SetInduction
  <2> QED
    BY <2>1
<1>4. 0 \in 0..n /\ n \in 0..n /\ 0 <= n /\ n - 0 <= n
  OBVIOUS
<1> QED
  BY <1>3, <1>4

\* What the two searches of the code return is an index, or one past the last.
LEMMA LowerBoundRange ==
  ASSUME NEW n \in Nat, NEW ks \in Vectors(Nat, n), NEW k \in Nat
  PROVE  LowerBound(ks, k) \in 0..n
<1> DEFINE Body(f) == [span \in (0..n) \X (0..n) |->
              IF span[1] >= span[2] THEN span[1]
            ELSE IF ks[(span[1] + (span[2] - span[1]) \div 2) + 1] < k THEN f[<<(span[1] + (span[2] - span[1]) \div 2) + 1, span[2]>>]
            ELSE f[<<span[1], span[1] + (span[2] - span[1]) \div 2>>]]
           It == CHOOSE f : f = Body(f)
           before == {i \in 1..(n + 1) : ks[i] < k}
<1>1. Len(ks) = n
  BY DEF Vectors
<1>2. LowerBound(ks, k) = It[<<0, n>>]
  BY <1>1 DEF LowerBound, Bisect
<1>3. ASSUME NEW r \in Spans(n), r[1] < r[2]
      PROVE  Mid(r) + 1 \in before <=> ks[(r[1] + (r[2] - r[1]) \div 2) + 1] < k
  <2>1. r[1] \in 0..n /\ r[2] \in 0..n
    BY DEF Spans
  <2>2. Mid(r) \in r[1]..(r[2] - 1)
    BY <1>3, <2>1, MidOfSpan DEF Mid
  <2>3. Mid(r) + 1 \in 1..(n + 1)
    BY <2>1, <2>2
  <2> QED
    BY <2>3 DEF Mid
<1>4. PICK g : g = [r \in Spans(n) |-> g[r]] /\ Bisects(g, n, before)
  BY BisectionExists
<1>5. ASSUME NEW f, f = [r \in Spans(n) |-> f[r]] PROVE f = Body(f) <=> Bisects(f, n, before)
  <2> DEFINE Value1(r) == IF r[1] >= r[2] THEN r[1]
                     ELSE IF ks[(r[1] + (r[2] - r[1]) \div 2) + 1] < k THEN f[<<(r[1] + (r[2] - r[1]) \div 2) + 1, r[2]>>]
                     ELSE f[<<r[1], r[1] + (r[2] - r[1]) \div 2>>]
             Value2(r) == IF r[1] >= r[2] THEN r[1]
                      ELSE IF Mid(r) + 1 \in before THEN f[<<Mid(r) + 1, r[2]>>]
                      ELSE f[<<r[1], Mid(r)>>]
  <2>1. ASSUME NEW r \in Spans(n) PROVE Value1(r) = Value2(r)
    <3>1. r[1] \in Int /\ r[2] \in Int
      BY DEF Spans
    <3>2. CASE r[1] >= r[2]
      BY <3>2
    <3>3. CASE r[1] < r[2]
      <4>1. ~(r[1] >= r[2])
        BY <3>1, <3>3
      <4>2. Mid(r) + 1 \in before <=> ks[(r[1] + (r[2] - r[1]) \div 2) + 1] < k
        BY <1>3, <3>3
      <4> HIDE DEF before
      <4> QED
        BY <4>1, <4>2 DEF Mid
    <3> QED
      BY <3>1, <3>2, <3>3
  <2>2. Bisects(f, n, before) <=> \A r \in Spans(n) : f[r] = Value2(r)
    BY DEF Bisects
  <2>3. Body(f) = [r \in Spans(n) |-> Value1(r)]
    BY DEF Spans
  <2> HIDE DEF Value1, Value2, Body
  <2>4. f = Body(f) <=> \A r \in Spans(n) : f[r] = Value1(r)
    BY <1>5, <2>3
  <2> QED
    BY <2>1, <2>2, <2>4
<1>6. g = Body(g)
  BY <1>4, <1>5
<1> HIDE DEF Body
<1>7. It = Body(It)
  BY <1>6
<1>8. It = [r \in Spans(n) |-> It[r]]
  <2>1. DOMAIN Body(It) = Spans(n) /\ Body(It) = [r \in Spans(n) |-> Body(It)[r]]
    BY DEF Body, Spans
  <2> HIDE DEF It
  <2> QED
    BY <1>7, <2>1
<1> HIDE DEF It
<1>9. Bisects(It, n, before)
  BY <1>5, <1>7, <1>8
<1> QED
  BY <1>2, <1>9, BisectionBound

\* UpperBound is an index of the vector, or its length.
LEMMA UpperBoundRange ==
  ASSUME NEW n \in Nat, NEW ks \in Vectors(Nat, n), NEW k \in Nat
  PROVE  UpperBound(ks, k) \in 0..n
<1> DEFINE Body(f) == [span \in (0..n) \X (0..n) |->
              IF span[1] >= span[2] THEN span[1]
            ELSE IF ks[(span[1] + (span[2] - span[1]) \div 2) + 1] <= k THEN f[<<(span[1] + (span[2] - span[1]) \div 2) + 1, span[2]>>]
            ELSE f[<<span[1], span[1] + (span[2] - span[1]) \div 2>>]]
           It == CHOOSE f : f = Body(f)
           before == {i \in 1..(n + 1) : ks[i] <= k}
<1>1. Len(ks) = n
  BY DEF Vectors
<1>2. UpperBound(ks, k) = It[<<0, n>>]
  BY <1>1 DEF UpperBound, Bisect
<1>3. ASSUME NEW r \in Spans(n), r[1] < r[2]
      PROVE  Mid(r) + 1 \in before <=> ks[(r[1] + (r[2] - r[1]) \div 2) + 1] <= k
  <2>1. r[1] \in 0..n /\ r[2] \in 0..n
    BY DEF Spans
  <2>2. Mid(r) \in r[1]..(r[2] - 1)
    BY <1>3, <2>1, MidOfSpan DEF Mid
  <2>3. Mid(r) + 1 \in 1..(n + 1)
    BY <2>1, <2>2
  <2> QED
    BY <2>3 DEF Mid
<1>4. PICK g : g = [r \in Spans(n) |-> g[r]] /\ Bisects(g, n, before)
  BY BisectionExists
<1>5. ASSUME NEW f, f = [r \in Spans(n) |-> f[r]] PROVE f = Body(f) <=> Bisects(f, n, before)
  <2> DEFINE Value1(r) == IF r[1] >= r[2] THEN r[1]
                     ELSE IF ks[(r[1] + (r[2] - r[1]) \div 2) + 1] <= k THEN f[<<(r[1] + (r[2] - r[1]) \div 2) + 1, r[2]>>]
                     ELSE f[<<r[1], r[1] + (r[2] - r[1]) \div 2>>]
             Value2(r) == IF r[1] >= r[2] THEN r[1]
                      ELSE IF Mid(r) + 1 \in before THEN f[<<Mid(r) + 1, r[2]>>]
                      ELSE f[<<r[1], Mid(r)>>]
  <2>1. ASSUME NEW r \in Spans(n) PROVE Value1(r) = Value2(r)
    <3>1. r[1] \in Int /\ r[2] \in Int
      BY DEF Spans
    <3>2. CASE r[1] >= r[2]
      BY <3>2
    <3>3. CASE r[1] < r[2]
      <4>1. ~(r[1] >= r[2])
        BY <3>1, <3>3
      <4>2. Mid(r) + 1 \in before <=> ks[(r[1] + (r[2] - r[1]) \div 2) + 1] <= k
        BY <1>3, <3>3
      <4> HIDE DEF before
      <4> QED
        BY <4>1, <4>2 DEF Mid
    <3> QED
      BY <3>1, <3>2, <3>3
  <2>2. Bisects(f, n, before) <=> \A r \in Spans(n) : f[r] = Value2(r)
    BY DEF Bisects
  <2>3. Body(f) = [r \in Spans(n) |-> Value1(r)]
    BY DEF Spans
  <2> HIDE DEF Value1, Value2, Body
  <2>4. f = Body(f) <=> \A r \in Spans(n) : f[r] = Value1(r)
    BY <1>5, <2>3
  <2> QED
    BY <2>1, <2>2, <2>4
<1>6. g = Body(g)
  BY <1>4, <1>5
<1> HIDE DEF Body
<1>7. It = Body(It)
  BY <1>6
<1>8. It = [r \in Spans(n) |-> It[r]]
  <2>1. DOMAIN Body(It) = Spans(n) /\ Body(It) = [r \in Spans(n) |-> Body(It)[r]]
    BY DEF Body, Spans
  <2> HIDE DEF It
  <2> QED
    BY <1>7, <2>1
<1> HIDE DEF It
<1>9. Bisects(It, n, before)
  BY <1>5, <1>7, <1>8
<1> QED
  BY <1>2, <1>9, BisectionBound

-----------------------------------------------------------------------------
(* Nodes.                                                                  *)

LeafNodes ==
  {x \in [leaf : {TRUE}, keys : Seq(Nat), vals : Seq(Value), next : Nat] :
     Len(x.vals) = Len(x.keys)}

InnerNodes ==
  {x \in [leaf : {FALSE}, keys : Seq(Nat), children : Seq(Nat)] :
     Len(x.children) = Len(x.keys) + 1 /\ IsInjective(x.children)}

TreeNodes == LeafNodes \cup InnerNodes

KidsOf(x) == IF x.leaf THEN {} ELSE ToSet(x.children)

\* A leaf put together from vectors of one length.
LEMMA LeafMade ==
  ASSUME NEW m \in Nat, NEW ks \in Vectors(Nat, m), NEW vs \in Vectors(Value, m), NEW next \in Nat
  PROVE  /\ Leaf(ks, vs, next) \in LeafNodes
         /\ Leaf(ks, vs, next).keys = ks
         /\ KidsOf(Leaf(ks, vs, next)) = {}
BY DEF Leaf, LeafNodes, Vectors, KidsOf

\* What a leaf is made of.
LEMMA LeafParts ==
  ASSUME NEW x \in LeafNodes
  PROVE  /\ Len(x.keys) \in Nat /\ x.keys \in Vectors(Nat, Len(x.keys))
         /\ x.vals \in Vectors(Value, Len(x.keys)) /\ x.next \in Nat
         /\ x.leaf = TRUE /\ KidsOf(x) = {} /\ x = Leaf(x.keys, x.vals, x.next)
<1>1. x.keys \in Seq(Nat) /\ x.vals \in Seq(Value) /\ x.next \in Nat /\ x.leaf = TRUE
  BY DEF LeafNodes
<1>2. Len(x.vals) = Len(x.keys)
  BY DEF LeafNodes
<1>3. Len(x.keys) \in Nat
  BY <1>1, LenProperties
<1>4. x = Leaf(x.keys, x.vals, x.next)
  BY DEF LeafNodes, Leaf
<1> QED
  BY <1>1, <1>2, <1>3, <1>4 DEF Vectors, KidsOf

Paired(m, A, ks, cs) ==
  m \in Nat /\ ks \in Vectors(Nat, m) /\ cs \in Lists(Nat, m + 1, A)

\* An internal node put together from separators and children.
LEMMA InnerMade ==
  ASSUME NEW m, NEW A, NEW ks, NEW cs, Paired(m, A, ks, cs)
  PROVE  /\ Internal(ks, cs) \in InnerNodes
         /\ Internal(ks, cs).keys = ks
         /\ Internal(ks, cs).children = cs
         /\ KidsOf(Internal(ks, cs)) = A
<1>1. ks \in Seq(Nat) /\ Len(ks) = m
  BY DEF Paired, Vectors
<1>2. cs \in Seq(Nat) /\ Len(cs) = m + 1 /\ ToSet(cs) = A /\ IsInjective(cs)
  BY DEF Paired, Lists, Vectors
<1> DEFINE x == Internal(ks, cs)
<1>3. x.leaf = FALSE /\ x.keys = ks /\ x.children = cs
  BY DEF Internal
<1>4. x \in [leaf : {FALSE}, keys : Seq(Nat), children : Seq(Nat)]
  BY <1>1, <1>2 DEF Internal
<1> HIDE DEF x
<1>5. x \in InnerNodes
  BY <1>1, <1>2, <1>3, <1>4 DEF InnerNodes
<1>6. KidsOf(x) = A
  BY <1>2, <1>3 DEF KidsOf
<1> QED
  BY <1>3, <1>5, <1>6 DEF x

\* What an internal node is made of.
LEMMA InnerParts ==
  ASSUME NEW x \in InnerNodes
  PROVE  /\ Len(x.keys) \in Nat /\ x.keys \in Vectors(Nat, Len(x.keys))
         /\ x.children \in Lists(Nat, Len(x.keys) + 1, KidsOf(x))
         /\ Len(x.children) = Len(x.keys) + 1
         /\ x.leaf = FALSE /\ KidsOf(x) # {} /\ x = Internal(x.keys, x.children)
<1>1. x.keys \in Seq(Nat) /\ x.children \in Seq(Nat) /\ x.leaf = FALSE
  BY DEF InnerNodes
<1>2. Len(x.children) = Len(x.keys) + 1 /\ IsInjective(x.children)
  BY DEF InnerNodes
<1>3. Len(x.keys) \in Nat
  BY <1>1, LenProperties
<1>4. KidsOf(x) = ToSet(x.children)
  BY <1>1 DEF KidsOf
<1>5. x.children \in Lists(Nat, Len(x.keys) + 1, KidsOf(x))
  BY <1>1, <1>2, <1>4 DEF Lists, Vectors
<1>6. KidsOf(x) # {}
  <2>1. DOMAIN x.children = 1..(Len(x.keys) + 1)
    BY <1>1, <1>2, LenProperties
  <2>2. 1 \in 1..(Len(x.keys) + 1)
    BY <1>3
  <2> QED
    BY <1>4, <2>1, <2>2 DEF ToSet
<1>7. x = Internal(x.keys, x.children)
  BY DEF InnerNodes, Internal
<1> QED
  BY <1>1, <1>2, <1>3, <1>5, <1>6, <1>7 DEF Vectors

\* A separator changes, and nothing else of the node.
LEMMA SeparatorChanges ==
  ASSUME NEW x \in InnerNodes, NEW i \in 1..Len(x.keys), NEW e \in Nat
  PROVE  /\ [x EXCEPT !.keys[i] = e] \in InnerNodes
         /\ KidsOf([x EXCEPT !.keys[i] = e]) = KidsOf(x)
         /\ [x EXCEPT !.keys[i] = e].children = x.children
         /\ Len([x EXCEPT !.keys[i] = e].keys) = Len(x.keys)
<1>1. Len(x.keys) \in Nat /\ x.keys \in Vectors(Nat, Len(x.keys))
  BY InnerParts
<1> DEFINE ks == [x.keys EXCEPT ![i] = e]
           y == [x EXCEPT !.keys[i] = e]
<1>2. ks \in Vectors(Nat, Len(x.keys))
  BY <1>1, EditVector
<1>3. ks \in Seq(Nat) /\ Len(ks) = Len(x.keys)
  BY <1>2 DEF Vectors
<1>4. x \in [leaf : {FALSE}, keys : Seq(Nat), children : Seq(Nat)]
  BY DEF InnerNodes
<1>5. y = [x EXCEPT !.keys = ks]
  OBVIOUS
<1> HIDE DEF ks, y
<1>6. /\ y \in [leaf : {FALSE}, keys : Seq(Nat), children : Seq(Nat)]
      /\ y.keys = ks /\ y.children = x.children /\ y.leaf = x.leaf
  BY <1>3, <1>4, <1>5
<1>7. Len(x.children) = Len(x.keys) + 1 /\ IsInjective(x.children)
  BY DEF InnerNodes
<1>8. y \in InnerNodes
  BY <1>3, <1>6, <1>7 DEF InnerNodes
<1>9. KidsOf(y) = KidsOf(x)
  BY <1>6 DEF KidsOf
<1> QED
  BY <1>3, <1>6, <1>8, <1>9 DEF y

\* Leaves have no children, other nodes have some, and a freed one is neither.
LEMMA NodeKinds ==
  /\ NoNode \notin TreeNodes
  /\ \A x \in TreeNodes : x.leaf \in BOOLEAN
  /\ \A x \in TreeNodes : x.leaf => x \in LeafNodes /\ KidsOf(x) = {}
  /\ \A x \in TreeNodes : ~x.leaf => x \in InnerNodes /\ KidsOf(x) # {}
  /\ \A x \in TreeNodes : KidsOf(x) = {} <=> x.leaf
  /\ \A x \in TreeNodes : KidsOf(x) \subseteq Nat
<1>1. NoNode \notin TreeNodes
  <2>1. DOMAIN NoNode = {"leaf"}
    BY DEF NoNode
  <2>2. \A x \in TreeNodes : "keys" \in DOMAIN x
    BY DEF TreeNodes, LeafNodes, InnerNodes
  <2> QED
    BY <2>1, <2>2
<1>2. \A x \in LeafNodes : x.leaf = TRUE /\ KidsOf(x) = {}
  BY LeafParts
<1>3. \A x \in InnerNodes : x.leaf = FALSE /\ KidsOf(x) # {}
  BY InnerParts
<1>4. \A x \in InnerNodes : KidsOf(x) \subseteq Nat
  <2> SUFFICES ASSUME NEW x \in InnerNodes PROVE KidsOf(x) \subseteq Nat
    OBVIOUS
  <2> DEFINE m == Len(x.keys) + 1
  <2>1. Len(x.keys) \in Nat /\ x.children \in Lists(Nat, m, KidsOf(x))
    BY InnerParts
  <2>2. m \in Nat
    BY <2>1
  <2> HIDE DEF m
  <2> QED
    BY <2>1, <2>2, ListElements
<1> QED
  BY <1>1, <1>2, <1>3, <1>4 DEF TreeNodes

-----------------------------------------------------------------------------
(* The heap: the free list holds exactly the ids out of use, once each.    *)

Heaps == [nodes : Seq(TreeNodes \cup {NoNode}), freeList : Seq(Nat), nodeCount : Nat]

HeapOf(nodes, free, count) == [nodes |-> nodes, freeList |-> free, nodeCount |-> count]

LiveIds(h) == {n \in DOMAIN h.nodes : h.nodes[n] # NoNode}

GoodHeaps ==
  {h \in Heaps :
     /\ h.freeList \in Lists(Nat, Len(h.freeList), DOMAIN h.nodes \ LiveIds(h))
     /\ h.nodeCount = Cardinality(LiveIds(h))}

\* What a heap is made of.
LEMMA HeapParts ==
  ASSUME NEW h \in GoodHeaps
  PROVE  /\ Len(h.nodes) \in Nat /\ DOMAIN h.nodes = 1..Len(h.nodes)
         /\ h.nodes \in Vectors(TreeNodes \cup {NoNode}, Len(h.nodes))
         /\ LiveIds(h) \subseteq 1..Len(h.nodes) /\ LiveIds(h) \subseteq Nat
         /\ IsFiniteSet(LiveIds(h)) /\ Cardinality(LiveIds(h)) \in Nat
         /\ \A n \in LiveIds(h) : h.nodes[n] \in TreeNodes
         /\ Len(h.freeList) \in Nat
         /\ h.freeList \in Lists(Nat, Len(h.freeList), (1..Len(h.nodes)) \ LiveIds(h))
         /\ h.nodeCount = Cardinality(LiveIds(h))
         /\ h = HeapOf(h.nodes, h.freeList, h.nodeCount)
<1>1. h.nodes \in Seq(TreeNodes \cup {NoNode}) /\ h.freeList \in Seq(Nat)
  BY DEF GoodHeaps, Heaps
<1>2. Len(h.nodes) \in Nat /\ DOMAIN h.nodes = 1..Len(h.nodes) /\ Len(h.freeList) \in Nat
  BY <1>1, LenProperties
<1>3. h.nodes \in Vectors(TreeNodes \cup {NoNode}, Len(h.nodes))
  BY <1>1 DEF Vectors
<1>4. LiveIds(h) \subseteq 1..Len(h.nodes) /\ LiveIds(h) \subseteq Nat
  BY <1>2 DEF LiveIds
<1>5. IsFiniteSet(1..Len(h.nodes))
  BY <1>2, FS_Interval
<1>6. IsFiniteSet(LiveIds(h)) /\ Cardinality(LiveIds(h)) \in Nat
  BY <1>4, <1>5, FS_Subset, FS_CardinalityType
<1>7. \A n \in LiveIds(h) : h.nodes[n] \in TreeNodes
  <2> SUFFICES ASSUME NEW n \in LiveIds(h) PROVE h.nodes[n] \in TreeNodes
    OBVIOUS
  <2>1. n \in 1..Len(h.nodes) /\ h.nodes[n] # NoNode
    BY <1>2 DEF LiveIds
  <2>2. h.nodes[n] \in TreeNodes \cup {NoNode}
    BY <1>1, <2>1, ElementOfSeq
  <2> QED
    BY <2>1, <2>2
<1>8. h.freeList \in Lists(Nat, Len(h.freeList), (1..Len(h.nodes)) \ LiveIds(h))
  BY <1>2 DEF GoodHeaps
<1>9. h.nodeCount = Cardinality(LiveIds(h))
  BY DEF GoodHeaps
<1>10. h = HeapOf(h.nodes, h.freeList, h.nodeCount)
  BY DEF GoodHeaps, Heaps, HeapOf
<1> QED
  BY <1>2, <1>3, <1>4, <1>6, <1>7, <1>8, <1>9, <1>10

\* What makes a record a good heap, with the ids L of n in use and m not.
MakesHeap(nodes, n, L, free, m, count) ==
  /\ n \in Nat /\ nodes \in Vectors(TreeNodes \cup {NoNode}, n)
  /\ L = {i \in 1..n : nodes[i] # NoNode}
  /\ m \in Nat /\ free \in Lists(Nat, m, (1..n) \ L)
  /\ count = Cardinality(L)

\* A heap put together from nodes, a free list and a count that fit.
LEMMA HeapMade ==
  ASSUME NEW nodes, NEW n, NEW L, NEW free, NEW m, NEW count,
         MakesHeap(nodes, n, L, free, m, count)
  PROVE  /\ HeapOf(nodes, free, count) \in GoodHeaps
         /\ LiveIds(HeapOf(nodes, free, count)) = L
<1> DEFINE h == HeapOf(nodes, free, count)
<1>0. /\ n \in Nat /\ nodes \in Vectors(TreeNodes \cup {NoNode}, n)
      /\ L = {i \in 1..n : nodes[i] # NoNode}
      /\ m \in Nat /\ free \in Lists(Nat, m, (1..n) \ L)
      /\ count = Cardinality(L)
  BY DEF MakesHeap
<1>1. nodes \in Seq(TreeNodes \cup {NoNode}) /\ DOMAIN nodes = 1..n
  BY <1>0, LenProperties DEF Vectors
<1>2. free \in Seq(Nat) /\ Len(free) = m
  BY <1>0 DEF Lists, Vectors
<1>3. h.nodes = nodes /\ h.freeList = free /\ h.nodeCount = count
  BY DEF HeapOf
<1>4. count \in Nat
  <2>1. IsFiniteSet(1..n) /\ L \subseteq 1..n
    BY <1>0, FS_Interval
  <2> QED
    BY <1>0, <2>1, FS_Subset, FS_CardinalityType
<1>5. h \in Heaps
  BY <1>1, <1>2, <1>4 DEF Heaps, HeapOf
<1> HIDE DEF h
<1>6. LiveIds(h) = L
  BY <1>0, <1>1, <1>3 DEF LiveIds
<1>7. h.freeList \in Lists(Nat, Len(h.freeList), DOMAIN h.nodes \ LiveIds(h))
  BY <1>0, <1>1, <1>2, <1>3, <1>6
<1>8. h \in GoodHeaps
  BY <1>0, <1>3, <1>5, <1>6, <1>7 DEF GoodHeaps
<1> QED
  BY <1>6, <1>8 DEF h

\* One node is replaced.
LEMMA NodeSet ==
  ASSUME NEW h \in GoodHeaps, NEW id \in LiveIds(h), NEW x \in TreeNodes
  PROVE  /\ SetNode(h, id, x) \in GoodHeaps
         /\ LiveIds(SetNode(h, id, x)) = LiveIds(h)
         /\ SetNode(h, id, x).nodes[id] = x
         /\ \A n \in LiveIds(h) \ {id} : SetNode(h, id, x).nodes[n] = h.nodes[n]
         /\ SetNode(h, id, x).freeList = h.freeList
         /\ Len(SetNode(h, id, x).nodes) = Len(h.nodes)
<1> DEFINE n == Len(h.nodes)
           nodes == [h.nodes EXCEPT ![id] = x]
           g == HeapOf(nodes, h.freeList, h.nodeCount)
<1>1. /\ n \in Nat /\ DOMAIN h.nodes = 1..n
      /\ h.nodes \in Vectors(TreeNodes \cup {NoNode}, n)
      /\ LiveIds(h) \subseteq 1..n
      /\ Len(h.freeList) \in Nat
      /\ h.freeList \in Lists(Nat, Len(h.freeList), (1..n) \ LiveIds(h))
      /\ h.nodeCount = Cardinality(LiveIds(h))
  BY HeapParts
<1>2. SetNode(h, id, x) = g
  <2>1. h = HeapOf(h.nodes, h.freeList, h.nodeCount)
    BY HeapParts
  <2> QED
    BY <2>1 DEF SetNode, HeapOf
<1>3. id \in 1..n /\ x \in TreeNodes \cup {NoNode} /\ x # NoNode
  BY <1>1, NodeKinds
<1>4. nodes \in Vectors(TreeNodes \cup {NoNode}, n)
  BY <1>1, <1>3, EditVector
<1>5. \A i \in 1..n : nodes[i] = IF i = id THEN x ELSE h.nodes[i]
  BY <1>1
<1>6. g.nodes = nodes /\ g.freeList = h.freeList
  BY DEF HeapOf
<1> HIDE DEF n, nodes
<1>7. LiveIds(h) = {i \in 1..n : nodes[i] # NoNode}
  BY <1>1, <1>3, <1>5 DEF LiveIds
<1>8. g \in GoodHeaps /\ LiveIds(g) = LiveIds(h)
  <2>1. MakesHeap(nodes, n, LiveIds(h), h.freeList, Len(h.freeList), h.nodeCount)
    BY <1>1, <1>4, <1>7 DEF MakesHeap
  <2> QED
    BY <2>1, HeapMade
<1>9. Len(nodes) = n
  BY <1>4 DEF Vectors
<1> HIDE DEF g
<1> QED
  BY <1>1, <1>2, <1>3, <1>5, <1>6, <1>8, <1>9 DEF n

\* A new node takes an id that is not in use.
LEMMA NodeAllocated ==
  ASSUME NEW h \in GoodHeaps, NEW x \in TreeNodes
  PROVE  /\ Allocated(h, x) \in GoodHeaps
         /\ NewId(h) \in Nat \ {0} /\ NewId(h) \notin LiveIds(h)
         /\ LiveIds(Allocated(h, x)) = LiveIds(h) \cup {NewId(h)}
         /\ Allocated(h, x).nodes[NewId(h)] = x
         /\ \A n \in LiveIds(h) : Allocated(h, x).nodes[n] = h.nodes[n]
<1> DEFINE N == Len(h.nodes)
           L == LiveIds(h)
           m == Len(h.freeList)
           id == NewId(h)
           count == h.nodeCount + 1
           a == Allocated(h, x)
<1>1. /\ N \in Nat /\ DOMAIN h.nodes = 1..N
      /\ h.nodes \in Vectors(TreeNodes \cup {NoNode}, N)
      /\ L \subseteq 1..N /\ IsFiniteSet(L)
      /\ m \in Nat
      /\ h.freeList \in Lists(Nat, m, (1..N) \ L)
      /\ h.nodeCount = Cardinality(L)
  BY HeapParts
<1>2. x # NoNode /\ x \in TreeNodes \cup {NoNode}
  BY NodeKinds
<1>3. L = {i \in 1..N : h.nodes[i] # NoNode}
  BY <1>1 DEF LiveIds
<1>4. h.freeList \in Seq(Nat)
  BY <1>1 DEF Lists, Vectors
<1>5. CASE h.freeList # << >>
  <2> DEFINE nodes == [h.nodes EXCEPT ![id] = x]
             free == Front(h.freeList)
  <2>1. id = Last(h.freeList) /\ a = HeapOf(nodes, free, count)
    BY <1>5 DEF NewId, Allocated, HeapOf
  <2>2. m \in Nat \ {0}
    BY <1>4, <1>5, EmptySeq
  <2>3. id \in (1..N) \ L /\ free \in Lists(Nat, m - 1, ((1..N) \ L) \ {id})
    <3> DEFINE F == (1..N) \ L
               s == h.freeList
    <3>1. s \in Lists(Nat, m, F)
      BY <1>1
    <3> HIDE DEF F, s, m
    <3>2. Last(s) \in F /\ Front(s) \in Lists(Nat, m - 1, F \ {Last(s)})
      BY <2>2, <3>1, EndsOfList
    <3> QED
      BY <2>1, <3>2 DEF F, s
  <2>4. ((1..N) \ L) \ {id} = (1..N) \ (L \cup {id})
    OBVIOUS
  <2>5. nodes \in Vectors(TreeNodes \cup {NoNode}, N)
    BY <1>1, <1>2, <2>3, EditVector
  <2>6. \A i \in 1..N : nodes[i] = IF i = id THEN x ELSE h.nodes[i]
    BY <1>1
  <2> HIDE DEF nodes, free, id, count, L, N, m, a
  <2>7. L \cup {id} = {i \in 1..N : nodes[i] # NoNode}
    BY <1>2, <1>3, <2>3, <2>6
  <2>8. Cardinality(L \cup {id}) = count
    BY <1>1, <2>3, FS_AddElement DEF count
  <2>9. MakesHeap(nodes, N, L \cup {id}, free, m - 1, count)
    <3>1. m - 1 \in Nat
      BY <2>2
    <3>2. free \in Lists(Nat, m - 1, (1..N) \ (L \cup {id}))
      BY <2>3, <2>4
    <3> QED
      BY <1>1, <2>5, <2>7, <2>8, <3>1, <3>2 DEF MakesHeap
  <2>10. HeapOf(nodes, free, count) \in GoodHeaps /\ LiveIds(HeapOf(nodes, free, count)) = L \cup {id}
    BY <2>9, HeapMade
  <2>11. a.nodes = nodes
    BY <2>1 DEF HeapOf
  <2>12. a.nodes[id] = x /\ \A n \in L : a.nodes[n] = h.nodes[n]
    BY <1>1, <2>3, <2>6, <2>11
  <2>13. id \in Nat \ {0} /\ id \notin L
    BY <1>1, <2>3
  <2> QED
    BY <2>1, <2>10, <2>12, <2>13 DEF id, L, a
<1>6. CASE h.freeList = << >>
  <2> DEFINE nodes == Append(h.nodes, x)
             free == h.freeList
  <2>1. id = N + 1 /\ a = HeapOf(nodes, free, count)
    BY <1>6 DEF NewId, Allocated, HeapOf
  <2>2. m = 0
    BY <1>6, EmptySeq
  <2>3. (1..N) \ L = {}
    <3> DEFINE F == (1..N) \ L
    <3>1. h.freeList \in Lists(Nat, 0, F)
      BY <1>1, <2>2
    <3> HIDE DEF F
    <3>2. h.freeList \in Seq(Nat) /\ Len(h.freeList) = 0 /\ ToSet(h.freeList) = F
      BY <3>1 DEF Lists, Vectors
    <3>3. DOMAIN h.freeList = {}
      BY <3>2, LenProperties
    <3> QED
      BY <3>2, <3>3 DEF F, ToSet
  <2>4. L = 1..N
    BY <1>1, <2>3
  <2>5. h.nodes \in Seq(TreeNodes \cup {NoNode}) /\ Len(h.nodes) = N
    BY <1>1 DEF Vectors
  <2>6. nodes \in Vectors(TreeNodes \cup {NoNode}, N + 1)
    BY <1>1, <1>2, EditVector
  <2>7. nodes[N + 1] = x /\ \A i \in 1..N : nodes[i] = h.nodes[i]
    BY <1>2, <2>5, AppendProperties
  <2> HIDE DEF nodes, free, id, count, L, N, m, a
  <2>8. 1..(N + 1) = (1..N) \cup {N + 1} /\ N + 1 \in Nat \ {0} /\ N + 1 \notin 1..N
    BY <1>1
  <2>9. L \cup {id} = {i \in 1..(N + 1) : nodes[i] # NoNode}
    <3>1. \A i \in 1..N : nodes[i] # NoNode
      BY <1>3, <2>4, <2>7
    <3> QED
      BY <1>2, <2>1, <2>4, <2>7, <2>8, <3>1
  <2>10. (1..N) \ L = (1..(N + 1)) \ (L \cup {id})
    BY <2>1, <2>3, <2>4, <2>8
  <2>11. Cardinality(L \cup {id}) = count
    <3>1. id \notin L
      BY <2>1, <2>4, <2>8
    <3> QED
      BY <1>1, <3>1, FS_AddElement DEF count
  <2>12. free \in Lists(Nat, 0, (1..(N + 1)) \ (L \cup {id}))
    BY <1>1, <2>2, <2>10 DEF free
  <2>13. MakesHeap(nodes, N + 1, L \cup {id}, free, 0, count)
    BY <2>6, <2>8, <2>9, <2>11, <2>12 DEF MakesHeap
  <2>14. HeapOf(nodes, free, count) \in GoodHeaps /\ LiveIds(HeapOf(nodes, free, count)) = L \cup {id}
    BY <2>13, HeapMade
  <2>15. a.nodes = nodes
    BY <2>1 DEF HeapOf
  <2>16. a.nodes[id] = x /\ \A n \in L : a.nodes[n] = h.nodes[n]
    BY <2>1, <2>4, <2>7, <2>15
  <2>17. id \in Nat \ {0} /\ id \notin L
    BY <2>1, <2>4, <2>8
  <2> QED
    BY <2>1, <2>14, <2>16, <2>17 DEF id, L, a
<1> QED
  BY <1>5, <1>6

\* A freed id leaves the ids in use.
LEMMA NodeFreed ==
  ASSUME NEW h \in GoodHeaps, NEW id \in LiveIds(h)
  PROVE  /\ Freed(h, id) \in GoodHeaps
         /\ LiveIds(Freed(h, id)) = LiveIds(h) \ {id}
         /\ \A n \in LiveIds(h) \ {id} : Freed(h, id).nodes[n] = h.nodes[n]
<1> DEFINE N == Len(h.nodes)
           L == LiveIds(h)
           m == Len(h.freeList)
           count == h.nodeCount - 1
           nodes == [h.nodes EXCEPT ![id] = NoNode]
           free == Append(h.freeList, id)
           a == Freed(h, id)
<1>1. /\ N \in Nat /\ DOMAIN h.nodes = 1..N
      /\ h.nodes \in Vectors(TreeNodes \cup {NoNode}, N)
      /\ L \subseteq 1..N /\ IsFiniteSet(L)
      /\ m \in Nat
      /\ h.freeList \in Lists(Nat, m, (1..N) \ L)
      /\ h.nodeCount = Cardinality(L)
  BY HeapParts
<1>2. L = {i \in 1..N : h.nodes[i] # NoNode}
  BY <1>1 DEF LiveIds
<1>3. Live(h, id)
  BY DEF Live, LiveIds
<1>4. a = HeapOf(nodes, free, count)
  BY <1>3 DEF Freed, HeapOf
<1>5. id \in 1..N /\ id \in Nat /\ id \notin (1..N) \ L
  BY <1>1
<1>6. nodes \in Vectors(TreeNodes \cup {NoNode}, N)
  <2>1. NoNode \in TreeNodes \cup {NoNode}
    OBVIOUS
  <2> QED
    BY <1>1, <1>5, <2>1, EditVector
<1>7. \A i \in 1..N : nodes[i] = IF i = id THEN NoNode ELSE h.nodes[i]
  BY <1>1
<1>8. free \in Lists(Nat, m + 1, ((1..N) \ L) \cup {id})
  BY <1>1, <1>5, WiderList
<1>a. id \in L
  OBVIOUS
<1> HIDE DEF nodes, free, count, L, N, m, a
<1>9. L \ {id} = {i \in 1..N : nodes[i] # NoNode}
  BY <1>2, <1>5, <1>7
<1>10. ((1..N) \ L) \cup {id} = (1..N) \ (L \ {id})
  BY <1>5
<1>11. Cardinality(L \ {id}) = count
  BY <1>1, <1>a, FS_RemoveElement DEF count
<1>12. MakesHeap(nodes, N, L \ {id}, free, m + 1, count)
  <2>1. m + 1 \in Nat
    BY <1>1
  <2>2. free \in Lists(Nat, m + 1, (1..N) \ (L \ {id}))
    BY <1>8, <1>10
  <2> QED
    BY <1>1, <1>6, <1>9, <1>11, <2>1, <2>2 DEF MakesHeap
<1>13. HeapOf(nodes, free, count) \in GoodHeaps /\ LiveIds(HeapOf(nodes, free, count)) = L \ {id}
  BY <1>12, HeapMade
<1>14. a.nodes = nodes
  BY <1>4 DEF HeapOf
<1>15. \A n \in L \ {id} : a.nodes[n] = h.nodes[n]
  BY <1>1, <1>7, <1>14
<1> QED
  BY <1>4, <1>13, <1>15 DEF L, a

-----------------------------------------------------------------------------
(* The shape of the tree.  While a call runs the ids in use form several   *)
(* trees, whose roots are the set R; between calls there is one.           *)

\* K gives the children of each id of L; every id is on a level, one below its
\* only parent, the leaves on level 0 and nothing above level top.
Shape(L, K, lvl, R, top) ==
  /\ \A n \in L : lvl[n] \in Nat /\ lvl[n] <= top
  /\ \A n \in L : K[n] = {} => lvl[n] = 0
  /\ \A n \in L : \A c \in K[n] : c \in L /\ lvl[n] = lvl[c] + 1
  /\ \A m, n \in L : \A c \in K[m] : c \in K[n] => m = n
  /\ R \subseteq L
  /\ \A n \in L : n \in R <=> \A m \in L : n \notin K[m]

\* A root becomes a child.
Adopted(L, K, lvl, R, id, x, K2) ==
  /\ id \in L /\ x \in R /\ lvl[id] = lvl[x] + 1
  /\ K2[id] = K[id] \cup {x} /\ \A n \in L \ {id} : K2[n] = K[n]

\* The shape when a root becomes a child of a node one level up.
LEMMA Adopts ==
  ASSUME NEW L, NEW K, NEW lvl, NEW R, NEW top, Shape(L, K, lvl, R, top),
         NEW id, NEW x, NEW K2, Adopted(L, K, lvl, R, id, x, K2)
  PROVE  Shape(L, K2, lvl, R \ {x}, top)
<1>0. /\ id \in L /\ x \in R /\ lvl[id] = lvl[x] + 1
      /\ K2[id] = K[id] \cup {x} /\ \A n \in L \ {id} : K2[n] = K[n]
  BY DEF Adopted
<1>1. x \in L /\ \A m \in L : x \notin K[m]
  BY <1>0 DEF Shape
<1>2. \A n \in L : K2[n] = {} => lvl[n] = 0
  BY <1>0 DEF Shape
<1>3. \A n \in L : \A c \in K2[n] : c \in L /\ lvl[n] = lvl[c] + 1
  BY <1>0, <1>1 DEF Shape
<1>4. \A m, n \in L : \A c \in K2[m] : c \in K2[n] => m = n
  <2> SUFFICES ASSUME NEW m \in L, NEW n \in L, NEW c \in K2[m], c \in K2[n] PROVE m = n
    OBVIOUS
  <2>1. CASE c = x
    BY <1>0, <1>1, <2>1
  <2>2. CASE c # x
    <3>1. c \in K[m] /\ c \in K[n]
      BY <1>0, <2>2
    <3> QED
      BY <1>0, <3>1 DEF Shape
  <2> QED
    BY <1>0, <2>1, <2>2
<1>5. \A n \in L : n \in R \ {x} <=> \A m \in L : n \notin K2[m]
  BY <1>0, <1>1 DEF Shape
<1> QED
  BY <1>0, <1>2, <1>3, <1>4, <1>5 DEF Shape

\* A node gives some of its children to a new one on its level.
Divided(L, K, lvl, id, r, K2, lvl2) ==
  /\ id \in L /\ r \notin L
  /\ K2[id] \cup K2[r] = K[id] /\ K2[id] \cap K2[r] = {}
  /\ \A n \in L \ {id} : K2[n] = K[n]
  /\ K2[id] = {} \/ K2[r] = {} => lvl[id] = 0
  /\ lvl2[r] = lvl[id] /\ \A n \in L : lvl2[n] = lvl[n]

\* The shape when a new node takes some of the children of another.
LEMMA Divides ==
  ASSUME NEW L, NEW K, NEW lvl, NEW R, NEW top, Shape(L, K, lvl, R, top),
         NEW id, NEW r, NEW K2, NEW lvl2, Divided(L, K, lvl, id, r, K2, lvl2)
  PROVE  Shape(L \cup {r}, K2, lvl2, R \cup {r}, top)
<1>0. /\ id \in L /\ r \notin L
      /\ K2[id] \cup K2[r] = K[id] /\ K2[id] \cap K2[r] = {}
      /\ \A n \in L \ {id} : K2[n] = K[n]
      /\ K2[id] = {} \/ K2[r] = {} => lvl[id] = 0
      /\ lvl2[r] = lvl[id] /\ \A n \in L : lvl2[n] = lvl[n]
  BY DEF Divided
<1> DEFINE M == L \cup {r}
<1>1. \A n \in M : lvl2[n] \in Nat /\ lvl2[n] <= top
  BY <1>0 DEF Shape
<1>2. \A n \in M : K2[n] = {} => lvl2[n] = 0
  BY <1>0 DEF Shape
<1>3. \A n \in L : K2[n] \subseteq K[n]
  BY <1>0
<1>4. \A n \in M : \A c \in K2[n] : c \in L /\ lvl2[n] = lvl2[c] + 1
  <2> SUFFICES ASSUME NEW n \in M, NEW c \in K2[n] PROVE c \in L /\ lvl2[n] = lvl2[c] + 1
    OBVIOUS
  <2>1. CASE n = r
    <3>1. c \in K[id]
      BY <1>0, <2>1
    <3>2. c \in L /\ lvl[id] = lvl[c] + 1
      BY <1>0, <3>1 DEF Shape
    <3> QED
      BY <1>0, <2>1, <3>2
  <2>2. CASE n # r
    <3>1. n \in L /\ c \in K[n]
      BY <1>0, <1>3, <2>2
    <3>2. c \in L /\ lvl[n] = lvl[c] + 1
      BY <1>0, <3>1 DEF Shape
    <3> QED
      BY <1>0, <3>1, <3>2
  <2> QED
    BY <1>0, <2>1, <2>2
<1>5. \A m, n \in M : \A c \in K2[m] : c \in K2[n] => m = n
  <2> SUFFICES ASSUME NEW m \in M, NEW n \in M, NEW c \in K2[m], c \in K2[n] PROVE m = n
    OBVIOUS
  <2>1. CASE m = r /\ n = r
    BY <1>0, <2>1
  <2>2. CASE m = r /\ n \in L
    <3>1. c \in K[id] /\ c \in K[n]
      BY <1>0, <1>3, <2>2
    <3>2. n = id
      BY <1>0, <2>2, <3>1 DEF Shape
    <3> QED
      BY <1>0, <2>2, <3>2
  <2>3. CASE m \in L /\ n = r
    <3>1. c \in K[id] /\ c \in K[m]
      BY <1>0, <1>3, <2>3
    <3>2. m = id
      BY <1>0, <2>3, <3>1 DEF Shape
    <3> QED
      BY <1>0, <2>3, <3>2
  <2>4. CASE m \in L /\ n \in L
    <3>1. c \in K[m] /\ c \in K[n]
      BY <1>0, <1>3, <2>4
    <3> QED
      BY <1>0, <2>4, <3>1 DEF Shape
  <2> QED
    BY <1>0, <2>1, <2>2, <2>3, <2>4
<1>6. R \cup {r} \subseteq M
  BY <1>0 DEF Shape
<1>7. ASSUME NEW n \in M PROVE n \in R \cup {r} <=> \A m \in M : n \notin K2[m]
  <2>1. CASE n = r
    BY <1>0, <1>4, <2>1
  <2>2. CASE n # r
    <3>1. (\A m \in M : n \notin K2[m]) <=> \A m \in L : n \notin K[m]
      BY <1>0
    <3> QED
      BY <1>0, <2>2, <3>1 DEF Shape
  <2> QED
    BY <1>0, <2>1, <2>2
<1> QED
  BY <1>0, <1>1, <1>2, <1>4, <1>5, <1>6, <1>7 DEF Shape

\* Two nodes on one level share their children out anew.
Shared(L, K, lvl, l, r, K2) ==
  /\ l \in L /\ r \in L /\ l # r /\ lvl[l] = lvl[r]
  /\ K2[l] \cup K2[r] = K[l] \cup K[r] /\ K2[l] \cap K2[r] = {}
  /\ \A n \in L \ {l, r} : K2[n] = K[n]
  /\ K2[l] = {} \/ K2[r] = {} => lvl[l] = 0

\* The shape when two nodes of a level share their children anew.
LEMMA Shares ==
  ASSUME NEW L, NEW K, NEW lvl, NEW R, NEW top, Shape(L, K, lvl, R, top),
         NEW l, NEW r, NEW K2, Shared(L, K, lvl, l, r, K2)
  PROVE  Shape(L, K2, lvl, R, top)
<1>0. /\ l \in L /\ r \in L /\ l # r /\ lvl[l] = lvl[r]
      /\ K2[l] \cup K2[r] = K[l] \cup K[r] /\ K2[l] \cap K2[r] = {}
      /\ \A n \in L \ {l, r} : K2[n] = K[n]
      /\ K2[l] = {} \/ K2[r] = {} => lvl[l] = 0
  BY DEF Shared
<1>1. \A n \in L : K2[n] = {} => lvl[n] = 0
  BY <1>0 DEF Shape
<1>2. ASSUME NEW n \in L, NEW c \in K2[n]
      PROVE  /\ n \in {l, r} => c \in K[l] \/ c \in K[r]
             /\ n \notin {l, r} => c \in K[n]
  BY <1>0, <1>2
<1>3. \A n \in L : \A c \in K2[n] : c \in L /\ lvl[n] = lvl[c] + 1
  <2> SUFFICES ASSUME NEW n \in L, NEW c \in K2[n] PROVE c \in L /\ lvl[n] = lvl[c] + 1
    OBVIOUS
  <2>1. CASE n \in {l, r}
    <3>1. c \in K[l] \/ c \in K[r]
      BY <1>0, <1>2, <2>1
    <3>2. c \in L /\ lvl[l] = lvl[c] + 1
      BY <1>0, <3>1 DEF Shape
    <3> QED
      BY <1>0, <2>1, <3>2
  <2>2. CASE n \notin {l, r}
    <3>1. c \in K[n]
      BY <1>0, <1>2, <2>2
    <3> QED
      BY <1>0, <3>1 DEF Shape
  <2> QED
    BY <1>0, <2>1, <2>2
<1>4. \A m, n \in L : \A c \in K2[m] : c \in K2[n] => m = n
  <2> SUFFICES ASSUME NEW m \in L, NEW n \in L, NEW c \in K2[m], c \in K2[n] PROVE m = n
    OBVIOUS
  <2>1. CASE m \in {l, r} /\ n \in {l, r}
    BY <1>0, <2>1
  <2>2. CASE m \in {l, r} /\ n \notin {l, r}
    <3>1. (c \in K[l] \/ c \in K[r]) /\ c \in K[n]
      BY <1>0, <1>2, <2>2
    <3>2. n = l \/ n = r
      BY <1>0, <3>1 DEF Shape
    <3> QED
      BY <1>0, <2>2, <3>2
  <2>3. CASE m \notin {l, r} /\ n \in {l, r}
    <3>1. (c \in K[l] \/ c \in K[r]) /\ c \in K[m]
      BY <1>0, <1>2, <2>3
    <3>2. m = l \/ m = r
      BY <1>0, <3>1 DEF Shape
    <3> QED
      BY <1>0, <2>3, <3>2
  <2>4. CASE m \notin {l, r} /\ n \notin {l, r}
    <3>1. c \in K[m] /\ c \in K[n]
      BY <1>0, <1>2, <2>4
    <3> QED
      BY <1>0, <3>1 DEF Shape
  <2> QED
    BY <1>0, <2>1, <2>2, <2>3, <2>4
<1>5. ASSUME NEW n \in L PROVE (\A m \in L : n \notin K2[m]) <=> \A m \in L : n \notin K[m]
  BY <1>0
<1> QED
  BY <1>0, <1>1, <1>3, <1>4, <1>5 DEF Shape

\* A child gives its children to a sibling and goes.
Merged(L, K, id, l, r, K2) ==
  /\ id \in L /\ l \in K[id] /\ r \in K[id] /\ l # r
  /\ K2[l] = K[l] \cup K[r] /\ K2[id] = K[id] \ {r}
  /\ \A n \in L \ {id, l, r} : K2[n] = K[n]

\* The shape when a node takes over the children of its sibling, which goes.
LEMMA Merges ==
  ASSUME NEW L, NEW K, NEW lvl, NEW R, NEW top, Shape(L, K, lvl, R, top),
         NEW id, NEW l, NEW r, NEW K2, Merged(L, K, id, l, r, K2)
  PROVE  Shape(L \ {r}, K2, lvl, R, top)
<1>0. /\ id \in L /\ l \in K[id] /\ r \in K[id] /\ l # r
      /\ K2[l] = K[l] \cup K[r] /\ K2[id] = K[id] \ {r}
      /\ \A n \in L \ {id, l, r} : K2[n] = K[n]
  BY DEF Merged
<1>1. /\ l \in L /\ r \in L /\ lvl[id] = lvl[l] + 1 /\ lvl[id] = lvl[r] + 1
      /\ lvl[l] \in Nat /\ lvl[r] \in Nat /\ lvl[id] \in Nat
  BY <1>0 DEF Shape
<1>2. id # l /\ id # r /\ lvl[l] = lvl[r]
  BY <1>0, <1>1
<1> DEFINE M == L \ {r}
<1>3. \A n \in M : K2[n] = {} => lvl[n] = 0
  BY <1>0, <1>1, <1>2 DEF Shape
<1>4. ASSUME NEW n \in M, NEW c \in K2[n]
      PROVE  c # r /\ (c \in K[n] \/ (n = l /\ c \in K[r]))
  <2>1. CASE n = id
    BY <1>0, <2>1, <1>4
  <2>2. CASE n = l
    <3>1. c \in K[l] \/ c \in K[r]
      BY <1>0, <1>4, <2>2
    <3>2. lvl[l] = lvl[c] + 1
      BY <1>0, <1>1, <1>2, <3>1 DEF Shape
    <3>3. c # r
      <4>1. lvl[l] # lvl[l] + 1
        BY <1>0, <1>1
      <4> QED
        BY <1>0, <1>2, <3>2, <4>1
    <3> QED
      BY <1>0, <2>2, <3>1, <3>3
  <2>3. CASE n \notin {id, l}
    <3>1. n \in L \ {id, l, r} /\ c \in K[n]
      BY <1>0, <1>4, <2>3
    <3>2. c # r
      BY <1>0, <3>1 DEF Shape
    <3> QED
      BY <1>0, <3>1, <3>2
  <2> QED
    BY <1>0, <2>1, <2>2, <2>3
<1>5. \A n \in M : \A c \in K2[n] : c \in M /\ lvl[n] = lvl[c] + 1
  <2> SUFFICES ASSUME NEW n \in M, NEW c \in K2[n] PROVE c \in M /\ lvl[n] = lvl[c] + 1
    OBVIOUS
  <2>1. CASE c \in K[n]
    BY <1>0, <1>4, <2>1 DEF Shape
  <2>2. CASE n = l /\ c \in K[r]
    <3>1. c \in L /\ lvl[r] = lvl[c] + 1
      BY <1>0, <1>1, <2>2 DEF Shape
    <3> QED
      BY <1>0, <1>2, <1>4, <2>2, <3>1
  <2> QED
    BY <1>0, <1>4, <2>1, <2>2
<1>6. \A m, n \in M : \A c \in K2[m] : c \in K2[n] => m = n
  <2> SUFFICES ASSUME NEW m \in M, NEW n \in M, NEW c \in K2[m], c \in K2[n] PROVE m = n
    OBVIOUS
  <2>1. CASE c \in K[m] /\ c \in K[n]
    BY <1>0, <2>1 DEF Shape
  <2>2. CASE m = l /\ c \in K[r] /\ c \in K[n]
    <3>1. n = r
      BY <1>0, <1>1, <2>2 DEF Shape
    <3> QED
      BY <1>0, <3>1
  <2>3. CASE n = l /\ c \in K[r] /\ c \in K[m]
    <3>1. m = r
      BY <1>0, <1>1, <2>3 DEF Shape
    <3> QED
      BY <1>0, <3>1
  <2>4. CASE m = l /\ n = l
    BY <1>0, <2>4
  <2> QED
    BY <1>0, <1>4, <2>1, <2>2, <2>3, <2>4
<1>7. R \subseteq M
  BY <1>0 DEF Shape
<1>8. ASSUME NEW n \in M PROVE n \in R <=> \A m \in M : n \notin K2[m]
  <2>1. ASSUME NEW m \in L, n \in K[m] PROVE \E p \in M : n \in K2[p]
    <3>1. CASE m = r
      BY <1>0, <1>1, <2>1, <3>1
    <3>2. CASE m = id
      BY <1>0, <1>2, <2>1, <3>2
    <3>3. CASE m = l
      BY <1>0, <2>1, <3>3
    <3>4. CASE m \notin {r, id, l}
      BY <1>0, <2>1, <3>4
    <3> QED
      BY <1>0, <3>1, <3>2, <3>3, <3>4
  <2>2. ASSUME NEW m \in M, n \in K2[m] PROVE \E p \in L : n \in K[p]
    BY <1>0, <1>1, <1>4, <2>2
  <2>3. n \in R <=> \A m \in L : n \notin K[m]
    BY <1>0 DEF Shape
  <2> QED
    BY <1>0, <2>1, <2>2, <2>3
<1> QED
  BY <1>0, <1>3, <1>5, <1>6, <1>7, <1>8 DEF Shape

\* Two roots on one level get a parent.
Rooted(L, K, lvl, R, a, b, r, K2, lvl2) ==
  /\ a \in R /\ b \in R /\ lvl[a] = lvl[b] /\ r \notin L
  /\ K2[r] = {a, b} /\ \A n \in L : K2[n] = K[n]
  /\ lvl2[r] = lvl[a] + 1 /\ \A n \in L : lvl2[n] = lvl[n]

\* The shape when a new node becomes the parent of two roots.
LEMMA Roots ==
  ASSUME NEW L, NEW K, NEW lvl, NEW R, NEW top \in Nat, Shape(L, K, lvl, R, top),
         NEW a, NEW b, NEW r, NEW K2, NEW lvl2, Rooted(L, K, lvl, R, a, b, r, K2, lvl2)
  PROVE  Shape(L \cup {r}, K2, lvl2, (R \ {a, b}) \cup {r}, top + 1)
<1>0. /\ a \in R /\ b \in R /\ lvl[a] = lvl[b] /\ r \notin L
      /\ K2[r] = {a, b} /\ \A n \in L : K2[n] = K[n]
      /\ lvl2[r] = lvl[a] + 1 /\ \A n \in L : lvl2[n] = lvl[n]
  BY DEF Rooted
<1>1. a \in L /\ b \in L /\ (\A m \in L : a \notin K[m]) /\ (\A m \in L : b \notin K[m])
  BY <1>0 DEF Shape
<1> DEFINE M == L \cup {r}
<1>2. \A n \in L : lvl[n] \in Nat /\ lvl[n] <= top
  BY <1>0 DEF Shape
<1>3. \A n \in M : lvl2[n] \in Nat /\ lvl2[n] <= top + 1
  BY <1>0, <1>1, <1>2
<1>4. \A n \in M : K2[n] = {} => lvl2[n] = 0
  BY <1>0 DEF Shape
<1>5. \A n \in M : \A c \in K2[n] : c \in L /\ lvl2[n] = lvl2[c] + 1
  <2> SUFFICES ASSUME NEW n \in M, NEW c \in K2[n] PROVE c \in L /\ lvl2[n] = lvl2[c] + 1
    OBVIOUS
  <2>1. CASE n = r
    BY <1>0, <1>1, <2>1
  <2>2. CASE n \in L
    <3>1. c \in L /\ lvl[n] = lvl[c] + 1
      BY <1>0, <2>2 DEF Shape
    <3> QED
      BY <1>0, <2>2, <3>1
  <2> QED
    BY <1>0, <2>1, <2>2
<1>6. \A m, n \in M : \A c \in K2[m] : c \in K2[n] => m = n
  <2> SUFFICES ASSUME NEW m \in M, NEW n \in M, NEW c \in K2[m], c \in K2[n] PROVE m = n
    OBVIOUS
  <2>1. CASE m \in L /\ n \in L
    <3>1. c \in K[m] /\ c \in K[n]
      BY <1>0, <2>1
    <3> QED
      BY <1>0, <2>1, <3>1 DEF Shape
  <2>2. CASE m = r /\ n \in L
    <3>1. c \in {a, b} /\ c \in K[n]
      BY <1>0, <2>2
    <3> QED
      BY <1>0, <1>1, <2>2, <3>1
  <2>3. CASE n = r /\ m \in L
    <3>1. c \in {a, b} /\ c \in K[m]
      BY <1>0, <2>3
    <3> QED
      BY <1>0, <1>1, <2>3, <3>1
  <2>4. CASE m = r /\ n = r
    BY <1>0, <2>4
  <2> QED
    BY <1>0, <2>1, <2>2, <2>3, <2>4
<1>7. (R \ {a, b}) \cup {r} \subseteq M
  BY <1>0 DEF Shape
<1>8. ASSUME NEW n \in M PROVE n \in (R \ {a, b}) \cup {r} <=> \A m \in M : n \notin K2[m]
  <2>1. CASE n = r
    BY <1>0, <1>5, <2>1
  <2>2. CASE n \in {a, b}
    <3>1. n # r /\ n \in K2[r]
      BY <1>0, <1>1, <2>2
    <3> QED
      BY <1>0, <2>2, <3>1
  <2>3. CASE n \notin {a, b, r}
    <3>1. n \notin K2[r] /\ n \in L
      BY <1>0, <2>3
    <3>2. (\A m \in M : n \notin K2[m]) <=> \A m \in L : n \notin K[m]
      BY <1>0, <3>1
    <3> QED
      BY <1>0, <2>3, <3>1, <3>2 DEF Shape
  <2> QED
    BY <1>0, <2>1, <2>2, <2>3
<1> QED
  BY <1>0, <1>3, <1>4, <1>5, <1>6, <1>7, <1>8 DEF Shape

\* The only root gives way to its only child.
Uprooted(L, K, root, heir, K2) ==
  K[root] = {heir} /\ \A n \in L \ {root} : K2[n] = K[n]

\* The shape when the root goes and its only child is left.
LEMMA Uproots ==
  ASSUME NEW L, NEW K, NEW lvl, NEW root, NEW top \in Nat, Shape(L, K, lvl, {root}, top),
         NEW heir, NEW K2, Uprooted(L, K, root, heir, K2)
  PROVE  Shape(L \ {root}, K2, lvl, {heir}, top - 1) /\ lvl[root] = lvl[heir] + 1
<1>0. K[root] = {heir} /\ \A n \in L \ {root} : K2[n] = K[n]
  BY DEF Uprooted
<1>1. root \in L /\ (\A m \in L : root \notin K[m]) /\ heir \in L /\ lvl[root] = lvl[heir] + 1 /\ heir # root
  BY <1>0 DEF Shape
<1> DEFINE M == L \ {root}
<1>2. ASSUME NEW n \in M PROVE lvl[n] \in Nat /\ lvl[n] <= top - 1
  <2>1. PICK m \in L : n \in K[m]
    BY DEF Shape
  <2>2. lvl[m] = lvl[n] + 1 /\ lvl[m] \in Nat /\ lvl[m] <= top /\ lvl[n] \in Nat
    BY <2>1 DEF Shape
  <2> QED
    BY <2>2
<1>3. \A n \in M : K2[n] = {} => lvl[n] = 0
  BY <1>0 DEF Shape
<1>4. \A n \in M : \A c \in K2[n] : c \in M /\ lvl[n] = lvl[c] + 1
  BY <1>0, <1>1 DEF Shape
<1>5. \A m, n \in M : \A c \in K2[m] : c \in K2[n] => m = n
  BY <1>0 DEF Shape
<1>6. ASSUME NEW n \in M PROVE n \in {heir} <=> \A m \in M : n \notin K2[m]
  <2>1. n \notin {root} /\ n \in L
    OBVIOUS
  <2>2. PICK p \in L : n \in K[p]
    BY <2>1 DEF Shape
  <2>3. CASE n = heir
    <3>1. \A m \in L : heir \in K[m] => m = root
      BY <1>0, <1>1 DEF Shape
    <3> QED
      BY <1>0, <2>3, <3>1
  <2>4. CASE n # heir
    BY <1>0, <2>2, <2>4
  <2> QED
    BY <2>3, <2>4
<1> QED
  BY <1>1, <1>2, <1>3, <1>4, <1>5, <1>6 DEF Shape

\* The children of each id in use.
KidMap(h) == [n \in LiveIds(h) |-> KidsOf(h.nodes[n])]

\* A heap of the shape of trees with the roots R.
Forest(h, R, lvl, top) ==
  /\ h \in GoodHeaps
  /\ lvl \in [Nat -> Nat]
  /\ Shape(LiveIds(h), KidMap(h), lvl, R, top)

\* What a node of a forest is, and where its children are.
LEMMA ForestNodes ==
  ASSUME NEW h, NEW R, NEW lvl, NEW top, Forest(h, R, lvl, top), NEW n \in LiveIds(h)
  PROVE  /\ h \in GoodHeaps /\ n \in Nat /\ lvl[n] \in Nat
         /\ h.nodes[n] \in TreeNodes /\ h.nodes[n].leaf \in BOOLEAN
         /\ KidMap(h)[n] = KidsOf(h.nodes[n])
         /\ h.nodes[n].leaf => h.nodes[n] \in LeafNodes /\ lvl[n] = 0 /\ KidMap(h)[n] = {}
         /\ ~h.nodes[n].leaf => h.nodes[n] \in InnerNodes /\ lvl[n] > 0
         /\ \A c \in KidsOf(h.nodes[n]) : c \in LiveIds(h) /\ c # n /\ lvl[n] = lvl[c] + 1
<1>1. h \in GoodHeaps /\ lvl \in [Nat -> Nat] /\ Shape(LiveIds(h), KidMap(h), lvl, R, top)
  BY DEF Forest
<1>2. n \in Nat /\ h.nodes[n] \in TreeNodes
  BY <1>1, HeapParts
<1>3. KidMap(h)[n] = KidsOf(h.nodes[n])
  BY DEF KidMap
<1>4. \A c \in KidsOf(h.nodes[n]) : c \in LiveIds(h) /\ lvl[n] = lvl[c] + 1 /\ lvl[c] \in Nat
  BY <1>1, <1>3 DEF Shape
<1>5. \A c \in KidsOf(h.nodes[n]) : c # n
  BY <1>4
<1>6. lvl[n] \in Nat
  BY <1>1, <1>2
<1>7. h.nodes[n].leaf => h.nodes[n] \in LeafNodes /\ KidsOf(h.nodes[n]) = {}
  BY <1>2, NodeKinds
<1>8. ~h.nodes[n].leaf => h.nodes[n] \in InnerNodes /\ KidsOf(h.nodes[n]) # {}
  BY <1>2, NodeKinds
<1>9. h.nodes[n].leaf => lvl[n] = 0
  BY <1>1, <1>3, <1>7 DEF Shape
<1>10. ~h.nodes[n].leaf => lvl[n] > 0
  BY <1>4, <1>6, <1>8
<1>11. h.nodes[n].leaf \in BOOLEAN
  BY <1>2, NodeKinds
<1> QED
  BY <1>1, <1>2, <1>3, <1>4, <1>5, <1>6, <1>7, <1>8, <1>9, <1>10, <1>11

\* The shape only depends on the children.
LEMMA SameShape ==
  ASSUME NEW h, NEW R, NEW lvl, NEW top, Forest(h, R, lvl, top),
         NEW g \in GoodHeaps, LiveIds(g) = LiveIds(h),
         \A n \in LiveIds(h) : KidsOf(g.nodes[n]) = KidsOf(h.nodes[n])
  PROVE  Forest(g, R, lvl, top)
<1>1. KidMap(g) = KidMap(h)
  BY DEF KidMap
<1> QED
  BY <1>1 DEF Forest

\* A node is replaced by one with the same children.
LEMMA ForestSet ==
  ASSUME NEW h, NEW R, NEW lvl, NEW top, Forest(h, R, lvl, top),
         NEW id \in LiveIds(h), NEW x \in TreeNodes, KidsOf(x) = KidsOf(h.nodes[id])
  PROVE  Forest(SetNode(h, id, x), R, lvl, top)
<1>1. h \in GoodHeaps
  BY DEF Forest
<1> DEFINE g == SetNode(h, id, x)
<1>2. /\ g \in GoodHeaps /\ LiveIds(g) = LiveIds(h) /\ g.nodes[id] = x
      /\ \A n \in LiveIds(h) \ {id} : g.nodes[n] = h.nodes[n]
  BY <1>1, NodeSet
<1> HIDE DEF g
<1>3. \A n \in LiveIds(h) : KidsOf(g.nodes[n]) = KidsOf(h.nodes[n])
  BY <1>2
<1>4. Forest(g, R, lvl, top)
  BY <1>2, <1>3, SameShape
<1> QED
  BY <1>4 DEF g

-----------------------------------------------------------------------------
(* Put.                                                                    *)

\* What was in use stays in use, and on its level.
Grown(h, lvl, g, lvl2) ==
  LiveIds(h) \subseteq LiveIds(g) /\ \A n \in LiveIds(h) : lvl2[n] = lvl[n]

\* What an insertion under node id leaves: a new root if it has split.
InsertPost(h, R, lvl, top, id, r) ==
  /\ r.status = "OK" /\ r.inserted \in BOOLEAN /\ r.split \in BOOLEAN
  /\ r.split => r.separator \in Nat /\ r.right \in Nat /\ r.right \notin LiveIds(h)
  /\ \E lvl2 : /\ Forest(r.heap, IF r.split THEN R \cup {r.right} ELSE R, lvl2, top)
               /\ Grown(h, lvl, r.heap, lvl2)
               /\ r.split => lvl2[r.right] = lvl[id]

\* What a node that splits leaves: its two parts are roots if it was one, and
\* the new part is on its level.
SplitsTo(h, R, lvl, top, id, g, r) ==
  /\ r \in Nat /\ r \notin LiveIds(h)
  /\ \E lvl2 : Forest(g, R \cup {r}, lvl2, top) /\ Grown(h, lvl, g, lvl2) /\ lvl2[r] = lvl[id]

\* The parts share out the children that node id of level l has in K.
SharedOut(K, l, id, lower, upper) ==
  /\ lower \in TreeNodes /\ upper \in TreeNodes
  /\ KidsOf(lower) \cup KidsOf(upper) = K[id]
  /\ KidsOf(lower) \cap KidsOf(upper) = {}
  /\ KidsOf(lower) = {} \/ KidsOf(upper) = {} => l = 0

\* A node is split in two that share its children.
LEMMA Splitting ==
  ASSUME NEW h \in GoodHeaps, NEW lvl \in [Nat -> Nat], NEW R, NEW top, NEW K,
         Shape(LiveIds(h), K, lvl, R, top),
         NEW id \in LiveIds(h), \A n \in LiveIds(h) \ {id} : K[n] = KidsOf(h.nodes[n]),
         NEW lower, NEW upper, SharedOut(K, lvl[id], id, lower, upper)
  PROVE  SplitsTo(h, R, lvl, top, id, SetNode(Allocated(h, upper), id, lower), NewId(h))
<1>0. lower \in TreeNodes /\ upper \in TreeNodes
  BY DEF SharedOut
<1>b. /\ KidsOf(lower) \cup KidsOf(upper) = K[id]
      /\ KidsOf(lower) \cap KidsOf(upper) = {}
      /\ KidsOf(lower) = {} \/ KidsOf(upper) = {} => lvl[id] = 0
  BY DEF SharedOut
<1> DEFINE r == NewId(h)
           L == LiveIds(h)
           f == Allocated(h, upper)
           g == SetNode(f, id, lower)
           lvl2 == [lvl EXCEPT ![r] = lvl[id]]
<1>1. /\ f \in GoodHeaps /\ r \in Nat /\ r \notin L
      /\ LiveIds(f) = L \cup {r} /\ f.nodes[r] = upper
      /\ \A n \in L : f.nodes[n] = h.nodes[n]
  BY <1>0, NodeAllocated
<1>a. L \subseteq Nat
  BY HeapParts
<1>2. id \in LiveIds(f) /\ id # r /\ id \in Nat
  BY <1>1, <1>a
<1> HIDE DEF r, f
<1>3. /\ g \in GoodHeaps /\ LiveIds(g) = LiveIds(f) /\ g.nodes[id] = lower
      /\ \A n \in LiveIds(f) \ {id} : g.nodes[n] = f.nodes[n]
  BY <1>0, <1>1, <1>2, NodeSet
<1> HIDE DEF g
<1>4. lvl2 \in [Nat -> Nat] /\ lvl2[r] = lvl[id] /\ \A n \in L : lvl2[n] = lvl[n]
  BY <1>1, <1>2, <1>a
<1> HIDE DEF lvl2
<1> DEFINE K2 == KidMap(g)
<1>5. \A n \in LiveIds(g) : K2[n] = KidsOf(g.nodes[n])
  BY DEF KidMap
<1>6. K2[id] = KidsOf(lower) /\ K2[r] = KidsOf(upper) /\ \A n \in L \ {id} : K2[n] = K[n]
  BY <1>1, <1>2, <1>3, <1>5
<1> HIDE DEF K2, L
<1>7. Shape(L, K, lvl, R, top) /\ id \in L
  BY DEF L
<1>8. Shape(L \cup {r}, K2, lvl2, R \cup {r}, top)
  <2>1. K2[id] \cup K2[r] = K[id] /\ K2[id] \cap K2[r] = {}
    BY <1>b, <1>6
  <2>2. K2[id] = {} \/ K2[r] = {} => lvl[id] = 0
    BY <1>b, <1>6
  <2>3. r \notin L /\ lvl2[r] = lvl[id] /\ \A n \in L : lvl2[n] = lvl[n]
    BY <1>1, <1>4
  <2> QED
    <3>1. Divided(L, K, lvl, id, r, K2, lvl2)
      BY <1>6, <1>7, <2>1, <2>2, <2>3 DEF Divided
    <3> QED
      BY <1>7, <3>1, Divides
<1>9. Forest(g, R \cup {r}, lvl2, top)
  BY <1>1, <1>3, <1>4, <1>8 DEF Forest, K2
<1>10. Grown(h, lvl, g, lvl2)
  BY <1>1, <1>3, <1>4 DEF Grown, L
<1> QED
  BY <1>1, <1>4, <1>9, <1>10 DEF SplitsTo, g, f, r, L

\* The insertion reports the split.
LEMMA SplitReported ==
  ASSUME NEW h, NEW R, NEW lvl, NEW top, NEW id, NEW f, NEW lvl0,
         LiveIds(f) = LiveIds(h), \A n \in LiveIds(h) : lvl0[n] = lvl[n], id \in LiveIds(h),
         NEW g, NEW r, SplitsTo(f, R, lvl0, top, id, g, r), NEW separator \in Nat
  PROVE  InsertPost(h, R, lvl, top, id, SplitOff(g, separator, r))
<1> DEFINE s == SplitOff(g, separator, r)
<1>1. /\ s.status = "OK" /\ s.inserted = TRUE /\ s.split = TRUE /\ s.heap = g
      /\ s.separator = separator /\ s.right = r
  BY DEF SplitOff
<1> HIDE DEF s
<1>2. r \in Nat /\ r \notin LiveIds(h)
  BY DEF SplitsTo
<1>3. PICK lvl2 : Forest(g, R \cup {r}, lvl2, top) /\ Grown(f, lvl0, g, lvl2) /\ lvl2[r] = lvl0[id]
  BY DEF SplitsTo
<1>4. Grown(h, lvl, g, lvl2)
  BY <1>3 DEF Grown
<1>5. InsertPost(h, R, lvl, top, id, s)
  BY <1>1, <1>2, <1>3, <1>4 DEF InsertPost
<1> QED
  BY <1>5 DEF s

\* A leaf splits.
LEMMA LeafSplits ==
  ASSUME NEW h, NEW R, NEW lvl, NEW top, Forest(h, R, lvl, top),
         NEW id \in LiveIds(h), h.nodes[id].leaf,
         NEW full \in LeafNodes, Len(full.keys) > 0
  PROVE  InsertPost(h, R, lvl, top, id, SplitLeaf(h, id, full))
<1> DEFINE m == Len(full.keys)
           mid == m \div 2
           r == NewId(h)
           upper == Leaf(Drop(full.keys, mid), Drop(full.vals, mid), full.next)
           lower == Leaf(Take(full.keys, mid), Take(full.vals, mid), r)
           g == SetNode(Allocated(h, upper), id, lower)
<1>1. m \in Nat /\ full.keys \in Vectors(Nat, m) /\ full.vals \in Vectors(Value, m) /\ full.next \in Nat
  BY LeafParts
<1>2. m > 0 /\ Len(full.keys) = m
  OBVIOUS
<1> HIDE DEF m
<1>3. mid \in 0..m /\ m - mid \in Nat \ {0} /\ mid \in Nat
  BY <1>1, <1>2
<1> HIDE DEF mid
<1>4. /\ Take(full.keys, mid) \in Vectors(Nat, mid) /\ Take(full.vals, mid) \in Vectors(Value, mid)
      /\ Drop(full.keys, mid) \in Vectors(Nat, m - mid) /\ Drop(full.vals, mid) \in Vectors(Value, m - mid)
  BY <1>1, <1>3, CutVector
<1>5. /\ h \in GoodHeaps /\ lvl \in [Nat -> Nat] /\ Shape(LiveIds(h), KidMap(h), lvl, R, top)
      /\ KidMap(h)[id] = {} /\ lvl[id] = 0
  <2>1. h \in GoodHeaps /\ lvl \in [Nat -> Nat] /\ Shape(LiveIds(h), KidMap(h), lvl, R, top)
    BY DEF Forest
  <2>2. KidMap(h)[id] = {} /\ lvl[id] = 0
    BY ForestNodes
  <2> QED
    BY <2>1, <2>2
<1>6. r \in Nat
  BY <1>5, LeafParts, NodeAllocated DEF TreeNodes
<1>7. lower \in LeafNodes /\ KidsOf(lower) = {}
  BY <1>3, <1>4, <1>6, LeafMade
<1>8. upper \in LeafNodes /\ KidsOf(upper) = {} /\ upper.keys = Drop(full.keys, mid)
  <2> DEFINE n == m - mid
             ks == Drop(full.keys, mid)
             vs == Drop(full.vals, mid)
             next == full.next
  <2>1. n \in Nat /\ ks \in Vectors(Nat, n) /\ vs \in Vectors(Value, n) /\ next \in Nat
    BY <1>1, <1>3, <1>4
  <2> HIDE DEF n, ks, vs, next
  <2>2. /\ Leaf(ks, vs, next) \in LeafNodes /\ KidsOf(Leaf(ks, vs, next)) = {}
        /\ Leaf(ks, vs, next).keys = ks
    BY <2>1, LeafMade
  <2> QED
    BY <2>2 DEF ks, vs, next
<1>9. Head(upper.keys) \in Nat
  BY <1>3, <1>4, <1>8, EndsOfVector
<1>10. SplitLeaf(h, id, full) = SplitOff(g, Head(upper.keys), r)
  BY <1>2 DEF SplitLeaf, mid
<1>11. lower \in TreeNodes /\ upper \in TreeNodes
  BY <1>7, <1>8 DEF TreeNodes
<1> HIDE DEF lower, upper
<1>12. \A n \in LiveIds(h) \ {id} : KidMap(h)[n] = KidsOf(h.nodes[n])
  BY DEF KidMap
<1>13. SharedOut(KidMap(h), lvl[id], id, lower, upper)
  BY <1>5, <1>7, <1>8, <1>11 DEF SharedOut
<1> DEFINE K == KidMap(h)
<1> HIDE DEF K
<1>14. SplitsTo(h, R, lvl, top, id, SetNode(Allocated(h, upper), id, lower), NewId(h))
  <2>1. /\ Shape(LiveIds(h), K, lvl, R, top)
        /\ \A n \in LiveIds(h) \ {id} : K[n] = KidsOf(h.nodes[n])
        /\ SharedOut(K, lvl[id], id, lower, upper)
    BY <1>5, <1>12, <1>13 DEF K
  <2> QED
    BY <1>5, <2>1, Splitting
<1>15. SplitsTo(h, R, lvl, top, id, g, r)
  BY <1>14
<1> HIDE DEF g, r
<1>16. InsertPost(h, R, lvl, top, id, SplitOff(g, Head(upper.keys), r))
  BY <1>9, <1>15, SplitReported
<1> QED
  BY <1>10, <1>16

\* An insertion without a split, that leaves the shape as it was.
LEMMA InsertsInPlace ==
  ASSUME NEW h, NEW R, NEW lvl, NEW top, Forest(h, R, lvl, top),
         NEW id \in LiveIds(h), NEW x \in TreeNodes, KidsOf(x) = KidsOf(h.nodes[id]),
         NEW new \in BOOLEAN
  PROVE  InsertPost(h, R, lvl, top, id, Inserted(SetNode(h, id, x), new))
<1> DEFINE g == SetNode(h, id, x)
           s == Inserted(g, new)
<1>1. Forest(g, R, lvl, top)
  BY ForestSet
<1>2. h \in GoodHeaps
  BY DEF Forest
<1>3. LiveIds(g) = LiveIds(h)
  BY <1>2, NodeSet
<1> HIDE DEF g
<1>4. Grown(h, lvl, g, lvl)
  BY <1>3 DEF Grown
<1>5. s.status = "OK" /\ s.inserted = new /\ s.split = FALSE /\ s.heap = g
  BY DEF Inserted
<1> HIDE DEF s
<1>6. InsertPost(h, R, lvl, top, id, s)
  BY <1>1, <1>4, <1>5 DEF InsertPost
<1> QED
  BY <1>6 DEF s, g

\* A value changes, and nothing else of the leaf.
LEMMA ValueChanges ==
  ASSUME NEW x \in LeafNodes, NEW i \in 1..Len(x.keys), NEW v \in Value
  PROVE  [x EXCEPT !.vals[i] = v] \in LeafNodes /\ KidsOf([x EXCEPT !.vals[i] = v]) = {}
<1>1. Len(x.keys) \in Nat /\ x.vals \in Vectors(Value, Len(x.keys))
  BY LeafParts
<1> DEFINE vs == [x.vals EXCEPT ![i] = v]
           y == [x EXCEPT !.vals[i] = v]
<1>2. vs \in Vectors(Value, Len(x.keys))
  BY <1>1, EditVector
<1>3. vs \in Seq(Value) /\ Len(vs) = Len(x.keys)
  BY <1>2 DEF Vectors
<1>4. x \in [leaf : {TRUE}, keys : Seq(Nat), vals : Seq(Value), next : Nat]
  BY DEF LeafNodes
<1>5. y = [x EXCEPT !.vals = vs]
  OBVIOUS
<1> HIDE DEF vs, y
<1>6. /\ y \in [leaf : {TRUE}, keys : Seq(Nat), vals : Seq(Value), next : Nat]
      /\ y.vals = vs /\ y.keys = x.keys
  BY <1>3, <1>4, <1>5
<1>7. y \in LeafNodes
  BY <1>3, <1>6 DEF LeafNodes
<1> QED
  BY <1>7, LeafParts DEF y

\* The insertion into a leaf.
LEMMA InsertsIntoLeaf ==
  ASSUME NEW h, NEW R, NEW lvl, NEW top, Forest(h, R, lvl, top),
         NEW id \in LiveIds(h), h.nodes[id].leaf, NEW k \in Nat, NEW v \in Value
  PROVE  InsertPost(h, R, lvl, top, id, InsertIntoLeaf(h, id, k, v))
<1> DEFINE leaf == h.nodes[id]
           m == Len(leaf.keys)
           pos == LowerBound(leaf.keys, k)
           ks == InsertAt(leaf.keys, pos + 1, k)
           vs == InsertAt(leaf.vals, pos + 1, v)
           next == leaf.next
           wider == Leaf(ks, vs, next)
<1>1. leaf \in LeafNodes /\ KidsOf(leaf) = {}
  BY ForestNodes, LeafParts
<1>2. m \in Nat /\ leaf.keys \in Vectors(Nat, m) /\ leaf.vals \in Vectors(Value, m) /\ next \in Nat
  BY <1>1, LeafParts
<1>3. pos \in 0..m
  BY <1>2, LowerBoundRange
<1>4. CASE Holds(leaf.keys, pos, k)
  <2>1. pos < m
    BY <1>4 DEF Holds
  <2>2. pos + 1 \in 1..m
    BY <1>2, <1>3, <2>1
  <2> DEFINE x == [leaf EXCEPT !.vals[pos + 1] = v]
  <2>3. x \in LeafNodes /\ KidsOf(x) = {}
    BY <1>1, <2>2, ValueChanges
  <2>4. InsertIntoLeaf(h, id, k, v) = Inserted(SetNode(h, id, x), FALSE)
    BY <1>4 DEF InsertIntoLeaf
  <2> HIDE DEF x
  <2>5. x \in TreeNodes /\ KidsOf(x) = KidsOf(h.nodes[id])
    BY <1>1, <2>3 DEF TreeNodes
  <2>6. InsertPost(h, R, lvl, top, id, Inserted(SetNode(h, id, x), FALSE))
    BY <2>5, InsertsInPlace
  <2> QED
    BY <2>4, <2>6
<1>5. CASE ~Holds(leaf.keys, pos, k)
  <2>1. ks \in Vectors(Nat, m + 1) /\ vs \in Vectors(Value, m + 1)
    <3> HIDE DEF pos, leaf, m
    <3> QED
      BY <1>2, <1>3, EditVector
  <2>2. wider \in LeafNodes /\ KidsOf(wider) = {} /\ wider.keys = ks
    <3> DEFINE n1 == m + 1
    <3>1. n1 \in Nat /\ next \in Nat /\ ks \in Vectors(Nat, n1) /\ vs \in Vectors(Value, n1)
      BY <1>2, <2>1
    <3> HIDE DEF ks, vs, n1, next
    <3>2. /\ Leaf(ks, vs, next) \in LeafNodes /\ KidsOf(Leaf(ks, vs, next)) = {}
          /\ Leaf(ks, vs, next).keys = ks
      BY <3>1, LeafMade
    <3> QED
      BY <3>2
  <2>3. Len(wider.keys) > 0
    <3>1. Len(ks) = m + 1
      BY <2>1 DEF Vectors
    <3> HIDE DEF ks, wider, m
    <3> QED
      BY <1>2, <2>2, <3>1
  <2>4. InsertIntoLeaf(h, id, k, v) = IF Len(wider.keys) <= maxKeys
                                      THEN Inserted(SetNode(h, id, wider), TRUE)
                                      ELSE SplitLeaf(h, id, wider)
    BY <1>5 DEF InsertIntoLeaf
  <2> HIDE DEF wider
  <2>5. wider \in TreeNodes /\ KidsOf(wider) = KidsOf(h.nodes[id])
    BY <1>1, <2>2 DEF TreeNodes
  <2>6. InsertPost(h, R, lvl, top, id, Inserted(SetNode(h, id, wider), TRUE))
    BY <2>5, InsertsInPlace
  <2>7. InsertPost(h, R, lvl, top, id, SplitLeaf(h, id, wider))
    BY <2>2, <2>3, LeafSplits
  <2> QED
    BY <2>4, <2>6, <2>7
<1> QED
  BY <1>4, <1>5

\* An internal node splits, given the children it would have.
LEMMA InternalSplits ==
  ASSUME NEW h \in GoodHeaps, NEW lvl \in [Nat -> Nat], NEW R, NEW top, NEW K,
         Shape(LiveIds(h), K, lvl, R, top),
         NEW id \in LiveIds(h), \A n \in LiveIds(h) \ {id} : K[n] = KidsOf(h.nodes[n]),
         NEW full \in InnerNodes, KidsOf(full) = K[id], Len(full.keys) > 0
  PROVE  InsertPost(h, R, lvl, top, id, SplitInternal(h, id, full))
<1> DEFINE m == Len(full.keys)
           A == KidsOf(full)
           mid == m \div 2
           p == mid + 1
           q == m - p
           keys == full.keys
           kids == full.children
           upper == Internal(Drop(keys, p), Drop(kids, p))
           lower == Internal(Take(keys, mid), Take(kids, p))
           separator == keys[p]
<1>1. m \in Nat /\ keys \in Vectors(Nat, m) /\ kids \in Lists(Nat, m + 1, A)
  BY InnerParts
<1>2. m > 0
  OBVIOUS
<1>a. SplitInternal(h, id, full) = SplitOff(SetNode(Allocated(h, upper), id, lower), separator, NewId(h))
  BY DEF SplitInternal
<1> HIDE DEF m, keys, kids, A
<1>c. mid \in Nat /\ mid < m
  <2>1. m \in Nat
    BY <1>1
  <2> QED
    BY <1>2, <2>1
<1>3. mid \in 0..m /\ mid \in Nat /\ p \in 1..m /\ p \in 0..m
  <2> HIDE DEF mid
  <2> QED
    BY <1>1, <1>c
<1> HIDE DEF mid
<1>4. q \in Nat /\ p \in 0..(m + 1) /\ m + 1 \in Nat /\ (m + 1) - p = q + 1
  BY <1>1, <1>3
<1>5. Take(keys, mid) \in Vectors(Nat, mid)
  BY <1>1, <1>3, CutVector
<1>b. mid + 1 = p
  OBVIOUS
<1> HIDE DEF p
<1>6. Drop(keys, p) \in Vectors(Nat, q)
  BY <1>1, <1>3, CutVector
<1> HIDE DEF q
<1>7. PICK B, C : Cuts(Nat, m + 1, A, kids, p, B, C)
  BY <1>1, <1>4, CutList
<1>8. /\ B \cup C = A /\ B \cap C = {}
      /\ Take(kids, p) \in Lists(Nat, p, B)
      /\ Drop(kids, p) \in Lists(Nat, q + 1, C)
  BY <1>4, <1>7 DEF Cuts
<1>9. lower \in InnerNodes /\ KidsOf(lower) = B
  <2> DEFINE ks == Take(keys, mid)
             cs == Take(kids, p)
  <2>1. Paired(mid, B, ks, cs)
    BY <1>3, <1>5, <1>8, <1>b DEF Paired
  <2> HIDE DEF ks, cs
  <2>2. Internal(ks, cs) \in InnerNodes /\ KidsOf(Internal(ks, cs)) = B
    BY <2>1, InnerMade
  <2> QED
    BY <2>2 DEF ks, cs
<1>10. upper \in InnerNodes /\ KidsOf(upper) = C
  <2> DEFINE ks == Drop(keys, p)
             cs == Drop(kids, p)
  <2>1. Paired(q, C, ks, cs)
    BY <1>4, <1>6, <1>8 DEF Paired
  <2> HIDE DEF ks, cs
  <2>2. Internal(ks, cs) \in InnerNodes /\ KidsOf(Internal(ks, cs)) = C
    BY <2>1, InnerMade
  <2> QED
    BY <2>2 DEF ks, cs
<1>11. separator \in Nat
  BY <1>1, <1>3, ElementOfVector
<1> HIDE DEF lower, upper, separator
<1>12. lower \in TreeNodes /\ upper \in TreeNodes /\ KidsOf(lower) # {} /\ KidsOf(upper) # {}
  BY <1>9, <1>10, InnerParts DEF TreeNodes
<1>13. SharedOut(K, lvl[id], id, lower, upper)
  BY <1>8, <1>9, <1>10, <1>12 DEF SharedOut, A
<1> DEFINE g == SetNode(Allocated(h, upper), id, lower)
           r == NewId(h)
<1>14. SplitsTo(h, R, lvl, top, id, g, r)
  BY <1>13, Splitting
<1> HIDE DEF g, r
<1>15. InsertPost(h, R, lvl, top, id, SplitOff(g, separator, r))
  BY <1>11, <1>14, SplitReported
<1> QED
  BY <1>a, <1>15 DEF g, r

\* A child has split: the new part, on the child's level, is linked.
LEMMA LinksRight ==
  ASSUME NEW h, NEW R, NEW lvl, NEW top, Forest(h, R, lvl, top),
         NEW id \in LiveIds(h), ~h.nodes[id].leaf,
         NEW right \in R, lvl[id] = lvl[right] + 1, NEW separator \in Nat
  PROVE  InsertPost(h, R \ {right}, lvl, top, id, LinkRight(h, id, separator, right))
<1> DEFINE node == h.nodes[id]
           L == LiveIds(h)
           m == Len(node.keys)
           kids == KidsOf(node)
           pos == LowerBound(node.keys, separator)
           ks == InsertAt(node.keys, pos + 1, separator)
           cs == InsertAt(node.children, pos + 2, right)
           wider == Internal(ks, cs)
           K == KidMap(h)
           S == R \ {right}
<1>1. h \in GoodHeaps /\ lvl \in [Nat -> Nat] /\ Shape(L, K, lvl, R, top)
  BY DEF Forest
<1>2. node \in InnerNodes /\ K[id] = kids
  BY ForestNodes
<1>3. right \in L /\ right \in Nat /\ right \notin kids
  <2>1. right \in L /\ \A n \in L : right \notin K[n]
    BY <1>1 DEF Shape
  <2>2. L \subseteq Nat
    BY <1>1, HeapParts
  <2> QED
    BY <1>2, <2>1, <2>2
<1>4. m \in Nat /\ node.keys \in Vectors(Nat, m) /\ node.children \in Lists(Nat, m + 1, kids)
  BY <1>2, InnerParts
<1>5. pos \in 0..m
  BY <1>4, LowerBoundRange
<1>a. LinkRight(h, id, separator, right) =
        IF Len(wider.keys) <= maxKeys THEN Inserted(SetNode(h, id, wider), TRUE)
        ELSE SplitInternal(h, id, wider)
  BY DEF LinkRight
<1> DEFINE keys == node.keys
           children == node.children
<1> HIDE DEF m, pos, kids
<1>6. ks \in Vectors(Nat, m + 1)
  <2>1. keys \in Vectors(Nat, m)
    BY <1>4
  <2> HIDE DEF keys
  <2>2. InsertAt(keys, pos + 1, separator) \in Vectors(Nat, m + 1)
    BY <1>4, <1>5, <2>1, EditVector
  <2> QED
    BY <2>2 DEF keys
<1>7. cs \in Lists(Nat, (m + 1) + 1, kids \cup {right})
  <2> DEFINE n == m + 1
             i == pos + 1
  <2>1. n \in Nat /\ i \in 0..n /\ children \in Lists(Nat, n, kids) /\ pos + 2 = i + 1
    BY <1>4, <1>5
  <2> HIDE DEF n, i, children
  <2>2. InsertAt(children, i + 1, right) \in Lists(Nat, n + 1, kids \cup {right})
    BY <1>3, <2>1, WiderList
  <2> QED
    BY <2>1, <2>2 DEF n, children
<1> HIDE DEF ks, cs, keys, children
<1>8. wider \in InnerNodes /\ KidsOf(wider) = kids \cup {right} /\ wider.keys = ks
  <2> DEFINE n == m + 1
             A == kids \cup {right}
  <2>1. Paired(n, A, ks, cs)
    BY <1>4, <1>6, <1>7 DEF Paired
  <2> HIDE DEF n, A
  <2>2. Internal(ks, cs) \in InnerNodes /\ KidsOf(Internal(ks, cs)) = A /\ Internal(ks, cs).keys = ks
    BY <2>1, InnerMade
  <2> QED
    BY <2>2 DEF A
<1>9. Len(wider.keys) > 0
  <2>1. Len(ks) = m + 1
    BY <1>6 DEF Vectors
  <2> HIDE DEF wider
  <2> QED
    BY <1>4, <1>8, <2>1
<1> HIDE DEF wider
<1> DEFINE K2 == [n \in L |-> IF n = id THEN KidsOf(wider) ELSE KidsOf(h.nodes[n])]
<1>10. Shape(L, K2, lvl, S, top)
  <2>1. \A n \in L \ {id} : K2[n] = K[n]
    BY DEF KidMap
  <2>2. K2[id] = K[id] \cup {right}
    BY <1>2, <1>8
  <2> HIDE DEF K2, K
  <2>3. Adopted(L, K, lvl, R, id, right, K2)
    BY <2>1, <2>2 DEF Adopted
  <2> QED
    BY <1>1, <2>3, Adopts
<1>11. InsertPost(h, S, lvl, top, id, Inserted(SetNode(h, id, wider), TRUE))
  <2> DEFINE g == SetNode(h, id, wider)
             s == Inserted(g, TRUE)
  <2>1. wider \in TreeNodes
    BY <1>8 DEF TreeNodes
  <2>2. /\ g \in GoodHeaps /\ LiveIds(g) = L /\ g.nodes[id] = wider
        /\ \A n \in L \ {id} : g.nodes[n] = h.nodes[n]
    BY <1>1, <2>1, NodeSet
  <2> HIDE DEF g
  <2>3. KidMap(g) = K2
    BY <2>2 DEF KidMap
  <2>4. Forest(g, S, lvl, top)
    BY <1>1, <1>10, <2>2, <2>3 DEF Forest
  <2>5. Grown(h, lvl, g, lvl)
    BY <2>2 DEF Grown
  <2>6. s.status = "OK" /\ s.inserted = TRUE /\ s.split = FALSE /\ s.heap = g
    BY DEF Inserted
  <2> HIDE DEF s
  <2>7. InsertPost(h, S, lvl, top, id, s)
    BY <2>4, <2>5, <2>6 DEF InsertPost
  <2> QED
    BY <2>7 DEF s, g
<1>12. InsertPost(h, S, lvl, top, id, SplitInternal(h, id, wider))
  <2>1. \A n \in L \ {id} : K2[n] = KidsOf(h.nodes[n])
    OBVIOUS
  <2>2. KidsOf(wider) = K2[id]
    OBVIOUS
  <2> HIDE DEF K2, S
  <2> QED
    BY <1>1, <1>8, <1>9, <1>10, <2>1, <2>2, InternalSplits
<1> QED
  BY <1>a, <1>11, <1>12

\* The insertion under a node, given what it is under a child.
LEMMA InsertsUnder ==
  ASSUME NEW h, NEW R, NEW lvl, NEW top, Forest(h, R, lvl, top),
         NEW id \in LiveIds(h), ~h.nodes[id].leaf, NEW c \in KidsOf(h.nodes[id]),
         NEW below, InsertPost(h, R, lvl, top, c, below)
  PROVE  InsertPost(h, R, lvl, top, id, InsertUnder(id, below))
<1>1. h \in GoodHeaps /\ lvl \in [Nat -> Nat] /\ Shape(LiveIds(h), KidMap(h), lvl, R, top)
  BY DEF Forest
<1>2. c \in LiveIds(h) /\ lvl[id] = lvl[c] + 1
  BY ForestNodes
<1>3. CASE ~below.split
  <2>1. InsertUnder(id, below) = below
    BY <1>3 DEF InsertUnder
  <2> QED
    BY <1>3, <2>1 DEF InsertPost
<1>4. CASE below.split
  <2> DEFINE g == below.heap
             right == below.right
             T == R \cup {right}
  <2>1. /\ below.status = "OK" /\ below.separator \in Nat
        /\ right \in Nat /\ right \notin LiveIds(h)
    BY <1>4 DEF InsertPost
  <2>2. PICK lvl2 : Forest(g, T, lvl2, top) /\ Grown(h, lvl, g, lvl2) /\ lvl2[right] = lvl[c]
    BY <1>4 DEF InsertPost
  <2>3. id \in LiveIds(g) /\ lvl2[id] = lvl[id] /\ LiveIds(h) \subseteq LiveIds(g)
        /\ \A n \in LiveIds(h) : lvl2[n] = lvl[n]
    BY <2>2 DEF Grown
  <2>4. lvl2[id] = lvl2[right] + 1 /\ right \in T
    BY <1>2, <2>2, <2>3
  <2>5. R \subseteq LiveIds(h)
    BY <1>1 DEF Shape
  <2>6. T \ {right} = R
    BY <2>1, <2>5
  <2>7. ~g.nodes[id].leaf
    <3>1. lvl[id] > 0
      BY ForestNodes
    <3> HIDE DEF g
    <3> QED
      BY <2>2, <2>3, <3>1, ForestNodes
  <2> DEFINE separator == below.separator
             s == LinkRight(g, id, separator, right)
  <2>8. InsertUnder(id, below) = s
    BY <1>4 DEF InsertUnder
  <2> HIDE DEF g, right, T, separator
  <2>9. InsertPost(g, T \ {right}, lvl2, top, id, s)
    BY <2>1, <2>2, <2>3, <2>4, <2>7, LinksRight DEF separator
  <2>10. InsertPost(g, R, lvl2, top, id, s)
    BY <2>6, <2>9
  <2> HIDE DEF s
  <2>11. PICK lvl3 : /\ Forest(s.heap, IF s.split THEN R \cup {s.right} ELSE R, lvl3, top)
                     /\ Grown(g, lvl2, s.heap, lvl3)
                     /\ s.split => lvl3[s.right] = lvl2[id]
    BY <2>10 DEF InsertPost
  <2>12. Grown(h, lvl, s.heap, lvl3)
    BY <2>3, <2>11 DEF Grown
  <2>13. s.split => lvl3[s.right] = lvl[id]
    BY <2>3, <2>11
  <2>14. /\ s.status = "OK" /\ s.inserted \in BOOLEAN /\ s.split \in BOOLEAN
         /\ s.split => s.separator \in Nat /\ s.right \in Nat /\ s.right \notin LiveIds(h)
    BY <2>3, <2>10 DEF InsertPost
  <2>15. InsertPost(h, R, lvl, top, id, s)
    BY <2>11, <2>12, <2>13, <2>14 DEF InsertPost
  <2> QED
    BY <2>8, <2>15
<1>5. below.split \in BOOLEAN
  BY DEF InsertPost
<1> QED
  BY <1>3, <1>4, <1>5

-----------------------------------------------------------------------------
(* The recursions go down one level at a time.                             *)

Rank(h, lvl, n) == IF n \in LiveIds(h) THEN lvl[n] ELSE 0

\* ChildAt yields a child for every index that a search can return.
LEMMA ChildOfNode ==
  ASSUME NEW x \in InnerNodes, NEW i \in 0..Len(x.keys)
  PROVE  ChildAt(x, i) \in KidsOf(x) /\ ChildAt(x, i) = x.children[i + 1]
<1> DEFINE m == Len(x.keys)
           A == KidsOf(x)
           s == x.children
<1>1. m \in Nat /\ s \in Lists(Nat, m + 1, A) /\ Len(s) = m + 1
  BY InnerParts
<1>2. i \in 0..m
  OBVIOUS
<1>3. ChildAt(x, i) = IF i < Len(s) THEN s[i + 1] ELSE 0
  BY DEF ChildAt
<1> HIDE DEF m, A, s
<1>4. i + 1 \in 1..(m + 1) /\ i < Len(s) /\ m + 1 \in Nat
  BY <1>1, <1>2
<1>5. s[i + 1] \in A
  <2> DEFINE n == m + 1
             j == i + 1
  <2>1. n \in Nat /\ j \in 1..n /\ s \in Lists(Nat, n, A)
    BY <1>1, <1>4
  <2> HIDE DEF n, j
  <2>2. s[j] \in A
    BY <2>1, ListElements
  <2> QED
    BY <2>2 DEF j
<1> QED
  BY <1>3, <1>4, <1>5 DEF A, s

\* The rank of an id is its level, and 0 for an id out of use.
LEMMA Ranks ==
  ASSUME NEW h, NEW R, NEW lvl, NEW top \in Nat, Forest(h, R, lvl, top)
  PROVE  /\ \A n \in Ids(h) : Rank(h, lvl, n) \in Nat /\ Rank(h, lvl, n) <= top
         /\ LiveIds(h) \subseteq Ids(h)
         /\ \A n : Live(h, n) <=> n \in LiveIds(h)
         /\ \A n \in LiveIds(h) : Rank(h, lvl, n) = lvl[n]
<1>1. h \in GoodHeaps /\ Shape(LiveIds(h), KidMap(h), lvl, R, top)
  BY DEF Forest
<1>2. \A n \in LiveIds(h) : lvl[n] \in Nat /\ lvl[n] <= top
  BY <1>1 DEF Shape
<1>3. LiveIds(h) \subseteq 1..Len(h.nodes) /\ Len(h.nodes) \in Nat
  BY <1>1, HeapParts
<1>4. LiveIds(h) \subseteq Ids(h)
  BY <1>3 DEF Ids
<1>5. \A n : Live(h, n) <=> n \in LiveIds(h)
  BY DEF Live, LiveIds
<1> QED
  BY <1>2, <1>4, <1>5 DEF Rank

\* The child that the search for a key goes to, and the first one.
LEMMA WayDown ==
  ASSUME NEW h, NEW R, NEW lvl, NEW top \in Nat, Forest(h, R, lvl, top),
         NEW n \in LiveIds(h), ~h.nodes[n].leaf, NEW i \in 0..Len(h.nodes[n].keys)
  PROVE  LET c == ChildAt(h.nodes[n], i) IN
           /\ c \in KidsOf(h.nodes[n]) /\ c \in LiveIds(h) /\ c \in Ids(h)
           /\ Rank(h, lvl, n) = Rank(h, lvl, c) + 1
<1> DEFINE x == h.nodes[n]
           c == ChildAt(x, i)
<1>1. x \in InnerNodes /\ i \in 0..Len(x.keys)
  BY ForestNodes
<1>2. c \in KidsOf(x)
  BY <1>1, ChildOfNode
<1>3. c \in LiveIds(h) /\ lvl[n] = lvl[c] + 1
  BY <1>2, ForestNodes
<1>4. c \in Ids(h) /\ Rank(h, lvl, c) = lvl[c] /\ Rank(h, lvl, n) = lvl[n]
  BY <1>3, Ranks
<1> QED
  BY <1>2, <1>3, <1>4

\* Where the search for a key goes from a node, and where it could go.
Turn(h, n, k) == UpperBound(h.nodes[n].keys, k)

\* The search for a key takes an index of a child.
LEMMA TurnRange ==
  ASSUME NEW h, NEW R, NEW lvl, NEW top, Forest(h, R, lvl, top),
         NEW n \in LiveIds(h), ~h.nodes[n].leaf, NEW k \in Nat
  PROVE  Turn(h, n, k) \in 0..Len(h.nodes[n].keys) /\ Len(h.nodes[n].keys) \in Nat
<1> DEFINE x == h.nodes[n]
           m == Len(x.keys)
           ks == x.keys
<1>1. x \in InnerNodes
  BY ForestNodes
<1>2. m \in Nat /\ ks \in Vectors(Nat, m)
  BY <1>1, InnerParts
<1>3. UpperBound(ks, k) \in 0..m
  <2> HIDE DEF m, ks
  <2> QED
    BY <1>2, UpperBoundRange
<1> QED
  BY <1>2, <1>3 DEF Turn

-----------------------------------------------------------------------------
(* Insert.                                                                 *)

InsertBody(h, k, v, f, n) ==
  IF ~Live(h, n) THEN InsertFailed(h)
  ELSE IF h.nodes[n].leaf THEN InsertIntoLeaf(h, n, k, v)
  ELSE InsertUnder(n, f[ChildAt(h.nodes[n], Turn(h, n, k))])

InsertsBy(f, h, k, v) == f = [n \in Ids(h) |-> InsertBody(h, k, v, f, n)]

\* Insert at a node depends on its outcome on lower levels only.
LEMMA InsertDescends ==
  ASSUME NEW h, NEW R, NEW lvl, NEW top \in Nat, Forest(h, R, lvl, top), NEW k \in Nat, NEW v,
         NEW n \in Ids(h), NEW f, NEW g,
         \A c \in Ids(h) : Rank(h, lvl, c) < Rank(h, lvl, n) => f[c] = g[c]
  PROVE  InsertBody(h, k, v, f, n) = InsertBody(h, k, v, g, n)
<1>1. CASE ~Live(h, n) \/ h.nodes[n].leaf
  BY <1>1 DEF InsertBody
<1>2. CASE Live(h, n) /\ ~h.nodes[n].leaf
  <2> DEFINE i == Turn(h, n, k)
             c == ChildAt(h.nodes[n], i)
  <2>1. n \in LiveIds(h)
    BY <1>2, Ranks
  <2>2. i \in 0..Len(h.nodes[n].keys)
    BY <1>2, <2>1, TurnRange
  <2> HIDE DEF i
  <2>3. c \in Ids(h) /\ Rank(h, lvl, n) = Rank(h, lvl, c) + 1
    BY <1>2, <2>1, <2>2, WayDown
  <2>4. Rank(h, lvl, c) \in Nat
    BY <2>3, Ranks
  <2>5. Rank(h, lvl, c) < Rank(h, lvl, n)
    BY <2>3, <2>4
  <2>6. f[c] = g[c]
    BY <2>3, <2>5
  <2> QED
    BY <2>6 DEF InsertBody, i
<1> QED
  BY <1>1, <1>2

\* So the recursion of Insert defines a function.
LEMMA InsertExists ==
  ASSUME NEW h, NEW R, NEW lvl, NEW top \in Nat, Forest(h, R, lvl, top), NEW k \in Nat, NEW v
  PROVE  \E f : InsertsBy(f, h, k, v)
<1> DEFINE D == Ids(h)
           Rk(n) == Rank(h, lvl, n)
           Body(f, n) == InsertBody(h, k, v, f, n)
           Good(f, m) == \A n \in D : Rk(n) < m => f[n] = Body(f, n)
           S == {m \in Nat : \E f : f = [n \in D |-> f[n]] /\ Good(f, m)}
<1>1. \A n \in D : Rk(n) \in Nat /\ Rk(n) <= top
  BY Ranks
<1>2. ASSUME NEW n \in D, NEW f, NEW g, \A c \in D : Rk(c) < Rk(n) => f[c] = g[c]
      PROVE  Body(f, n) = Body(g, n)
  BY <1>2, InsertDescends
<1> HIDE DEF D, Rk, Body
<1>3. 0 \in S
  <2> DEFINE f == [n \in D |-> 0]
  <2>1. f = [n \in D |-> f[n]]
    OBVIOUS
  <2> HIDE DEF f
  <2>2. Good(f, 0)
    BY <1>1
  <2> QED
    BY <2>1, <2>2
<1>4. ASSUME NEW m \in Nat, m \in S PROVE m + 1 \in S
  <2>1. PICK g : g = [n \in D |-> g[n]] /\ Good(g, m)
    BY <1>4
  <2> DEFINE f == [n \in D |-> IF Rk(n) < m THEN g[n] ELSE Body(g, n)]
  <2>2. f = [n \in D |-> f[n]]
    OBVIOUS
  <2>3. \A n \in D : (Rk(n) < m => f[n] = g[n]) /\ f[n] = Body(g, n)
    BY <2>1
  <2> HIDE DEF f
  <2>4. ASSUME NEW n \in D, Rk(n) < m + 1 PROVE f[n] = Body(f, n)
    <3>1. \A c \in D : Rk(c) < Rk(n) => f[c] = g[c]
      BY <1>1, <2>3, <2>4
    <3>2. Body(f, n) = Body(g, n)
      BY <1>2, <3>1
    <3> QED
      BY <2>3, <3>2
  <2>5. Good(f, m + 1)
    BY <2>4
  <2> HIDE DEF Good
  <2> QED
    BY <2>2, <2>5
<1>5. top + 1 \in S
  <2> HIDE DEF S
  <2>1. Nat \subseteq S
    BY <1>3, <1>4, SetInduction
  <2> QED
    BY <2>1
<1>6. PICK f : f = [n \in D |-> f[n]] /\ Good(f, top + 1)
  BY <1>5
<1>7. \A n \in D : f[n] = Body(f, n)
  BY <1>1, <1>6
<1>8. f = [n \in D |-> Body(f, n)]
  BY <1>6, <1>7
<1> QED
  BY <1>8 DEF D, Body, InsertsBy

\* Insert is that function.
LEMMA InsertUnfolds ==
  ASSUME NEW h, NEW R, NEW lvl, NEW top \in Nat, Forest(h, R, lvl, top), NEW k \in Nat, NEW v
  PROVE  \E f : /\ \A n \in Ids(h) : Insert(h, n, k, v) = f[n] /\ f[n] = InsertBody(h, k, v, f, n)
<1> DEFINE Body(f) == [n \in Ids(h) |->
             IF ~Live(h, n) THEN InsertFailed(h)
             ELSE IF h.nodes[n].leaf THEN InsertIntoLeaf(h, n, k, v)
             ELSE InsertUnder(n, f[ChildAt(h.nodes[n], UpperBound(h.nodes[n].keys, k))])]
           It == CHOOSE f : f = Body(f)
<1>1. \A n : Insert(h, n, k, v) = It[n]
  BY DEF Insert
<1>2. \A f : Body(f) = [n \in Ids(h) |-> InsertBody(h, k, v, f, n)]
  BY DEF InsertBody, Turn
<1> HIDE DEF Body
<1>3. \E f : f = Body(f)
  <2>1. PICK f : InsertsBy(f, h, k, v)
    BY InsertExists
  <2>2. f = Body(f)
    BY <1>2, <2>1 DEF InsertsBy
  <2> QED
    BY <2>2
<1>4. It = Body(It)
  BY <1>3
<1> HIDE DEF It
<1>5. \A n \in Ids(h) : It[n] = InsertBody(h, k, v, It, n)
  BY <1>2, <1>4
<1> QED
  BY <1>1, <1>5

\* The insertion under any node.
LEMMA Inserts ==
  ASSUME NEW h, NEW R, NEW lvl, NEW top \in Nat, Forest(h, R, lvl, top),
         NEW k \in Nat, NEW v \in Value, NEW id \in LiveIds(h)
  PROVE  InsertPost(h, R, lvl, top, id, Insert(h, id, k, v))
<1> DEFINE L == LiveIds(h)
<1>1. PICK f : \A n \in Ids(h) : Insert(h, n, k, v) = f[n] /\ f[n] = InsertBody(h, k, v, f, n)
  BY InsertUnfolds
<1>2. L \subseteq Ids(h) /\ \A n \in L : Live(h, n)
  BY Ranks
<1>3. \A n \in L : lvl[n] \in Nat
  BY ForestNodes
<1> DEFINE Post(n) == InsertPost(h, R, lvl, top, n, f[n])
           S == {m \in Nat : \A n \in L : lvl[n] < m => Post(n)}
<1>4. 0 \in S
  BY <1>3
<1>5. ASSUME NEW m \in Nat, m \in S PROVE m + 1 \in S
  <2> SUFFICES ASSUME NEW n \in L, lvl[n] < m + 1 PROVE Post(n)
    OBVIOUS
  <2>1. f[n] = InsertBody(h, k, v, f, n) /\ Live(h, n)
    BY <1>1, <1>2
  <2>2. CASE h.nodes[n].leaf
    <3>1. f[n] = InsertIntoLeaf(h, n, k, v)
      BY <2>1, <2>2 DEF InsertBody
    <3>2. InsertPost(h, R, lvl, top, n, InsertIntoLeaf(h, n, k, v))
      BY <2>2, InsertsIntoLeaf
    <3> QED
      BY <3>1, <3>2
  <2>3. CASE ~h.nodes[n].leaf
    <3> DEFINE i == Turn(h, n, k)
               c == ChildAt(h.nodes[n], i)
    <3>1. i \in 0..Len(h.nodes[n].keys)
      BY <2>3, TurnRange
    <3>2. f[n] = InsertUnder(n, f[c])
      BY <2>1, <2>3 DEF InsertBody
    <3> HIDE DEF i
    <3>3. c \in KidsOf(h.nodes[n])
      BY <2>3, <3>1, WayDown
    <3> HIDE DEF c
    <3>4. c \in L /\ lvl[n] = lvl[c] + 1 /\ lvl[c] \in Nat
      BY <3>3, ForestNodes
    <3>5. lvl[c] < m
      BY <1>3, <3>4
    <3>6. Post(c)
      BY <1>5, <3>4, <3>5
    <3>7. InsertPost(h, R, lvl, top, n, InsertUnder(n, f[c]))
      BY <2>3, <3>3, <3>6, InsertsUnder
    <3> QED
      BY <3>2, <3>7
  <2> QED
    BY <2>2, <2>3
<1>6. lvl[id] + 1 \in S
  <2>1. lvl[id] + 1 \in Nat
    BY <1>3
  <2> HIDE DEF S
  <2>2. Nat \subseteq S
    BY <1>4, <1>5, SetInduction
  <2> QED
    BY <2>1, <2>2
<1>7. Post(id)
  BY <1>3, <1>6
<1>8. Insert(h, id, k, v) = f[id]
  BY <1>1, <1>2
<1> QED
  BY <1>7, <1>8

\* A list of two elements.
LEMMA TwoList ==
  ASSUME NEW a \in Nat, NEW b \in Nat, a # b
  PROVE  <<a, b>> \in Lists(Nat, 2, {a, b})
<1> DEFINE s == <<a, b>>
<1>1. s \in Seq(Nat) /\ Len(s) = 2 /\ s[1] = a /\ s[2] = b
  OBVIOUS
<1> HIDE DEF s
<1>2. s \in Vectors(Nat, 2)
  BY <1>1 DEF Vectors
<1>3. \A i \in 1..2 : i = 1 \/ i = 2
  OBVIOUS
<1>4. \A i \in 1..2 : s[i] \in {a, b}
  BY <1>1, <1>3
<1>5. \A e \in {a, b} : \E i \in 1..2 : s[i] = e
  <2>1. 1 \in 1..2 /\ 2 \in 1..2
    OBVIOUS
  <2> QED
    BY <1>1, <2>1
<1>6. \A i, j \in 1..2 : s[i] = s[j] => i = j
  BY <1>1, <1>3
<1>7. s \in Lists(Nat, 2, {a, b})
  BY <1>2, <1>4, <1>5, <1>6, IsList
<1> QED
  BY <1>7 DEF s

-----------------------------------------------------------------------------
(* The members of the tree between calls.                                  *)

Outcomes == {"OK", "NotFound", "InvalidArgument"}

TreeRecords ==
  [heap : GoodHeaps, rootId : Nat, rootIsLeaf : BOOLEAN, size : Nat, height : Nat \ {0},
   status : Outcomes]

\* The heap holds one tree; its levels are height_, and its root is described.
Standing(h, root, isLeaf, tall) ==
  /\ isLeaf = h.nodes[root].leaf
  /\ \E lvl : Forest(h, {root}, lvl, tall - 1) /\ lvl[root] = tall - 1

Tree(t) == t \in TreeRecords /\ Standing(t.heap, t.rootId, t.rootIsLeaf, t.height)

\* What the members of a tree are.
LEMMA TreeParts ==
  ASSUME NEW t, Tree(t)
  PROVE  /\ t.heap \in GoodHeaps /\ t.rootId \in Nat /\ t.rootIsLeaf \in BOOLEAN
         /\ t.size \in Nat /\ t.height \in Nat \ {0} /\ t.height - 1 \in Nat /\ t.status \in Outcomes
         /\ t.rootId \in LiveIds(t.heap)
         /\ Standing(t.heap, t.rootId, t.rootIsLeaf, t.height)
<1>1. t \in TreeRecords /\ Standing(t.heap, t.rootId, t.rootIsLeaf, t.height)
  BY DEF Tree
<1>2. /\ t.heap \in GoodHeaps /\ t.rootId \in Nat /\ t.rootIsLeaf \in BOOLEAN
      /\ t.size \in Nat /\ t.height \in Nat \ {0} /\ t.status \in Outcomes
  BY <1>1 DEF TreeRecords
<1>3. t.rootId \in LiveIds(t.heap)
  BY <1>1 DEF Standing, Forest, Shape
<1>4. t.height - 1 \in Nat
  BY <1>2
<1> QED
  BY <1>1, <1>2, <1>3, <1>4

\* A node keeps its kind while it keeps its level.
LEMMA SameKind ==
  ASSUME NEW h, NEW R, NEW lvl, NEW top, Forest(h, R, lvl, top), NEW n \in LiveIds(h),
         NEW g, NEW T, NEW lvl2, NEW top2, Forest(g, T, lvl2, top2), n \in LiveIds(g),
         lvl2[n] = lvl[n]
  PROVE  g.nodes[n].leaf = h.nodes[n].leaf
<1>1. h.nodes[n].leaf \in BOOLEAN /\ lvl[n] \in Nat
      /\ (h.nodes[n].leaf => lvl[n] = 0) /\ (~h.nodes[n].leaf => lvl[n] > 0)
  BY ForestNodes
<1>2. g.nodes[n].leaf \in BOOLEAN
      /\ (g.nodes[n].leaf => lvl2[n] = 0) /\ (~g.nodes[n].leaf => lvl2[n] > 0)
  BY ForestNodes
<1>3. CASE lvl[n] = 0
  <2>1. h.nodes[n].leaf = TRUE
    BY <1>1, <1>3
  <2>2. g.nodes[n].leaf = TRUE
    BY <1>2, <1>3
  <2> QED
    BY <2>1, <2>2
<1>4. CASE lvl[n] # 0
  <2>1. h.nodes[n].leaf = FALSE
    BY <1>1, <1>4
  <2>2. g.nodes[n].leaf = FALSE
    BY <1>2, <1>4
  <2> QED
    BY <2>1, <2>2
<1> QED
  BY <1>3, <1>4

\* Two roots on one level get a common parent.
LEMMA RootGrows ==
  ASSUME NEW h, NEW lvl, NEW top \in Nat, NEW a, NEW b, Forest(h, {a, b}, lvl, top), a # b,
         lvl[a] = top, lvl[b] = top, NEW separator \in Nat
  PROVE  /\ Allocated(h, Internal(<<separator>>, <<a, b>>)) \in GoodHeaps
         /\ NewId(h) \in Nat
         /\ Standing(Allocated(h, Internal(<<separator>>, <<a, b>>)), NewId(h), FALSE, (top + 1) + 1)
<1> DEFINE ks == <<separator>>
           cs == <<a, b>>
           x == Internal(ks, cs)
           g == Allocated(h, x)
           r == NewId(h)
           L == LiveIds(h)
           lvl2 == [lvl EXCEPT ![r] = lvl[a] + 1]
<1>1. h \in GoodHeaps /\ lvl \in [Nat -> Nat] /\ Shape(L, KidMap(h), lvl, {a, b}, top)
  BY DEF Forest
<1>2. L \subseteq Nat
  BY <1>1, HeapParts
<1>3. a \in L /\ b \in L /\ a \in Nat /\ b \in Nat
  BY <1>1, <1>2 DEF Shape
<1>4. Paired(1, {a, b}, ks, cs)
  <2>1. ks \in Vectors(Nat, 1)
    BY OneVector
  <2>2. cs \in Lists(Nat, 1 + 1, {a, b})
    BY <1>3, TwoList
  <2> QED
    BY <2>1, <2>2 DEF Paired
<1> HIDE DEF ks, cs
<1>5. x \in InnerNodes /\ KidsOf(x) = {a, b}
  BY <1>4, InnerMade
<1> HIDE DEF x
<1>6. x \in TreeNodes /\ ~x.leaf
  BY <1>5, InnerParts DEF TreeNodes
<1>7. /\ g \in GoodHeaps /\ r \in Nat /\ r \notin L
      /\ LiveIds(g) = L \cup {r} /\ g.nodes[r] = x
      /\ \A n \in L : g.nodes[n] = h.nodes[n]
  BY <1>1, <1>6, NodeAllocated
<1> HIDE DEF g, r
<1>8. lvl2 \in [Nat -> Nat] /\ lvl2[r] = lvl[a] + 1 /\ \A n \in L : lvl2[n] = lvl[n]
  <2>1. lvl[a] + 1 \in Nat
    BY <1>1, <1>3
  <2> QED
    BY <1>1, <1>2, <1>7, <2>1
<1> HIDE DEF lvl2
<1> DEFINE K == KidMap(h)
           K2 == KidMap(g)
<1>9. K2[r] = {a, b} /\ \A n \in L : K2[n] = K[n]
  BY <1>5, <1>7 DEF KidMap
<1> HIDE DEF K, K2
<1> DEFINE R == {a, b}
<1>10. Rooted(L, K, lvl, R, a, b, r, K2, lvl2)
  BY <1>7, <1>8, <1>9 DEF Rooted
<1>11. (R \ {a, b}) \cup {r} = {r} /\ Shape(L, K, lvl, R, top)
  BY <1>1 DEF K
<1> HIDE DEF R
<1>12. Shape(L \cup {r}, K2, lvl2, (R \ {a, b}) \cup {r}, top + 1)
  BY <1>10, <1>11, Roots
<1>13. Forest(g, {r}, lvl2, top + 1)
  BY <1>7, <1>8, <1>11, <1>12 DEF Forest, K2
<1>14. lvl2[r] = top + 1 /\ ((top + 1) + 1) - 1 = top + 1
  BY <1>8
<1>15. g.nodes[r].leaf = FALSE
  BY <1>5, <1>7, InnerParts
<1>16. Standing(g, r, FALSE, (top + 1) + 1)
  <2> DEFINE tall == (top + 1) + 1
  <2>1. tall - 1 = top + 1
    BY <1>14
  <2> HIDE DEF tall
  <2>2. Forest(g, {r}, lvl2, tall - 1) /\ lvl2[r] = tall - 1
    BY <1>13, <1>14, <2>1
  <2>3. Standing(g, r, FALSE, tall)
    BY <1>15, <2>2 DEF Standing
  <2> QED
    BY <2>3 DEF tall
<1> QED
  BY <1>7, <1>16 DEF g, r, x, ks, cs

\* Put.
LEMMA PutKeepsTree ==
  ASSUME NEW t, Tree(t), NEW k \in Nat, NEW v \in Value
  PROVE  Tree(AfterPut(t, k, v))
<1> DEFINE h == t.heap
           root == t.rootId
           done == Insert(h, root, k, v)
           g == done.heap
           right == done.right
           separator == done.separator
           count == IF done.inserted THEN t.size + 1 ELSE t.size
           top == t.height - 1
           grown == [t EXCEPT !.heap = g, !.size = count, !.status = done.status]
           above == Allocated(g, Internal(<<separator>>, <<root, right>>))
           id == NewId(g)
           higher == [grown EXCEPT !.heap = above, !.rootId = id, !.rootIsLeaf = FALSE, !.height = @ + 1]
<1>1. /\ h \in GoodHeaps /\ root \in Nat /\ t.rootIsLeaf \in BOOLEAN
      /\ t.size \in Nat /\ t.height \in Nat \ {0} /\ top \in Nat /\ t.status \in Outcomes
      /\ root \in LiveIds(h) /\ t \in TreeRecords
      /\ Standing(h, root, t.rootIsLeaf, t.height)
  BY TreeParts DEF Tree
<1>2. PICK lvl : Forest(h, {root}, lvl, top) /\ lvl[root] = top
  BY <1>1 DEF Standing
<1>a. AfterPut(t, k, v) = IF k = EmptyKey THEN [t EXCEPT !.status = "InvalidArgument"]
                          ELSE IF done.split THEN higher ELSE grown
  BY DEF AfterPut
<1> HIDE DEF top
<1>3. InsertPost(h, {root}, lvl, top, root, done)
  <2> HIDE DEF h, root
  <2> QED
    BY <1>1, <1>2, Inserts
<1> HIDE DEF done
<1>4. /\ done.status = "OK" /\ done.inserted \in BOOLEAN /\ done.split \in BOOLEAN
      /\ done.split => separator \in Nat /\ right \in Nat /\ right \notin LiveIds(h)
  BY <1>3 DEF InsertPost
<1>5. PICK lvl2 : /\ Forest(g, IF done.split THEN {root} \cup {right} ELSE {root}, lvl2, top)
                  /\ Grown(h, lvl, g, lvl2)
                  /\ done.split => lvl2[right] = lvl[root]
  BY <1>3 DEF InsertPost
<1>6. root \in LiveIds(g) /\ lvl2[root] = top
  BY <1>1, <1>2, <1>5 DEF Grown
<1>7. g \in GoodHeaps
  BY <1>5 DEF Forest
<1>8. count \in Nat
  BY <1>1
<1> HIDE DEF count, g, h, root, right, separator
<1>9. /\ grown \in TreeRecords /\ grown.heap = g /\ grown.rootId = t.rootId
      /\ grown.rootIsLeaf = t.rootIsLeaf /\ grown.height = t.height
  BY <1>1, <1>4, <1>7, <1>8 DEF TreeRecords, Outcomes
<1>10. CASE k = EmptyKey
  <2> DEFINE u == [t EXCEPT !.status = "InvalidArgument"]
  <2>1. /\ u \in TreeRecords /\ u.heap = t.heap /\ u.rootId = t.rootId
        /\ u.rootIsLeaf = t.rootIsLeaf /\ u.height = t.height
    BY <1>1 DEF TreeRecords, Outcomes
  <2> HIDE DEF u
  <2>2. Tree(u)
    BY <1>1, <2>1 DEF Tree, h, root
  <2> QED
    BY <1>a, <1>10, <2>2 DEF u
<1>11. CASE k # EmptyKey /\ ~done.split
  <2>1. Forest(g, {root}, lvl2, top)
    BY <1>5, <1>11
  <2>2. g.nodes[root].leaf = h.nodes[root].leaf
    BY <1>1, <1>2, <1>6, <2>1, SameKind
  <2>3. t.rootIsLeaf = h.nodes[root].leaf
    BY <1>1 DEF Standing
  <2>4. Standing(g, root, t.rootIsLeaf, t.height)
    BY <1>6, <2>1, <2>2, <2>3 DEF Standing, top
  <2> HIDE DEF grown
  <2>5. Tree(grown)
    BY <1>9, <2>4 DEF Tree, root
  <2> QED
    BY <1>a, <1>11, <2>5
<1>12. CASE k # EmptyKey /\ done.split
  <2>1. {root} \cup {right} = {root, right}
    OBVIOUS
  <2>2. Forest(g, {root, right}, lvl2, top)
    BY <1>5, <1>12, <2>1
  <2>3. lvl2[right] = top /\ separator \in Nat /\ root # right
    BY <1>1, <1>2, <1>4, <1>5, <1>12
  <2>4. above \in GoodHeaps /\ id \in Nat /\ Standing(above, id, FALSE, (top + 1) + 1)
    BY <1>1, <1>6, <2>2, <2>3, RootGrows
  <2>5. (top + 1) + 1 = t.height + 1 /\ t.height + 1 \in Nat \ {0}
    BY <1>1 DEF top
  <2> HIDE DEF above, id, grown
  <2>6. /\ higher \in TreeRecords /\ higher.heap = above /\ higher.rootId = id
        /\ higher.rootIsLeaf = FALSE /\ higher.height = t.height + 1
    BY <1>9, <2>4, <2>5 DEF TreeRecords
  <2> HIDE DEF higher
  <2>7. Tree(higher)
    BY <2>4, <2>5, <2>6 DEF Tree
  <2> QED
    BY <1>a, <1>12, <2>7
<1> QED
  BY <1>4, <1>10, <1>11, <1>12

\* A fold stays in the set its steps stay in.
LEMMA FoldStays ==
  ASSUME NEW T, NEW base \in T, NEW step \in [T \X (Nat \ {0}) -> T], NEW n \in Nat,
         NEW it, FoldsFrom(T, it, base, step, n)
  PROVE  it[1..n] \in T
<1> DEFINE acc == [m \in 0..n |-> it[1..m]]
<1>1. acc = [m \in 0..n |-> it[1..m]] /\ acc[n] = it[1..n]
  OBVIOUS
<1> HIDE DEF acc
<1>2. Accumulates(acc, base, step, n)
  BY <1>1, FoldsAccumulate
<1>3. SameSteps(T, step, step, n)
  BY DEF SameSteps
<1>4. acc[n] \in T
  <2>1. \A m \in 0..n : acc[m] = acc[m] /\ acc[m] \in T
    BY <1>2, <1>3, AccumulationUnique
  <2> QED
    BY <2>1
<1> QED
  BY <1>1, <1>4

-----------------------------------------------------------------------------
(* FirstKey.                                                               *)

FirstBody(h, f, n) ==
  IF ~Live(h, n) THEN EmptyKey
  ELSE IF ~h.nodes[n].leaf THEN f[ChildAt(h.nodes[n], 0)]
  ELSE IF h.nodes[n].keys = << >> THEN EmptyKey ELSE Head(h.nodes[n].keys)

FirstBy(f, h) == f = [n \in Ids(h) |-> FirstBody(h, f, n)]

\* FirstKey at a node depends on its value on lower levels only.
LEMMA FirstDescends ==
  ASSUME NEW h, NEW R, NEW lvl, NEW top \in Nat, Forest(h, R, lvl, top),
         NEW n \in Ids(h), NEW f, NEW g,
         \A c \in Ids(h) : Rank(h, lvl, c) < Rank(h, lvl, n) => f[c] = g[c]
  PROVE  FirstBody(h, f, n) = FirstBody(h, g, n)
<1>1. CASE ~Live(h, n) \/ h.nodes[n].leaf
  BY <1>1 DEF FirstBody
<1>2. CASE Live(h, n) /\ ~h.nodes[n].leaf
  <2> DEFINE c == ChildAt(h.nodes[n], 0)
  <2>1. n \in LiveIds(h)
    BY <1>2, Ranks
  <2>2. 0 \in 0..Len(h.nodes[n].keys)
    <3>1. Len(h.nodes[n].keys) \in Nat
      BY <1>2, <2>1, ForestNodes, InnerParts
    <3> QED
      BY <3>1
  <2>3. c \in Ids(h) /\ Rank(h, lvl, n) = Rank(h, lvl, c) + 1
    BY <1>2, <2>1, <2>2, WayDown
  <2>4. Rank(h, lvl, c) \in Nat
    BY <2>3, Ranks
  <2>5. Rank(h, lvl, c) < Rank(h, lvl, n)
    BY <2>3, <2>4
  <2>6. f[c] = g[c]
    BY <2>3, <2>5
  <2> QED
    BY <2>6 DEF FirstBody
<1> QED
  BY <1>1, <1>2

\* So the recursion of FirstKey defines a function.
LEMMA FirstExists ==
  ASSUME NEW h, NEW R, NEW lvl, NEW top \in Nat, Forest(h, R, lvl, top)
  PROVE  \E f : FirstBy(f, h)
<1> DEFINE D == Ids(h)
           Rk(n) == Rank(h, lvl, n)
           Body(f, n) == FirstBody(h, f, n)
           Good(f, m) == \A n \in D : Rk(n) < m => f[n] = Body(f, n)
           S == {m \in Nat : \E f : f = [n \in D |-> f[n]] /\ Good(f, m)}
<1>1. \A n \in D : Rk(n) \in Nat /\ Rk(n) <= top
  BY Ranks
<1>2. ASSUME NEW n \in D, NEW f, NEW g, \A c \in D : Rk(c) < Rk(n) => f[c] = g[c]
      PROVE  Body(f, n) = Body(g, n)
  BY <1>2, FirstDescends
<1> HIDE DEF D, Rk, Body
<1>3. 0 \in S
  <2> DEFINE f == [n \in D |-> 0]
  <2>1. f = [n \in D |-> f[n]]
    OBVIOUS
  <2> HIDE DEF f
  <2>2. Good(f, 0)
    BY <1>1
  <2> QED
    BY <2>1, <2>2
<1>4. ASSUME NEW m \in Nat, m \in S PROVE m + 1 \in S
  <2>1. PICK g : g = [n \in D |-> g[n]] /\ Good(g, m)
    BY <1>4
  <2> DEFINE f == [n \in D |-> IF Rk(n) < m THEN g[n] ELSE Body(g, n)]
  <2>2. f = [n \in D |-> f[n]]
    OBVIOUS
  <2>3. \A n \in D : (Rk(n) < m => f[n] = g[n]) /\ f[n] = Body(g, n)
    BY <2>1
  <2> HIDE DEF f
  <2>4. ASSUME NEW n \in D, Rk(n) < m + 1 PROVE f[n] = Body(f, n)
    <3>1. \A c \in D : Rk(c) < Rk(n) => f[c] = g[c]
      BY <1>1, <2>3, <2>4
    <3>2. Body(f, n) = Body(g, n)
      BY <1>2, <3>1
    <3> QED
      BY <2>3, <3>2
  <2>5. Good(f, m + 1)
    BY <2>4
  <2> HIDE DEF Good
  <2> QED
    BY <2>2, <2>5
<1>5. top + 1 \in S
  <2> HIDE DEF S
  <2>1. Nat \subseteq S
    BY <1>3, <1>4, SetInduction
  <2> QED
    BY <2>1
<1>6. PICK f : f = [n \in D |-> f[n]] /\ Good(f, top + 1)
  BY <1>5
<1>7. \A n \in D : f[n] = Body(f, n)
  BY <1>1, <1>6
<1>8. f = [n \in D |-> Body(f, n)]
  BY <1>6, <1>7
<1> QED
  BY <1>8 DEF D, Body, FirstBy

\* The first key under a node is a key, or the empty key.
LEMMA FirstKeys ==
  ASSUME NEW h, NEW R, NEW lvl, NEW top \in Nat, Forest(h, R, lvl, top), NEW id \in LiveIds(h)
  PROVE  FirstKey(h, id) \in Nat
<1> DEFINE Body(f) == [n \in Ids(h) |->
             IF ~Live(h, n) THEN EmptyKey
             ELSE IF ~h.nodes[n].leaf THEN f[ChildAt(h.nodes[n], 0)]
             ELSE IF h.nodes[n].keys = << >> THEN EmptyKey ELSE Head(h.nodes[n].keys)]
           It == CHOOSE f : f = Body(f)
           L == LiveIds(h)
<1>1. FirstKey(h, id) = It[id]
  BY DEF FirstKey
<1>2. \A f : Body(f) = [n \in Ids(h) |-> FirstBody(h, f, n)]
  BY DEF FirstBody
<1> HIDE DEF Body
<1>3. \E f : f = Body(f)
  <2>1. PICK f : FirstBy(f, h)
    BY FirstExists
  <2>2. f = Body(f)
    BY <1>2, <2>1 DEF FirstBy
  <2> QED
    BY <2>2
<1>4. It = Body(It)
  BY <1>3
<1> HIDE DEF It
<1>5. \A n \in Ids(h) : It[n] = FirstBody(h, It, n)
  BY <1>2, <1>4
<1>6. L \subseteq Ids(h) /\ \A n \in L : Live(h, n)
  BY Ranks
<1>7. \A n \in L : lvl[n] \in Nat
  BY ForestNodes
<1> DEFINE S == {m \in Nat : \A n \in L : lvl[n] < m => It[n] \in Nat}
<1>8. 0 \in S
  BY <1>7
<1>9. ASSUME NEW m \in Nat, m \in S PROVE m + 1 \in S
  <2> SUFFICES ASSUME NEW n \in L, lvl[n] < m + 1 PROVE It[n] \in Nat
    OBVIOUS
  <2>1. It[n] = FirstBody(h, It, n) /\ Live(h, n)
    BY <1>5, <1>6
  <2>2. CASE h.nodes[n].leaf
    <3> DEFINE ks == h.nodes[n].keys
               N == Len(ks)
    <3>1. N \in Nat /\ ks \in Vectors(Nat, N)
      BY <2>2, ForestNodes, LeafParts
    <3>2. It[n] = IF ks = << >> THEN EmptyKey ELSE Head(ks)
      BY <2>1, <2>2 DEF FirstBody
    <3>3. EmptyKey \in Nat
      BY DEF EmptyKey
    <3>4. ks # << >> => N # 0
      BY <3>1, EmptySeq DEF Vectors
    <3> HIDE DEF ks, N
    <3>5. ks # << >> => Head(ks) \in Nat
      BY <3>1, <3>4, EndsOfVector
    <3> QED
      BY <3>2, <3>3, <3>5
  <2>3. CASE ~h.nodes[n].leaf
    <3> DEFINE c == ChildAt(h.nodes[n], 0)
    <3>1. 0 \in 0..Len(h.nodes[n].keys)
      <4>1. Len(h.nodes[n].keys) \in Nat
        BY <2>3, ForestNodes, InnerParts
      <4> QED
        BY <4>1
    <3>2. It[n] = It[c]
      BY <2>1, <2>3 DEF FirstBody
    <3>3. c \in KidsOf(h.nodes[n])
      BY <2>3, <3>1, WayDown
    <3> HIDE DEF c
    <3>4. c \in L /\ lvl[n] = lvl[c] + 1 /\ lvl[c] \in Nat
      BY <3>3, ForestNodes
    <3>5. lvl[c] < m
      BY <1>7, <3>4
    <3>6. It[c] \in Nat
      BY <1>9, <3>4, <3>5
    <3> QED
      BY <3>2, <3>6
  <2> QED
    BY <2>2, <2>3
<1>10. lvl[id] + 1 \in S
  <2>1. lvl[id] + 1 \in Nat
    BY <1>7
  <2> HIDE DEF S
  <2>2. Nat \subseteq S
    BY <1>8, <1>9, SetInduction
  <2> QED
    BY <2>1, <2>2
<1> QED
  BY <1>1, <1>7, <1>10

-----------------------------------------------------------------------------
(* Separators.                                                             *)

\* g is h but for the separators of node id, of children cs.
Tweaked(h, g, R, lvl, top, id, cs) ==
  /\ Forest(g, R, lvl, top)
  /\ LiveIds(g) = LiveIds(h)
  /\ \A n \in LiveIds(h) \ {id} : g.nodes[n] = h.nodes[n]
  /\ ~g.nodes[id].leaf /\ g.nodes[id].children = cs

\* SetSeparator changes a separator of the node and nothing else.
LEMMA SeparatorSet ==
  ASSUME NEW h, NEW g, NEW R, NEW lvl, NEW top, NEW id \in LiveIds(h), NEW cs,
         Tweaked(h, g, R, lvl, top, id, cs), NEW i \in 0..(Len(cs) - 1), NEW first \in Nat
  PROVE  Tweaked(h, SetSeparator(g, id, i, first), R, lvl, top, id, cs)
<1>1. /\ Forest(g, R, lvl, top) /\ g \in GoodHeaps
      /\ LiveIds(g) = LiveIds(h) /\ id \in LiveIds(g)
      /\ \A n \in LiveIds(h) \ {id} : g.nodes[n] = h.nodes[n]
      /\ ~g.nodes[id].leaf /\ g.nodes[id].children = cs
  BY DEF Tweaked, Forest
<1>2. CASE i > 0 /\ first # EmptyKey
  <2> DEFINE x == g.nodes[id]
             y == [x EXCEPT !.keys[i] = first]
             f == SetNode(g, id, y)
  <2>1. SetSeparator(g, id, i, first) = f
    BY <1>2 DEF SetSeparator, SetNode
  <2>2. x \in InnerNodes
    BY <1>1, ForestNodes
  <2>3. i \in 1..Len(x.keys)
    <3>1. Len(x.keys) \in Nat /\ Len(cs) = Len(x.keys) + 1
      BY <1>1, <2>2, InnerParts
    <3> HIDE DEF x
    <3> QED
      BY <1>2, <3>1
  <2>4. y \in InnerNodes /\ KidsOf(y) = KidsOf(x) /\ y.children = cs
    BY <1>1, <2>2, <2>3, SeparatorChanges
  <2> HIDE DEF y
  <2>5. y \in TreeNodes /\ ~y.leaf
    BY <2>4, InnerParts DEF TreeNodes
  <2>6. /\ LiveIds(f) = LiveIds(g) /\ f.nodes[id] = y
        /\ \A n \in LiveIds(g) \ {id} : f.nodes[n] = g.nodes[n]
    BY <1>1, <2>5, NodeSet
  <2>7. Forest(f, R, lvl, top)
    BY <1>1, <2>4, <2>5, ForestSet
  <2> HIDE DEF f
  <2>8. Tweaked(h, f, R, lvl, top, id, cs)
    BY <1>1, <2>4, <2>5, <2>6, <2>7 DEF Tweaked
  <2> QED
    BY <2>1, <2>8
<1>3. CASE ~(i > 0 /\ first # EmptyKey)
  BY <1>3 DEF SetSeparator
<1> QED
  BY <1>2, <1>3

\* A separator recomputed from the subtree on its right.
LEMMA SeparatorRenewed ==
  ASSUME NEW h, NEW g, NEW R, NEW lvl, NEW top \in Nat, NEW id \in LiveIds(h), NEW cs,
         Tweaked(h, g, R, lvl, top, id, cs), NEW i \in 1..(Len(cs) - 1)
  PROVE  Tweaked(h, SetSeparator(g, id, i, FirstKey(g, ChildAt(g.nodes[id], i))), R, lvl, top, id, cs)
<1>1. /\ Forest(g, R, lvl, top) /\ id \in LiveIds(g)
      /\ ~g.nodes[id].leaf /\ g.nodes[id].children = cs
  BY DEF Tweaked
<1> DEFINE x == g.nodes[id]
           c == ChildAt(x, i)
           first == FirstKey(g, c)
<1>2. Len(x.keys) \in Nat /\ Len(cs) = Len(x.keys) + 1
  BY <1>1, ForestNodes, InnerParts
<1>3. i \in 0..Len(x.keys) /\ i \in 0..(Len(cs) - 1)
  <2> HIDE DEF x
  <2> QED
    BY <1>2
<1>4. c \in LiveIds(g)
  BY <1>1, <1>3, WayDown
<1> HIDE DEF c
<1>5. first \in Nat
  BY <1>1, <1>4, FirstKeys
<1> HIDE DEF first
<1>6. Tweaked(h, SetSeparator(g, id, i, first), R, lvl, top, id, cs)
  BY <1>3, <1>5, SeparatorSet
<1> QED
  BY <1>6 DEF first, c

\* One step of Refreshed.
Renewed(g, id, i) == SetSeparator(g, id, i, FirstKey(g, ChildAt(g.nodes[id], i)))

RenewStep(T, id, n) ==
  [p \in T \X (Nat \ {0}) |-> IF p[2] \in 1..n THEN Renewed(p[1], id, p[2]) ELSE p[1]]

\* Refreshed changes separators of the node and nothing else.
LEMMA RefreshTweaks ==
  ASSUME NEW h, NEW R, NEW lvl, NEW top \in Nat, NEW id \in LiveIds(h), NEW cs,
         Tweaked(h, h, R, lvl, top, id, cs)
  PROVE  Tweaked(h, Refreshed(h, id), R, lvl, top, id, cs)
<1> DEFINE T == {g \in GoodHeaps : Tweaked(h, g, R, lvl, top, id, cs)}
           n == Len(cs) - 1
           step == RenewStep(T, id, n)
           s == [i \in 1..n |-> i]
           Body(iter) == [u \in SUBSET (DOMAIN s) |->
                            IF u = {} THEN h
                            ELSE SetSeparator(iter[u \ {Max(u)}], id, s[Max(u)],
                                   FirstKey(iter[u \ {Max(u)}], ChildAt(iter[u \ {Max(u)}].nodes[id], s[Max(u)])))]
           It == CHOOSE iter : iter = Body(iter)
<1>1. h.nodes[id].children = cs /\ ~h.nodes[id].leaf /\ Forest(h, R, lvl, top) /\ h \in GoodHeaps
  BY DEF Tweaked, Forest
<1>2. n \in Nat
  <2> DEFINE x == h.nodes[id]
  <2>1. Len(x.keys) \in Nat /\ Len(cs) = Len(x.keys) + 1
    BY <1>1, ForestNodes, InnerParts
  <2> HIDE DEF x
  <2> QED
    BY <2>1
<1>3. Refreshed(h, id) = It[DOMAIN s]
  BY <1>1 DEF Refreshed, FoldLeft, MapThenFoldSet
<1> HIDE DEF n
<1>4. DOMAIN s = 1..n /\ \A i \in 1..n : s[i] = i
  OBVIOUS
<1>5. h \in T
  BY <1>1
<1>6. ASSUME NEW g \in T, NEW i \in 1..n PROVE Renewed(g, id, i) \in T
  <2>1. Tweaked(h, g, R, lvl, top, id, cs)
    OBVIOUS
  <2>2. Tweaked(h, Renewed(g, id, i), R, lvl, top, id, cs)
    BY <2>1, SeparatorRenewed DEF Renewed, n
  <2>3. Renewed(g, id, i) \in GoodHeaps
    BY <2>2 DEF Tweaked, Forest
  <2> QED
    BY <2>2, <2>3
<1> HIDE DEF T
<1>7. step \in [T \X (Nat \ {0}) -> T]
  <2>1. ASSUME NEW p \in T \X (Nat \ {0})
        PROVE  (IF p[2] \in 1..n THEN Renewed(p[1], id, p[2]) ELSE p[1]) \in T
    <3>1. p[1] \in T
      OBVIOUS
    <3> QED
      BY <1>6, <3>1
  <2> QED
    BY <2>1, Zenon DEF RenewStep
<1>8. ASSUME NEW g \in T, NEW i \in 1..n PROVE step[<<g, i>>] = Renewed(g, id, i)
  <2>1. <<g, i>> \in T \X (Nat \ {0})
    BY <1>2
  <2> QED
    BY <2>1 DEF RenewStep
<1> HIDE DEF step
<1>9. ASSUME NEW u \in SUBSET (1..n), u # {}, NEW f, f[u \ {Max(u)}] \in T
      PROVE  step[<<f[u \ {Max(u)}], Max(u)>>] = Body(f)[u]
  <2>1. Max(u) \in 1..n
    BY <1>2, <1>9, MaxOfPositions
  <2> DEFINE g == f[u \ {Max(u)}]
             i == Max(u)
  <2>2. Body(f)[u] = Renewed(g, id, i)
    BY <1>4, <1>9, <2>1 DEF Renewed
  <2> HIDE DEF g, i, Body
  <2>3. g \in T /\ i \in 1..n
    BY <1>9, <2>1 DEF g, i
  <2>4. step[<<g, i>>] = Body(f)[u]
    BY <1>8, <2>2, <2>3
  <2> QED
    BY <2>4 DEF g, i
<1> HIDE DEF s
<1>10. ASSUME NEW f, f = Body(f) PROVE FoldsFrom(T, f, h, step, n)
  <2>1. ASSUME NEW u \in SUBSET (1..n), u # {}, f[u \ {Max(u)}] \in T
        PROVE  f[u] = step[<<f[u \ {Max(u)}], Max(u)>>]
    <3>1. f[u] = Body(f)[u]
      BY <1>10
    <3> HIDE DEF Body
    <3> QED
      BY <1>9, <2>1, <3>1
  <2>2. f[{}] = h
    BY <1>4, <1>10
  <2> HIDE DEF Body
  <2> QED
    BY <2>1, <2>2 DEF FoldsFrom
<1>11. PICK it \in [SUBSET (1..n) -> T] : Folds(it, h, step, n)
  BY <1>2, <1>5, <1>7, FoldsExist
<1>12. it = Body(it)
  <2>1. ASSUME NEW u \in SUBSET (1..n) PROVE it[u] = Body(it)[u]
    <3>1. CASE u = {}
      <4>1. it[u] = h
        BY <1>11, <3>1 DEF Folds
      <4> QED
        BY <1>4, <3>1, <4>1
    <3>2. CASE u # {}
      <4>1. it[u \ {Max(u)}] \in T
        OBVIOUS
      <4>2. it[u] = step[<<it[u \ {Max(u)}], Max(u)>>]
        BY <1>11, <3>2 DEF Folds
      <4> HIDE DEF Body
      <4> QED
        BY <1>9, <3>2, <4>1, <4>2
    <3> QED
      BY <3>1, <3>2
  <2>2. Body(it) = [u \in SUBSET (1..n) |-> Body(it)[u]]
    BY <1>4
  <2> HIDE DEF Body
  <2> QED
    BY <2>1, <2>2
<1> HIDE DEF Body
<1>13. It = Body(It)
  BY <1>12
<1> HIDE DEF It
<1>14. FoldsFrom(T, It, h, step, n)
  BY <1>10, <1>13
<1>15. It[1..n] \in T
  BY <1>2, <1>5, <1>7, <1>14, FoldStays
<1> QED
  BY <1>3, <1>4, <1>15 DEF T

-----------------------------------------------------------------------------
(* Delete.                                                                 *)

\* What the work under node id leaves alone: the nodes on its level and above.
Kept(h, g, lvl, id) ==
  \A n \in LiveIds(h) : lvl[n] >= lvl[id] =>
    n \in LiveIds(g) /\ (n # id => g.nodes[n] = h.nodes[n])

Reworked(h, g, R, lvl, top, id) == Forest(g, R, lvl, top) /\ Kept(h, g, lvl, id)

\* What two steps leave alone, one below the other.
LEMMA KeptTwice ==
  ASSUME NEW f, NEW g, NEW h, NEW lvl, NEW c, NEW id, Kept(f, g, lvl, c), Kept(g, h, lvl, id),
         \A n \in LiveIds(f) : lvl[n] \in Nat, lvl[c] \in Nat, lvl[id] \in Nat, lvl[id] >= lvl[c],
         c = id \/ lvl[id] > lvl[c]
  PROVE  Kept(f, h, lvl, id)
<1> SUFFICES ASSUME NEW n \in LiveIds(f), lvl[n] >= lvl[id]
             PROVE  n \in LiveIds(h) /\ (n # id => h.nodes[n] = f.nodes[n])
  BY DEF Kept
<1>1. lvl[n] >= lvl[c] /\ (lvl[id] > lvl[c] => lvl[n] > lvl[c])
  OBVIOUS
<1>2. n # id => n # c
  BY <1>1
<1>3. n \in LiveIds(g) /\ (n # c => g.nodes[n] = f.nodes[n])
  BY <1>1 DEF Kept
<1>4. n \in LiveIds(h) /\ (n # id => h.nodes[n] = g.nodes[n])
  BY <1>3 DEF Kept
<1> QED
  BY <1>2, <1>3, <1>4

\* Two children of a node.
LEMMA Siblings ==
  ASSUME NEW h, NEW R, NEW lvl, NEW top, Forest(h, R, lvl, top), NEW id \in LiveIds(h),
         NEW a \in KidsOf(h.nodes[id]), NEW b \in KidsOf(h.nodes[id]), a # b
  PROVE  /\ a \in LiveIds(h) /\ b \in LiveIds(h) /\ a # id /\ b # id
         /\ a \in Nat /\ b \in Nat
         /\ lvl[a] \in Nat /\ lvl[a] = lvl[b] /\ lvl[id] = lvl[a] + 1
         /\ KidsOf(h.nodes[a]) \cap KidsOf(h.nodes[b]) = {}
         /\ h.nodes[a] \in TreeNodes /\ h.nodes[b] \in TreeNodes
         /\ h.nodes[a].leaf = h.nodes[b].leaf
<1>1. h \in GoodHeaps /\ lvl \in [Nat -> Nat] /\ Shape(LiveIds(h), KidMap(h), lvl, R, top)
  BY DEF Forest
<1>2. /\ a \in LiveIds(h) /\ a # id /\ lvl[id] = lvl[a] + 1
      /\ b \in LiveIds(h) /\ b # id /\ lvl[id] = lvl[b] + 1
  BY ForestNodes
<1>3. a \in Nat /\ b \in Nat /\ h.nodes[a] \in TreeNodes /\ h.nodes[b] \in TreeNodes
  BY <1>1, <1>2, HeapParts
<1>4. lvl[a] \in Nat /\ lvl[b] \in Nat
  BY <1>1, <1>3
<1>5. lvl[a] = lvl[b]
  BY <1>2, <1>4
<1>6. KidsOf(h.nodes[a]) \cap KidsOf(h.nodes[b]) = {}
  <2>1. \A c \in KidMap(h)[a] : c \in KidMap(h)[b] => a = b
    BY <1>1, <1>2 DEF Shape
  <2>2. KidMap(h)[a] = KidsOf(h.nodes[a]) /\ KidMap(h)[b] = KidsOf(h.nodes[b])
    BY <1>2 DEF KidMap
  <2> QED
    BY <2>1, <2>2
<1>7. h.nodes[a].leaf = h.nodes[b].leaf
  <2>1. h.nodes[a].leaf \in BOOLEAN
        /\ (h.nodes[a].leaf => lvl[a] = 0) /\ (~h.nodes[a].leaf => lvl[a] > 0)
    BY <1>2, ForestNodes
  <2>2. h.nodes[b].leaf \in BOOLEAN
        /\ (h.nodes[b].leaf => lvl[b] = 0) /\ (~h.nodes[b].leaf => lvl[b] > 0)
    BY <1>2, ForestNodes
  <2>3. CASE lvl[a] = 0
    <3>1. h.nodes[a].leaf = TRUE
      BY <2>1, <2>3
    <3>2. h.nodes[b].leaf = TRUE
      BY <1>5, <2>2, <2>3
    <3> QED
      BY <3>1, <3>2
  <2>4. CASE lvl[a] # 0
    <3>1. h.nodes[a].leaf = FALSE
      BY <2>1, <2>4
    <3>2. h.nodes[b].leaf = FALSE
      BY <1>5, <2>2, <2>4
    <3> QED
      BY <3>1, <3>2
  <2> QED
    BY <2>3, <2>4
<1> QED
  BY <1>2, <1>3, <1>4, <1>5, <1>6, <1>7

\* Two children of node id become x and y, and it becomes z.
Borrowed(h, id, a, b, x, y, z) ==
  /\ x \in TreeNodes /\ y \in TreeNodes /\ z \in TreeNodes
  /\ KidsOf(x) \cup KidsOf(y) = KidsOf(h.nodes[a]) \cup KidsOf(h.nodes[b])
  /\ KidsOf(x) \cap KidsOf(y) = {}
  /\ KidsOf(x) = {} \/ KidsOf(y) = {} => h.nodes[a].leaf
  /\ KidsOf(z) = KidsOf(h.nodes[id])

\* The heap after two children have shared their children anew.
LEMMA BorrowedNodes ==
  ASSUME NEW h, NEW R, NEW lvl, NEW top, Forest(h, R, lvl, top), NEW id \in LiveIds(h),
         NEW a \in KidsOf(h.nodes[id]), NEW b \in KidsOf(h.nodes[id]), a # b,
         NEW x, NEW y, NEW z, Borrowed(h, id, a, b, x, y, z)
  PROVE  LET g == SetNode(SetNode(SetNode(h, a, x), b, y), id, z) IN
           Reworked(h, g, R, lvl, top, id) /\ g.nodes[id] = z /\ LiveIds(g) = LiveIds(h)
<1> DEFINE L == LiveIds(h)
           h1 == SetNode(h, a, x)
           h2 == SetNode(h1, b, y)
           g == SetNode(h2, id, z)
           K == KidMap(h)
           K2 == KidMap(g)
<1>1. h \in GoodHeaps /\ lvl \in [Nat -> Nat] /\ Shape(L, K, lvl, R, top)
  BY DEF Forest
<1>2. /\ a \in L /\ b \in L /\ a # id /\ b # id
      /\ lvl[a] \in Nat /\ lvl[a] = lvl[b] /\ lvl[id] = lvl[a] + 1
  BY Siblings
<1>3. x \in TreeNodes /\ y \in TreeNodes /\ z \in TreeNodes
  BY DEF Borrowed
<1>4. h1 \in GoodHeaps /\ LiveIds(h1) = L /\ h1.nodes[a] = x /\ \A n \in L \ {a} : h1.nodes[n] = h.nodes[n]
  BY <1>1, <1>2, <1>3, NodeSet
<1> HIDE DEF h1
<1>5. h2 \in GoodHeaps /\ LiveIds(h2) = L /\ h2.nodes[b] = y /\ \A n \in L \ {b} : h2.nodes[n] = h1.nodes[n]
  BY <1>2, <1>3, <1>4, NodeSet
<1> HIDE DEF h2
<1>6. g \in GoodHeaps /\ LiveIds(g) = L /\ g.nodes[id] = z /\ \A n \in L \ {id} : g.nodes[n] = h2.nodes[n]
  BY <1>2, <1>3, <1>5, NodeSet
<1> HIDE DEF g
<1>7. /\ g.nodes[a] = x /\ g.nodes[b] = y /\ g.nodes[id] = z
      /\ \A n \in L \ {a, b, id} : g.nodes[n] = h.nodes[n]
  BY <1>2, <1>4, <1>5, <1>6
<1>8. h.nodes[a].leaf => lvl[a] = 0
  BY <1>2, ForestNodes
<1>9. /\ \A n \in L : K[n] = KidsOf(h.nodes[n])
      /\ \A n \in L : K2[n] = KidsOf(g.nodes[n])
  BY <1>6 DEF KidMap
<1> HIDE DEF K, K2
<1>10. Shared(L, K, lvl, a, b, K2)
  <2>1. K2[a] \cup K2[b] = K[a] \cup K[b] /\ K2[a] \cap K2[b] = {}
    BY <1>2, <1>7, <1>9 DEF Borrowed
  <2>2. K2[a] = {} \/ K2[b] = {} => lvl[a] = 0
    BY <1>2, <1>7, <1>8, <1>9 DEF Borrowed
  <2>3. K2[id] = K[id]
    BY <1>7, <1>9 DEF Borrowed
  <2>4. \A n \in L \ {a, b} : K2[n] = K[n]
    BY <1>7, <1>9, <2>3
  <2> QED
    BY <1>2, <2>1, <2>2, <2>4 DEF Shared
<1>11. Shape(L, K2, lvl, R, top)
  BY <1>1, <1>10, Shares
<1>12. Forest(g, R, lvl, top)
  BY <1>1, <1>6, <1>11 DEF Forest, K2
<1>13. Kept(h, g, lvl, id)
  <2> SUFFICES ASSUME NEW n \in L, lvl[n] >= lvl[id], n # id PROVE g.nodes[n] = h.nodes[n]
    BY <1>6 DEF Kept
  <2>1. n # a /\ n # b
    BY <1>2
  <2> QED
    BY <1>7, <2>1
<1> QED
  BY <1>6, <1>12, <1>13 DEF Reworked, g, h1, h2

\* A child of node id takes over the children of the next and becomes x, the
\* next is freed, and node id becomes z.
Consolidated(h, id, a, b, x, z) ==
  /\ x \in TreeNodes /\ z \in TreeNodes
  /\ KidsOf(x) = KidsOf(h.nodes[a]) \cup KidsOf(h.nodes[b])
  /\ KidsOf(z) = KidsOf(h.nodes[id]) \ {b}

\* The heap after a child has taken over its sibling.
LEMMA MergedNodes ==
  ASSUME NEW h, NEW R, NEW lvl, NEW top, Forest(h, R, lvl, top), NEW id \in LiveIds(h),
         NEW a \in KidsOf(h.nodes[id]), NEW b \in KidsOf(h.nodes[id]), a # b,
         NEW x, NEW z, Consolidated(h, id, a, b, x, z)
  PROVE  Reworked(h, Freed(SetNode(SetNode(h, a, x), id, z), b), R, lvl, top, id)
<1> DEFINE L == LiveIds(h)
           h1 == SetNode(h, a, x)
           h2 == SetNode(h1, id, z)
           g == Freed(h2, b)
           K == KidMap(h)
           K2 == KidMap(g)
           M == L \ {b}
<1>1. h \in GoodHeaps /\ lvl \in [Nat -> Nat] /\ Shape(L, K, lvl, R, top)
  BY DEF Forest
<1>2. /\ a \in L /\ b \in L /\ a # id /\ b # id
      /\ lvl[a] \in Nat /\ lvl[a] = lvl[b] /\ lvl[id] = lvl[a] + 1
  BY Siblings
<1>3. x \in TreeNodes /\ z \in TreeNodes
  BY DEF Consolidated
<1>4. h1 \in GoodHeaps /\ LiveIds(h1) = L /\ h1.nodes[a] = x /\ \A n \in L \ {a} : h1.nodes[n] = h.nodes[n]
  BY <1>1, <1>2, <1>3, NodeSet
<1> HIDE DEF h1
<1>5. h2 \in GoodHeaps /\ LiveIds(h2) = L /\ h2.nodes[id] = z /\ \A n \in L \ {id} : h2.nodes[n] = h1.nodes[n]
  BY <1>2, <1>3, <1>4, NodeSet
<1> HIDE DEF h2
<1>6. g \in GoodHeaps /\ LiveIds(g) = M /\ \A n \in M : g.nodes[n] = h2.nodes[n]
  BY <1>2, <1>5, NodeFreed
<1> HIDE DEF g
<1>7. /\ g.nodes[a] = x /\ g.nodes[id] = z
      /\ \A n \in L \ {a, b, id} : g.nodes[n] = h.nodes[n]
  BY <1>2, <1>4, <1>5, <1>6
<1>8. /\ \A n \in L : K[n] = KidsOf(h.nodes[n])
      /\ \A n \in M : K2[n] = KidsOf(g.nodes[n])
  BY <1>6 DEF KidMap
<1> HIDE DEF K, K2
<1>9. Merged(L, K, id, a, b, K2)
  <2>1. a \in K[id] /\ b \in K[id]
    BY <1>8
  <2>2. K2[a] = K[a] \cup K[b]
    BY <1>2, <1>7, <1>8 DEF Consolidated
  <2>3. K2[id] = K[id] \ {b}
    BY <1>2, <1>7, <1>8 DEF Consolidated
  <2>4. \A n \in L \ {id, a, b} : K2[n] = K[n]
    BY <1>7, <1>8
  <2> QED
    BY <2>1, <2>2, <2>3, <2>4 DEF Merged
<1>10. Shape(M, K2, lvl, R, top)
  BY <1>1, <1>9, Merges
<1>11. Forest(g, R, lvl, top)
  BY <1>1, <1>6, <1>10 DEF Forest, K2
<1>12. Kept(h, g, lvl, id)
  <2> SUFFICES ASSUME NEW n \in L, lvl[n] >= lvl[id]
               PROVE  n \in LiveIds(g) /\ (n # id => g.nodes[n] = h.nodes[n])
    BY DEF Kept
  <2>1. n # a /\ n # b
    BY <1>2
  <2> QED
    BY <1>6, <1>7, <2>1
<1> QED
  BY <1>11, <1>12 DEF Reworked, g, h1, h2

\* The two leaves and the two internal nodes after an entry has moved.
Spared(l, r, x, y) ==
  /\ x \in TreeNodes /\ y \in TreeNodes
  /\ KidsOf(x) \cup KidsOf(y) = KidsOf(l) \cup KidsOf(r)
  /\ KidsOf(x) \cap KidsOf(y) = {}
  /\ KidsOf(x) = {} \/ KidsOf(y) = {} => l.leaf

\* The last entry of a leaf moves to the next.
LEMMA LeafSparesLast ==
  ASSUME NEW l \in LeafNodes, NEW r \in LeafNodes, Len(l.keys) > 0
  PROVE  Spared(l, r, Leaf(Front(l.keys), Front(l.vals), l.next),
                      Leaf(Cons(Last(l.keys), r.keys), Cons(Last(l.vals), r.vals), r.next))
<1> DEFINE m == Len(l.keys)
           n == Len(r.keys)
           lk == l.keys
           lv == l.vals
           ln == l.next
           rk == r.keys
           rv == r.vals
           rn == r.next
           m1 == m - 1
           n1 == n + 1
           xk == Front(lk)
           xv == Front(lv)
           yk == Cons(Last(lk), rk)
           yv == Cons(Last(lv), rv)
<1>1. /\ m \in Nat /\ lk \in Vectors(Nat, m) /\ lv \in Vectors(Value, m) /\ ln \in Nat
      /\ n \in Nat /\ rk \in Vectors(Nat, n) /\ rv \in Vectors(Value, n) /\ rn \in Nat
      /\ KidsOf(l) = {} /\ KidsOf(r) = {}
  BY LeafParts
<1>2. m > 0
  OBVIOUS
<1>0. l.leaf
  BY LeafParts
<1> HIDE DEF m, n, lk, lv, ln, rk, rv, rn
<1>3. m \in Nat \ {0} /\ m1 \in Nat /\ n1 \in Nat
  BY <1>1, <1>2
<1>4. xk \in Vectors(Nat, m1) /\ xv \in Vectors(Value, m1) /\ Last(lk) \in Nat /\ Last(lv) \in Value
  BY <1>1, <1>3, EndsOfVector
<1>5. yk \in Vectors(Nat, n1) /\ yv \in Vectors(Value, n1)
  BY <1>1, <1>4, EditVector
<1> HIDE DEF m1, n1, xk, xv, yk, yv
<1>6. Leaf(xk, xv, ln) \in LeafNodes /\ KidsOf(Leaf(xk, xv, ln)) = {}
  BY <1>1, <1>3, <1>4, LeafMade
<1>7. Leaf(yk, yv, rn) \in LeafNodes /\ KidsOf(Leaf(yk, yv, rn)) = {}
  BY <1>1, <1>3, <1>5, LeafMade
<1> DEFINE x == Leaf(xk, xv, ln)
           y == Leaf(yk, yv, rn)
<1> HIDE DEF x, y
<1>8. Spared(l, r, x, y)
  <2>1. x \in LeafNodes /\ KidsOf(x) = {} /\ y \in LeafNodes /\ KidsOf(y) = {}
    BY <1>6, <1>7 DEF x, y
  <2>2. x \in TreeNodes /\ y \in TreeNodes
    BY <2>1 DEF TreeNodes
  <2> QED
    BY <1>0, <1>1, <2>1, <2>2 DEF Spared
<1> QED
  BY <1>8 DEF x, y, xk, xv, yk, yv, lk, lv, ln, rk, rv, rn

\* The first entry of a leaf moves to the one before.
LEMMA LeafSparesFirst ==
  ASSUME NEW l \in LeafNodes, NEW r \in LeafNodes, Len(r.keys) > 0
  PROVE  Spared(l, r, Leaf(Append(l.keys, Head(r.keys)), Append(l.vals, Head(r.vals)), l.next),
                      Leaf(Tail(r.keys), Tail(r.vals), r.next))
<1> DEFINE m == Len(l.keys)
           n == Len(r.keys)
           lk == l.keys
           lv == l.vals
           ln == l.next
           rk == r.keys
           rv == r.vals
           rn == r.next
           m1 == m + 1
           n1 == n - 1
           xk == Append(lk, Head(rk))
           xv == Append(lv, Head(rv))
           yk == Tail(rk)
           yv == Tail(rv)
<1>1. /\ m \in Nat /\ lk \in Vectors(Nat, m) /\ lv \in Vectors(Value, m) /\ ln \in Nat
      /\ n \in Nat /\ rk \in Vectors(Nat, n) /\ rv \in Vectors(Value, n) /\ rn \in Nat
      /\ KidsOf(l) = {} /\ KidsOf(r) = {}
  BY LeafParts
<1>2. n > 0
  OBVIOUS
<1>0. l.leaf
  BY LeafParts
<1> HIDE DEF m, n, lk, lv, ln, rk, rv, rn
<1>3. n \in Nat \ {0} /\ m1 \in Nat /\ n1 \in Nat
  BY <1>1, <1>2
<1>4. yk \in Vectors(Nat, n1) /\ yv \in Vectors(Value, n1) /\ Head(rk) \in Nat /\ Head(rv) \in Value
  BY <1>1, <1>3, EndsOfVector
<1>5. xk \in Vectors(Nat, m1) /\ xv \in Vectors(Value, m1)
  BY <1>1, <1>4, EditVector
<1> HIDE DEF m1, n1, xk, xv, yk, yv
<1>6. Leaf(xk, xv, ln) \in LeafNodes /\ KidsOf(Leaf(xk, xv, ln)) = {}
  BY <1>1, <1>3, <1>5, LeafMade
<1>7. Leaf(yk, yv, rn) \in LeafNodes /\ KidsOf(Leaf(yk, yv, rn)) = {}
  BY <1>1, <1>3, <1>4, LeafMade
<1> DEFINE x == Leaf(xk, xv, ln)
           y == Leaf(yk, yv, rn)
<1> HIDE DEF x, y
<1>8. Spared(l, r, x, y)
  <2>1. x \in LeafNodes /\ KidsOf(x) = {} /\ y \in LeafNodes /\ KidsOf(y) = {}
    BY <1>6, <1>7 DEF x, y
  <2>2. x \in TreeNodes /\ y \in TreeNodes
    BY <2>1 DEF TreeNodes
  <2> QED
    BY <1>0, <1>1, <2>1, <2>2 DEF Spared
<1> QED
  BY <1>8 DEF x, y, xk, xv, yk, yv, lk, lv, ln, rk, rv, rn

\* The last child of an internal node moves to the next.
LEMMA InnerSparesLast ==
  ASSUME NEW l \in InnerNodes, NEW r \in InnerNodes, Len(l.keys) > 0,
         KidsOf(l) \cap KidsOf(r) = {}, NEW separator \in Nat
  PROVE  /\ Spared(l, r, Internal(Front(l.keys), Front(l.children)),
                         Internal(Cons(separator, r.keys), Cons(Last(l.children), r.children)))
         /\ Last(l.keys) \in Nat
<1> DEFINE m == Len(l.keys)
           n == Len(r.keys)
           lk == l.keys
           lc == l.children
           rk == r.keys
           rc == r.children
           A == KidsOf(l)
           B == KidsOf(r)
           e == Last(lc)
           m1 == m - 1
           n1 == n + 1
           xk == Front(lk)
           xc == Front(lc)
           yk == Cons(separator, rk)
           yc == Cons(e, rc)
<1>1. /\ m \in Nat /\ lk \in Vectors(Nat, m) /\ lc \in Lists(Nat, m + 1, A)
      /\ n \in Nat /\ rk \in Vectors(Nat, n) /\ rc \in Lists(Nat, n + 1, B)
  BY InnerParts
<1>2. m > 0 /\ A \cap B = {}
  OBVIOUS
<1> HIDE DEF m, n, lk, lc, rk, rc, A, B
<1>3. m \in Nat \ {0} /\ m1 \in Nat /\ n1 \in Nat /\ m + 1 \in Nat \ {0} /\ m + 1 - 1 = m /\ m = m1 + 1
  BY <1>1, <1>2
<1>4. xk \in Vectors(Nat, m1) /\ Last(lk) \in Nat
  BY <1>1, <1>3, EndsOfVector
<1>5. e \in A /\ xc \in Lists(Nat, m, A \ {e})
  <2> DEFINE p == m + 1
  <2>1. p \in Nat \ {0} /\ p - 1 = m /\ lc \in Lists(Nat, p, A)
    BY <1>1, <1>3
  <2> HIDE DEF p
  <2> QED
    BY <2>1, EndsOfList
<1>6. e \in Nat /\ e \notin B
  <2> DEFINE p == m + 1
  <2>1. p \in Nat /\ lc \in Lists(Nat, p, A)
    BY <1>1, <1>3
  <2> HIDE DEF p, e
  <2>2. A \subseteq Nat
    BY <2>1, ListElements
  <2> QED
    BY <1>2, <1>5, <2>2
<1>7. yk \in Vectors(Nat, n1)
  BY <1>1, EditVector
<1> HIDE DEF e
<1>8. yc \in Lists(Nat, n1 + 1, B \cup {e})
  <2>1. n1 \in Nat /\ rc \in Lists(Nat, n1, B)
    BY <1>1, <1>3
  <2> HIDE DEF n1
  <2> QED
    BY <1>6, <2>1, WiderList
<1>9. Paired(m1, A \ {e}, xk, xc) /\ Paired(n1, B \cup {e}, yk, yc)
  BY <1>3, <1>4, <1>5, <1>7, <1>8 DEF Paired
<1> HIDE DEF m1, n1, xk, xc, yk, yc
<1> DEFINE x == Internal(xk, xc)
           y == Internal(yk, yc)
<1>10. x \in InnerNodes /\ KidsOf(x) = A \ {e} /\ y \in InnerNodes /\ KidsOf(y) = B \cup {e}
  BY <1>9, InnerMade
<1> HIDE DEF x, y
<1>11. Spared(l, r, x, y)
  <2>1. x \in TreeNodes /\ y \in TreeNodes /\ KidsOf(x) # {} /\ KidsOf(y) # {}
    BY <1>10, InnerParts DEF TreeNodes
  <2>2. KidsOf(x) \cup KidsOf(y) = A \cup B /\ KidsOf(x) \cap KidsOf(y) = {}
    BY <1>2, <1>5, <1>10
  <2> QED
    BY <2>1, <2>2 DEF Spared, A, B
<1> QED
  BY <1>4, <1>11 DEF x, y, xk, xc, yk, yc, e, lk, lc, rk, rc

\* The first child of an internal node moves to the one before.
LEMMA InnerSparesFirst ==
  ASSUME NEW l \in InnerNodes, NEW r \in InnerNodes, Len(r.keys) > 0,
         KidsOf(l) \cap KidsOf(r) = {}, NEW separator \in Nat
  PROVE  /\ Spared(l, r, Internal(Append(l.keys, separator), Append(l.children, Head(r.children))),
                         Internal(Tail(r.keys), Tail(r.children)))
         /\ Head(r.keys) \in Nat
<1> DEFINE m == Len(l.keys)
           n == Len(r.keys)
           lk == l.keys
           lc == l.children
           rk == r.keys
           rc == r.children
           A == KidsOf(l)
           B == KidsOf(r)
           e == Head(rc)
           m1 == m + 1
           n1 == n - 1
           xk == Append(lk, separator)
           xc == Append(lc, e)
           yk == Tail(rk)
           yc == Tail(rc)
<1>1. /\ m \in Nat /\ lk \in Vectors(Nat, m) /\ lc \in Lists(Nat, m + 1, A)
      /\ n \in Nat /\ rk \in Vectors(Nat, n) /\ rc \in Lists(Nat, n + 1, B)
  BY InnerParts
<1>2. n > 0 /\ A \cap B = {}
  OBVIOUS
<1> HIDE DEF m, n, lk, lc, rk, rc, A, B
<1>3. n \in Nat \ {0} /\ m1 \in Nat /\ n1 \in Nat /\ n + 1 \in Nat \ {0} /\ n + 1 - 1 = n /\ n = n1 + 1
  BY <1>1, <1>2
<1>4. yk \in Vectors(Nat, n1) /\ Head(rk) \in Nat
  BY <1>1, <1>3, EndsOfVector
<1>5. e \in B /\ yc \in Lists(Nat, n, B \ {e})
  <2> DEFINE p == n + 1
  <2>1. p \in Nat \ {0} /\ p - 1 = n /\ rc \in Lists(Nat, p, B)
    BY <1>1, <1>3
  <2> HIDE DEF p
  <2> QED
    BY <2>1, EndsOfList
<1>6. e \in Nat /\ e \notin A
  <2> DEFINE p == n + 1
  <2>1. p \in Nat /\ rc \in Lists(Nat, p, B)
    BY <1>1, <1>3
  <2> HIDE DEF p, e
  <2>2. B \subseteq Nat
    BY <2>1, ListElements
  <2> QED
    BY <1>2, <1>5, <2>2
<1>7. xk \in Vectors(Nat, m1)
  BY <1>1, EditVector
<1> HIDE DEF e
<1>8. xc \in Lists(Nat, m1 + 1, A \cup {e})
  <2>1. m1 \in Nat /\ lc \in Lists(Nat, m1, A)
    BY <1>1, <1>3
  <2> HIDE DEF m1
  <2> QED
    BY <1>6, <2>1, WiderList
<1>9. Paired(m1, A \cup {e}, xk, xc) /\ Paired(n1, B \ {e}, yk, yc)
  BY <1>3, <1>4, <1>5, <1>7, <1>8 DEF Paired
<1> HIDE DEF m1, n1, xk, xc, yk, yc
<1> DEFINE x == Internal(xk, xc)
           y == Internal(yk, yc)
<1>10. x \in InnerNodes /\ KidsOf(x) = A \cup {e} /\ y \in InnerNodes /\ KidsOf(y) = B \ {e}
  BY <1>9, InnerMade
<1> HIDE DEF x, y
<1>11. Spared(l, r, x, y)
  <2>1. x \in TreeNodes /\ y \in TreeNodes /\ KidsOf(x) # {} /\ KidsOf(y) # {}
    BY <1>10, InnerParts DEF TreeNodes
  <2>2. KidsOf(x) \cup KidsOf(y) = A \cup B /\ KidsOf(x) \cap KidsOf(y) = {}
    BY <1>2, <1>5, <1>10
  <2> QED
    BY <2>1, <2>2 DEF Spared, A, B
<1> QED
  BY <1>4, <1>11 DEF x, y, xk, xc, yk, yc, e, lk, lc, rk, rc

\* The node that two siblings merge into.
LEMMA LeavesMerge ==
  ASSUME NEW l \in LeafNodes, NEW r \in LeafNodes
  PROVE  /\ Leaf(l.keys \o r.keys, l.vals \o r.vals, r.next) \in TreeNodes
         /\ KidsOf(Leaf(l.keys \o r.keys, l.vals \o r.vals, r.next)) = KidsOf(l) \cup KidsOf(r)
<1> DEFINE m == Len(l.keys)
           n == Len(r.keys)
           p == m + n
           ks == l.keys \o r.keys
           vs == l.vals \o r.vals
           next == r.next
<1>1. /\ m \in Nat /\ l.keys \in Vectors(Nat, m) /\ l.vals \in Vectors(Value, m)
      /\ n \in Nat /\ r.keys \in Vectors(Nat, n) /\ r.vals \in Vectors(Value, n) /\ next \in Nat
      /\ KidsOf(l) = {} /\ KidsOf(r) = {}
  BY LeafParts
<1> HIDE DEF m, n
<1>2. p \in Nat /\ ks \in Vectors(Nat, p) /\ vs \in Vectors(Value, p)
  BY <1>1, ConcatVectors
<1> HIDE DEF p, ks, vs, next
<1>3. Leaf(ks, vs, next) \in LeafNodes /\ KidsOf(Leaf(ks, vs, next)) = {}
  BY <1>1, <1>2, LeafMade
<1>4. Leaf(ks, vs, next) \in TreeNodes /\ KidsOf(Leaf(ks, vs, next)) = KidsOf(l) \cup KidsOf(r)
  BY <1>1, <1>3 DEF TreeNodes
<1> QED
  BY <1>4 DEF ks, vs, next

\* Two internal siblings merge around their separator.
LEMMA InnersMerge ==
  ASSUME NEW l \in InnerNodes, NEW r \in InnerNodes,
         KidsOf(l) \cap KidsOf(r) = {}, NEW separator \in Nat
  PROVE  /\ Internal(Append(l.keys, separator) \o r.keys, l.children \o r.children) \in TreeNodes
         /\ KidsOf(Internal(Append(l.keys, separator) \o r.keys, l.children \o r.children))
              = KidsOf(l) \cup KidsOf(r)
<1> DEFINE m == Len(l.keys)
           n == Len(r.keys)
           m1 == m + 1
           n1 == n + 1
           p == m1 + n
           lk == l.keys
           lc == l.children
           rk == r.keys
           rc == r.children
           A == KidsOf(l)
           B == KidsOf(r)
           ks == Append(lk, separator) \o rk
           cs == lc \o rc
<1>1. /\ m \in Nat /\ lk \in Vectors(Nat, m) /\ lc \in Lists(Nat, m1, A)
      /\ n \in Nat /\ rk \in Vectors(Nat, n) /\ rc \in Lists(Nat, n1, B)
  BY InnerParts
<1>2. A \cap B = {}
  OBVIOUS
<1> HIDE DEF m, n, lk, lc, rk, rc, A, B
<1>3. m1 \in Nat /\ n1 \in Nat /\ p \in Nat /\ m1 + n1 = p + 1
  BY <1>1
<1>4. Append(lk, separator) \in Vectors(Nat, m1)
  BY <1>1, EditVector
<1> DEFINE lk1 == Append(lk, separator)
<1> HIDE DEF m1, n1
<1>5. ks \in Vectors(Nat, p)
  <2>1. lk1 \in Vectors(Nat, m1)
    BY <1>4
  <2> HIDE DEF lk1
  <2>2. lk1 \o rk \in Vectors(Nat, m1 + n)
    BY <1>1, <1>3, <2>1, ConcatVectors
  <2> QED
    BY <2>2 DEF lk1
<1>6. cs \in Lists(Nat, m1 + n1, A \cup B)
  BY <1>1, <1>2, <1>3, ConcatLists
<1>7. Paired(p, A \cup B, ks, cs)
  BY <1>3, <1>5, <1>6 DEF Paired
<1> HIDE DEF p, ks, cs
<1>8. Internal(ks, cs) \in InnerNodes /\ KidsOf(Internal(ks, cs)) = A \cup B
  BY <1>7, InnerMade
<1>9. Internal(ks, cs) \in TreeNodes
  BY <1>8 DEF TreeNodes
<1> QED
  BY <1>8, <1>9 DEF ks, cs, lk, lc, rk, rc, A, B

\* A child and the separator before it leave their parent.
LEMMA ChildUnlinked ==
  ASSUME NEW x \in InnerNodes, NEW i \in 0..(Len(x.keys) - 1)
  PROVE  /\ Internal(RemoveAt(x.keys, i + 1), RemoveAt(x.children, i + 2)) \in TreeNodes
         /\ KidsOf(Internal(RemoveAt(x.keys, i + 1), RemoveAt(x.children, i + 2)))
              = KidsOf(x) \ {ChildAt(x, i + 1)}
<1> DEFINE m == Len(x.keys)
           m1 == m - 1
           A == KidsOf(x)
           xk == x.keys
           xc == x.children
           j == i + 1
           q == i + 2
           ks == RemoveAt(xk, j)
           cs == RemoveAt(xc, q)
           c == ChildAt(x, j)
<1>1. m \in Nat /\ xk \in Vectors(Nat, m) /\ xc \in Lists(Nat, m + 1, A)
  BY InnerParts
<1>2. i \in 0..(m - 1)
  OBVIOUS
<1>3. j \in 0..m /\ j \in 1..m /\ q \in 1..(m + 1) /\ j + 1 = q /\ m1 \in Nat /\ m1 + 1 = m /\ m + 1 \in Nat
  <2> HIDE DEF m
  <2> QED
    BY <1>1, <1>2
<1>a. c = xc[q]
  <2> HIDE DEF j, q
  <2>1. c = x.children[j + 1]
    BY <1>3, ChildOfNode
  <2> QED
    BY <1>3, <2>1
<1> HIDE DEF m, xk, xc, A, j, q, c
<1>4. ks \in Vectors(Nat, m1)
  BY <1>1, <1>3, EditVector
<1>5. cs \in Lists(Nat, m1 + 1, A \ {c})
  <2> DEFINE p == m + 1
  <2>1. p \in Nat /\ p - 1 = m1 + 1 /\ xc \in Lists(Nat, p, A) /\ q \in 1..p
    BY <1>1, <1>3
  <2> HIDE DEF p, m1
  <2>2. RemoveAt(xc, q) \in Lists(Nat, p - 1, A \ {xc[q]})
    BY <2>1, NarrowerList
  <2> QED
    BY <1>a, <2>1, <2>2
<1>6. Paired(m1, A \ {c}, ks, cs)
  BY <1>3, <1>4, <1>5 DEF Paired
<1> HIDE DEF m1, ks, cs
<1>7. Internal(ks, cs) \in InnerNodes /\ KidsOf(Internal(ks, cs)) = A \ {c}
  BY <1>6, InnerMade
<1>8. Internal(ks, cs) \in TreeNodes
  BY <1>7 DEF TreeNodes
<1> QED
  BY <1>7, <1>8 DEF ks, cs, xk, xc, A, j, q, c

\* Different places hold different children.
LEMMA DistinctChildren ==
  ASSUME NEW x \in InnerNodes, NEW i \in 0..Len(x.keys), NEW j \in 0..Len(x.keys), i # j
  PROVE  /\ ChildAt(x, i) \in KidsOf(x) /\ ChildAt(x, j) \in KidsOf(x)
         /\ ChildAt(x, i) # ChildAt(x, j)
<1> DEFINE m == Len(x.keys)
           n == m + 1
           A == KidsOf(x)
           s == x.children
           p == i + 1
           q == j + 1
<1>1. m \in Nat /\ s \in Lists(Nat, n, A)
  BY InnerParts
<1>2. i \in 0..m /\ j \in 0..m /\ i # j
  OBVIOUS
<1>3. /\ ChildAt(x, i) \in A /\ ChildAt(x, i) = s[p]
      /\ ChildAt(x, j) \in A /\ ChildAt(x, j) = s[q]
  BY ChildOfNode
<1> HIDE DEF m, A, s
<1>4. n \in Nat /\ p \in 1..n /\ q \in 1..n /\ p # q
  BY <1>1, <1>2
<1> HIDE DEF n, p, q
<1>5. s[p] # s[q]
  <2>1. n \in Nat /\ s \in Lists(Nat, n, A)
    BY <1>1, <1>4
  <2>2. IsInjective(s) /\ s \in Seq(Nat) /\ Len(s) = n
    BY <2>1 DEF Lists, Vectors
  <2>3. DOMAIN s = 1..n
    BY <2>1, <2>2, LenProperties
  <2>4. \A u, v \in DOMAIN s : s[u] = s[v] => u = v
    BY <2>2 DEF IsInjective
  <2> QED
    BY <1>4, <2>3, <2>4
<1> QED
  BY <1>3, <1>5 DEF A

\* The node is still in use and internal after work under it.
LEMMA ReworkedParts ==
  ASSUME NEW h, NEW R, NEW lvl, NEW top, Forest(h, R, lvl, top), NEW id \in LiveIds(h),
         ~h.nodes[id].leaf, NEW g, Reworked(h, g, R, lvl, top, id)
  PROVE  /\ Forest(g, R, lvl, top) /\ id \in LiveIds(g) /\ ~g.nodes[id].leaf
         /\ g.nodes[id] \in InnerNodes
         /\ Tweaked(g, g, R, lvl, top, id, g.nodes[id].children)
<1>1. Forest(g, R, lvl, top) /\ Kept(h, g, lvl, id)
  BY DEF Reworked
<1>2. lvl[id] \in Nat /\ lvl[id] > 0
  BY ForestNodes
<1>3. id \in LiveIds(g)
  BY <1>1, <1>2 DEF Kept
<1>4. ~g.nodes[id].leaf
  BY <1>1, <1>2, <1>3, ForestNodes
<1>5. g.nodes[id] \in InnerNodes
  BY <1>1, <1>3, <1>4, ForestNodes
<1> QED
  BY <1>1, <1>3, <1>4, <1>5 DEF Tweaked

\* A change of separators after work under a node is work under it.
LEMMA TweakReworks ==
  ASSUME NEW h, NEW g, NEW f, NEW R, NEW lvl, NEW top, NEW id, NEW cs,
         Reworked(h, g, R, lvl, top, id), Tweaked(g, f, R, lvl, top, id, cs)
  PROVE  Reworked(h, f, R, lvl, top, id)
<1>1. Forest(f, R, lvl, top) /\ LiveIds(f) = LiveIds(g)
      /\ \A n \in LiveIds(g) \ {id} : f.nodes[n] = g.nodes[n]
  BY DEF Tweaked
<1>2. Kept(h, f, lvl, id)
  BY <1>1 DEF Reworked, Kept
<1> QED
  BY <1>1, <1>2 DEF Reworked

\* Node id gets another separator, and two of its children are replaced.
Renamed(node, i, e) == [node EXCEPT !.keys[i] = e]
Exchanged(h, id, a, b, x, y, i, e) ==
  [h EXCEPT !.nodes[a] = x, !.nodes[b] = y, !.nodes[id].keys[i] = e]

\* The nodes after a move, and the separator between them.
LEMMA Moves ==
  ASSUME NEW h, NEW R, NEW lvl, NEW top, Forest(h, R, lvl, top), NEW id \in LiveIds(h),
         ~h.nodes[id].leaf,
         NEW a \in KidsOf(h.nodes[id]), NEW b \in KidsOf(h.nodes[id]), a # b,
         NEW x, NEW y, Spared(h.nodes[a], h.nodes[b], x, y),
         NEW i \in 1..Len(h.nodes[id].keys), NEW e \in Nat
  PROVE  LET g == SetNode(SetNode(SetNode(h, a, x), b, y), id, Renamed(h.nodes[id], i, e)) IN
           /\ Reworked(h, g, R, lvl, top, id) /\ LiveIds(g) = LiveIds(h)
           /\ g.nodes[id].children = h.nodes[id].children
<1> DEFINE node == h.nodes[id]
           z == Renamed(node, i, e)
<1>1. node \in InnerNodes
  BY ForestNodes
<1>2. z \in InnerNodes /\ KidsOf(z) = KidsOf(node) /\ z.children = node.children
  BY <1>1, SeparatorChanges DEF Renamed
<1> HIDE DEF z
<1>3. z \in TreeNodes
  BY <1>2 DEF TreeNodes
<1>4. Borrowed(h, id, a, b, x, y, z)
  BY <1>2, <1>3 DEF Borrowed, Spared
<1> DEFINE g == SetNode(SetNode(SetNode(h, a, x), b, y), id, z)
<1>5. Reworked(h, g, R, lvl, top, id) /\ g.nodes[id] = z /\ LiveIds(g) = LiveIds(h)
  BY <1>4, BorrowedNodes
<1> HIDE DEF g
<1> QED
  BY <1>2, <1>5 DEF g, z

\* The heap with two nodes and a separator replaced, as the code writes it.
LEMMA MovesSet ==
  ASSUME NEW h \in GoodHeaps, NEW id \in LiveIds(h), NEW a \in LiveIds(h), NEW b \in LiveIds(h),
         a # id, b # id, NEW x \in TreeNodes, NEW y \in TreeNodes, NEW i, NEW e
  PROVE  Exchanged(h, id, a, b, x, y, i, e)
           = SetNode(SetNode(SetNode(h, a, x), b, y), id, Renamed(h.nodes[id], i, e))
<1> DEFINE h1 == SetNode(h, a, x)
           h2 == SetNode(h1, b, y)
<1>1. h2 = [h EXCEPT !.nodes[a] = x, !.nodes[b] = y]
  BY DEF SetNode
<1>2. [h EXCEPT !.nodes[a] = x, !.nodes[b] = y, !.nodes[id].keys[i] = e]
        = [h2 EXCEPT !.nodes[id].keys[i] = e]
  BY DEF SetNode
<1>3. h1 \in GoodHeaps /\ LiveIds(h1) = LiveIds(h) /\ h1.nodes[id] = h.nodes[id]
  BY NodeSet
<1>4. h2.nodes[id] = h.nodes[id]
  <2> HIDE DEF h1
  <2> QED
    BY <1>3, NodeSet
<1>5. [h2 EXCEPT !.nodes[id].keys[i] = e] = SetNode(h2, id, [h2.nodes[id] EXCEPT !.keys[i] = e])
  <2> HIDE DEF h2
  <2> QED
    BY DEF SetNode
<1> QED
  BY <1>2, <1>4, <1>5 DEF Exchanged, Renamed

\* Both, for the heap the code leaves.
LEMMA MovesMade ==
  ASSUME NEW h, NEW R, NEW lvl, NEW top \in Nat, Forest(h, R, lvl, top), NEW id \in LiveIds(h),
         ~h.nodes[id].leaf,
         NEW a \in KidsOf(h.nodes[id]), NEW b \in KidsOf(h.nodes[id]), a # b,
         NEW x, NEW y, Spared(h.nodes[a], h.nodes[b], x, y),
         NEW i \in 1..Len(h.nodes[id].keys), NEW e \in Nat,
         NEW g, g = Exchanged(h, id, a, b, x, y, i, e)
  PROVE  /\ Reworked(h, g, R, lvl, top, id) /\ LiveIds(g) = LiveIds(h)
         /\ g.nodes[id].children = h.nodes[id].children
<1>1. x \in TreeNodes /\ y \in TreeNodes
  BY DEF Spared
<1>2. a \in LiveIds(h) /\ b \in LiveIds(h) /\ a # id /\ b # id
  BY Siblings
<1>3. h \in GoodHeaps
  BY DEF Forest
<1> DEFINE z == Renamed(h.nodes[id], i, e)
           f == SetNode(SetNode(SetNode(h, a, x), b, y), id, z)
<1>4. Exchanged(h, id, a, b, x, y, i, e) = f
  BY ONLY <1>1, <1>2, <1>3, id \in LiveIds(h), MovesSet
<1>5. g = f
  BY <1>4
<1>6. Reworked(h, f, R, lvl, top, id) /\ LiveIds(f) = LiveIds(h)
      /\ f.nodes[id].children = h.nodes[id].children
  BY Moves
<1> HIDE DEF f
<1> QED
  BY <1>5, <1>6

\* The same where the separator may stay.
ExchangedUnless(h, id, a, b, x, y, i, keep, w) ==
  [h EXCEPT !.nodes[a] = x, !.nodes[b] = y, !.nodes[id].keys[i] = IF keep THEN @ ELSE w]

\* They agree.
LEMMA MovesKept ==
  ASSUME NEW h \in GoodHeaps, NEW id \in LiveIds(h), NEW a \in LiveIds(h), NEW b \in LiveIds(h),
         a # id, b # id, NEW x \in TreeNodes, NEW y \in TreeNodes, NEW i, NEW keep, NEW w
  PROVE  ExchangedUnless(h, id, a, b, x, y, i, keep, w)
           = Exchanged(h, id, a, b, x, y, i, IF keep THEN h.nodes[id].keys[i] ELSE w)
<1> DEFINE h1 == SetNode(h, a, x)
           h2 == SetNode(h1, b, y)
<1>1. h2 = [h EXCEPT !.nodes[a] = x, !.nodes[b] = y]
  BY DEF SetNode
<1>2. [h EXCEPT !.nodes[a] = x, !.nodes[b] = y, !.nodes[id].keys[i] = IF keep THEN @ ELSE w]
        = [h2 EXCEPT !.nodes[id].keys[i] = IF keep THEN h2.nodes[id].keys[i] ELSE w]
  BY DEF SetNode
<1>3. h1 \in GoodHeaps /\ LiveIds(h1) = LiveIds(h) /\ h1.nodes[id] = h.nodes[id]
  BY NodeSet
<1>4. h2.nodes[id] = h.nodes[id]
  <2> HIDE DEF h1
  <2> QED
    BY <1>3, NodeSet
<1>5. [h2 EXCEPT !.nodes[id].keys[i] = IF keep THEN h2.nodes[id].keys[i] ELSE w]
        = [h2 EXCEPT !.nodes[id].keys[i] = IF keep THEN h.nodes[id].keys[i] ELSE w]
  <2> HIDE DEF h2
  <2> QED
    BY <1>4
<1>6. [h EXCEPT !.nodes[a] = x, !.nodes[b] = y,
                       !.nodes[id].keys[i] = IF keep THEN h.nodes[id].keys[i] ELSE w]
       = [h2 EXCEPT !.nodes[id].keys[i] = IF keep THEN h.nodes[id].keys[i] ELSE w]
  BY DEF SetNode
<1> QED
  BY <1>2, <1>5, <1>6 DEF Exchanged, ExchangedUnless

\* A node is a leaf or internal.
LEMMA NodeKind ==
  ASSUME NEW x \in TreeNodes
  PROVE  /\ x.leaf \in BOOLEAN
         /\ x.leaf => x \in LeafNodes
         /\ ~x.leaf => x \in InnerNodes
         /\ Len(x.keys) \in Nat
<1>1. x.leaf \in BOOLEAN /\ (x.leaf => x \in LeafNodes) /\ (~x.leaf => x \in InnerNodes)
  BY NodeKinds
<1>2. Len(x.keys) \in Nat
  BY LeafParts, InnerParts DEF TreeNodes
<1> QED
  BY <1>1, <1>2

\* BorrowFromLeft keeps the forest and what is not below the node.
LEMMA BorrowsFromLeft ==
  ASSUME NEW h, NEW R, NEW lvl, NEW top \in Nat, Forest(h, R, lvl, top), NEW id \in LiveIds(h),
         ~h.nodes[id].leaf, NEW idx \in 1..Len(h.nodes[id].keys),
         Len(h.nodes[ChildAt(h.nodes[id], idx - 1)].keys) > 0
  PROVE  Reworked(h, BorrowFromLeft(h, id, idx), R, lvl, top, id)
<1> DEFINE node == h.nodes[id]
           m == Len(node.keys)
           a == ChildAt(node, idx - 1)
           b == ChildAt(node, idx)
           l == h.nodes[a]
           r == h.nodes[b]
           x == IF l.leaf THEN Leaf(Front(l.keys), Front(l.vals), l.next)
                ELSE Internal(Front(l.keys), Front(l.children))
           y == IF r.leaf THEN Leaf(Cons(Last(l.keys), r.keys), Cons(Last(l.vals), r.vals), r.next)
                ELSE Internal(Cons(node.keys[idx], r.keys), Cons(Last(l.children), r.children))
           e == IF r.leaf THEN node.keys[idx] ELSE Last(l.keys)
           moved == [h EXCEPT !.nodes[a] = x, !.nodes[b] = y,
                              !.nodes[id].keys[idx] = IF r.leaf THEN @ ELSE Last(l.keys)]
           first == FirstKey(moved, b)
<1>1. node \in InnerNodes /\ h \in GoodHeaps
  BY ForestNodes
<1>2. m \in Nat /\ node.keys \in Vectors(Nat, m) /\ Len(node.children) = m + 1
  BY <1>1, InnerParts
<1>3. idx \in 1..m /\ idx - 1 \in 0..m /\ idx \in 0..m /\ idx - 1 # idx
  <2>1. idx \in 1..m
    OBVIOUS
  <2> HIDE DEF m
  <2> QED
    BY <1>2, <2>1
<1>4. a \in KidsOf(node) /\ b \in KidsOf(node) /\ a # b
  BY <1>1, <1>3, DistinctChildren
<1>5. node.keys[idx] \in Nat
  <2> DEFINE ks == node.keys
  <2>1. ks \in Vectors(Nat, m)
    BY <1>2
  <2> HIDE DEF ks, m
  <2>2. ks[idx] \in Nat
    BY <1>2, <1>3, <2>1, ElementOfVector
  <2> QED
    BY <2>2 DEF ks
<1>6. Len(l.keys) > 0
  OBVIOUS
<1>a. BorrowFromLeft(h, id, idx) = SetSeparator(moved, id, idx, first)
  BY DEF BorrowFromLeft
<1> HIDE DEF a, b, m
<1>7. /\ a \in LiveIds(h) /\ b \in LiveIds(h) /\ a # id /\ b # id
      /\ l \in TreeNodes /\ r \in TreeNodes /\ l.leaf = r.leaf /\ KidsOf(l) \cap KidsOf(r) = {}
  <2>1. a \in KidsOf(h.nodes[id]) /\ b \in KidsOf(h.nodes[id]) /\ a # b
    BY <1>4
  <2>2. a \in LiveIds(h) /\ b \in LiveIds(h) /\ a # id /\ b # id
    BY <2>1, Siblings, SMTT(40)
  <2>3. h.nodes[a] \in TreeNodes /\ h.nodes[b] \in TreeNodes
    BY <2>1, Siblings, SMTT(40)
  <2>4. KidsOf(h.nodes[a]) \cap KidsOf(h.nodes[b]) = {}
    BY <2>1, Siblings, ZenonT(30)
  <2>5. h.nodes[a].leaf = h.nodes[b].leaf
    BY <2>1, Siblings, SMTT(40)
  <2> QED
    BY ONLY <2>2, <2>3, <2>4, <2>5
<1>8. Spared(l, r, x, y) /\ e \in Nat
  <2> DEFINE sep == node.keys[idx]
  <2> HIDE DEF l, r, sep, node
  <2>1. CASE l.leaf
    <3>1. l \in LeafNodes /\ r \in LeafNodes /\ r.leaf
      BY <1>7, <2>1, NodeKind
    <3>2. Spared(l, r, Leaf(Front(l.keys), Front(l.vals), l.next),
                       Leaf(Cons(Last(l.keys), r.keys), Cons(Last(l.vals), r.vals), r.next))
      BY <1>6, <3>1, LeafSparesLast
    <3> QED
      BY <1>5, <2>1, <3>1, <3>2
  <2>2. CASE ~l.leaf
    <3>1. l \in InnerNodes /\ r \in InnerNodes /\ ~r.leaf
      BY <1>7, <2>2, NodeKind
    <3>2. sep \in Nat
      BY <1>5 DEF sep
    <3>3. /\ Spared(l, r, Internal(Front(l.keys), Front(l.children)),
                          Internal(Cons(sep, r.keys), Cons(Last(l.children), r.children)))
          /\ Last(l.keys) \in Nat
      BY <1>6, <1>7, <3>1, <3>2, InnerSparesLast
    <3> QED
      BY <2>2, <3>1, <3>3 DEF sep
  <2> QED
    BY <2>1, <2>2
<1> DEFINE g == Exchanged(h, id, a, b, x, y, idx, e)
<1> HIDE DEF x, y
<1>9. moved = g
  <2>1. x \in TreeNodes /\ y \in TreeNodes
    BY <1>8 DEF Spared
  <2> DEFINE keep == r.leaf
             w == Last(l.keys)
  <2> HIDE DEF keep, w
  <2>2. ExchangedUnless(h, id, a, b, x, y, idx, keep, w)
          = Exchanged(h, id, a, b, x, y, idx, IF keep THEN h.nodes[id].keys[idx] ELSE w)
    BY <1>1, <1>7, <2>1, MovesKept
  <2>3. moved = ExchangedUnless(h, id, a, b, x, y, idx, keep, w)
    BY DEF ExchangedUnless, keep, w
  <2>4. e = IF keep THEN h.nodes[id].keys[idx] ELSE w
    BY DEF keep, w
  <2> QED
    BY <2>2, <2>3, <2>4
<1> HIDE DEF moved
<1>10. /\ Reworked(h, g, R, lvl, top, id) /\ LiveIds(g) = LiveIds(h)
       /\ g.nodes[id].children = h.nodes[id].children
  <2>1. a \in KidsOf(h.nodes[id]) /\ b \in KidsOf(h.nodes[id]) /\ a # b
    BY <1>4
  <2>2. Spared(h.nodes[a], h.nodes[b], x, y) /\ e \in Nat
    BY <1>8
  <2> HIDE DEF e, g
  <2> QED
    BY <2>1, <2>2, MovesMade DEF g
<1> HIDE DEF g, moved
<1>11. Tweaked(g, g, R, lvl, top, id, node.children) /\ Forest(g, R, lvl, top) /\ id \in LiveIds(g)
  BY <1>10, ReworkedParts
<1>12. first \in Nat
  BY <1>7, <1>9, <1>10, <1>11, FirstKeys
<1> HIDE DEF first
<1>13. idx \in 0..(Len(node.children) - 1)
  <2> HIDE DEF node
  <2> QED
    BY <1>2, <1>3
<1>14. Tweaked(g, SetSeparator(g, id, idx, first), R, lvl, top, id, node.children)
  BY <1>11, <1>12, <1>13, SeparatorSet
<1>15. Reworked(h, SetSeparator(g, id, idx, first), R, lvl, top, id)
  BY <1>10, <1>14, TweakReworks
<1> QED
  BY <1>a, <1>9, <1>15

\* BorrowFromRight does, if the sibling keeps a key.
LEMMA BorrowsFromRight ==
  ASSUME NEW h, NEW R, NEW lvl, NEW top \in Nat, Forest(h, R, lvl, top), NEW id \in LiveIds(h),
         ~h.nodes[id].leaf, NEW idx \in 0..(Len(h.nodes[id].keys) - 1),
         Len(h.nodes[ChildAt(h.nodes[id], idx + 1)].keys) > 1
  PROVE  Reworked(h, BorrowFromRight(h, id, idx), R, lvl, top, id)
<1> DEFINE node == h.nodes[id]
           m == Len(node.keys)
           j == idx + 1
           a == ChildAt(node, idx)
           b == ChildAt(node, j)
           l == h.nodes[a]
           r == h.nodes[b]
           x == IF l.leaf THEN Leaf(Append(l.keys, Head(r.keys)), Append(l.vals, Head(r.vals)), l.next)
                ELSE Internal(Append(l.keys, node.keys[j]), Append(l.children, Head(r.children)))
           y == IF r.leaf THEN Leaf(Tail(r.keys), Tail(r.vals), r.next)
                ELSE Internal(Tail(r.keys), Tail(r.children))
           e == IF r.leaf THEN Head(y.keys) ELSE Head(r.keys)
           moved == [h EXCEPT !.nodes[a] = x, !.nodes[b] = y, !.nodes[id].keys[j] = e]
<1>1. node \in InnerNodes /\ h \in GoodHeaps
  BY ForestNodes
<1>2. m \in Nat /\ node.keys \in Vectors(Nat, m)
  BY <1>1, InnerParts
<1>3. j \in 1..m /\ j \in 0..m /\ idx \in 0..m /\ idx # j
  <2>1. idx \in 0..(m - 1)
    OBVIOUS
  <2> HIDE DEF m
  <2> QED
    BY <1>2, <2>1
<1>6. Len(r.keys) > 1
  OBVIOUS
<1>a. BorrowFromRight(h, id, idx) = moved
  BY DEF BorrowFromRight
<1> HIDE DEF j
<1>4. a \in KidsOf(node) /\ b \in KidsOf(node) /\ a # b
  BY <1>1, <1>3, DistinctChildren
<1>5. node.keys[j] \in Nat
  <2> DEFINE ks == node.keys
  <2>1. ks \in Vectors(Nat, m)
    BY <1>2
  <2> HIDE DEF ks, m
  <2>2. ks[j] \in Nat
    BY <1>2, <1>3, <2>1, ElementOfVector
  <2> QED
    BY <2>2 DEF ks
<1> HIDE DEF a, b, m
<1>7. /\ a \in LiveIds(h) /\ b \in LiveIds(h) /\ a # id /\ b # id
      /\ l \in TreeNodes /\ r \in TreeNodes /\ l.leaf = r.leaf /\ KidsOf(l) \cap KidsOf(r) = {}
  <2>1. a \in KidsOf(h.nodes[id]) /\ b \in KidsOf(h.nodes[id]) /\ a # b
    BY <1>4
  <2>2. a \in LiveIds(h) /\ b \in LiveIds(h) /\ a # id /\ b # id
    BY <2>1, Siblings, SMTT(40)
  <2>3. h.nodes[a] \in TreeNodes /\ h.nodes[b] \in TreeNodes
    BY <2>1, Siblings, SMTT(40)
  <2>4. KidsOf(h.nodes[a]) \cap KidsOf(h.nodes[b]) = {}
    BY <2>1, Siblings, ZenonT(30)
  <2>5. h.nodes[a].leaf = h.nodes[b].leaf
    BY <2>1, Siblings, SMTT(40)
  <2> QED
    BY ONLY <2>2, <2>3, <2>4, <2>5
<1>8. Spared(l, r, x, y) /\ e \in Nat
  <2> DEFINE sep == node.keys[j]
  <2> HIDE DEF l, r, sep, node
  <2>0. Len(r.keys) > 0
    <3>1. Len(r.keys) \in Nat
      BY <1>7, NodeKind
    <3> DEFINE n == Len(r.keys)
    <3>2. n \in Nat /\ n > 1
      BY <1>6, <3>1
    <3> HIDE DEF n
    <3>3. n > 0
      BY <3>2
    <3> QED
      BY <3>3 DEF n
  <2>1. CASE l.leaf
    <3>1. l \in LeafNodes /\ r \in LeafNodes /\ r.leaf
      BY <1>7, <2>1, NodeKind
    <3>2. Spared(l, r, Leaf(Append(l.keys, Head(r.keys)), Append(l.vals, Head(r.vals)), l.next),
                       Leaf(Tail(r.keys), Tail(r.vals), r.next))
      BY <2>0, <3>1, LeafSparesFirst
    <3>3. Head(Tail(r.keys)) \in Nat
      <4> DEFINE n == Len(r.keys)
                 n1 == n - 1
                 ks == r.keys
                 rest == Tail(ks)
      <4>1. n \in Nat /\ ks \in Vectors(Nat, n)
        BY <3>1, LeafParts
      <4>2. n > 1
        BY <1>6
      <4> HIDE DEF n, ks
      <4>3. n \in Nat \ {0} /\ n1 \in Nat \ {0} /\ n1 = n - 1
        BY <4>1, <4>2
      <4>4. rest \in Vectors(Nat, n - 1)
        BY <4>1, <4>3, EndsOfVector
      <4> HIDE DEF n1, rest
      <4>5. rest \in Vectors(Nat, n1)
        BY <4>3, <4>4
      <4>6. Head(rest) \in Nat
        BY <4>3, <4>5, EndsOfVector
      <4> QED
        BY <4>6 DEF rest, ks
    <3>4. Leaf(Tail(r.keys), Tail(r.vals), r.next).keys = Tail(r.keys)
      BY DEF Leaf
    <3> QED
      BY <2>1, <3>1, <3>2, <3>3, <3>4
  <2>2. CASE ~l.leaf
    <3>1. l \in InnerNodes /\ r \in InnerNodes /\ ~r.leaf
      BY <1>7, <2>2, NodeKind
    <3>2. sep \in Nat
      BY <1>5 DEF sep
    <3>3. /\ Spared(l, r, Internal(Append(l.keys, sep), Append(l.children, Head(r.children))),
                          Internal(Tail(r.keys), Tail(r.children)))
          /\ Head(r.keys) \in Nat
      BY <2>0, <1>7, <3>1, <3>2, InnerSparesFirst
    <3> QED
      BY <2>2, <3>1, <3>3 DEF sep
  <2> QED
    BY <2>1, <2>2
<1> HIDE DEF x, y, e
<1>9. moved = Exchanged(h, id, a, b, x, y, j, e)
  BY DEF Exchanged
<1> HIDE DEF moved
<1>10. Reworked(h, moved, R, lvl, top, id)
  <2>1. a \in KidsOf(h.nodes[id]) /\ b \in KidsOf(h.nodes[id]) /\ a # b
    BY <1>4
  <2>2. Spared(h.nodes[a], h.nodes[b], x, y)
    BY <1>8
  <2>3. j \in 1..Len(h.nodes[id].keys)
    BY <1>3 DEF m
  <2> QED
    BY <1>8, <1>9, <2>1, <2>2, <2>3, MovesMade
<1> QED
  BY <1>a, <1>10

\* Merge keeps the shape.
LEMMA MergeReworks ==
  ASSUME NEW h, NEW R, NEW lvl, NEW top \in Nat, Forest(h, R, lvl, top), NEW id \in LiveIds(h),
         ~h.nodes[id].leaf, NEW idx \in 0..(Len(h.nodes[id].keys) - 1)
  PROVE  Reworked(h, Merge(h, id, idx), R, lvl, top, id)
<1> DEFINE node == h.nodes[id]
           m == Len(node.keys)
           j == idx + 1
           a == ChildAt(node, idx)
           b == ChildAt(node, j)
           l == h.nodes[a]
           r == h.nodes[b]
           x == IF l.leaf THEN Leaf(l.keys \o r.keys, l.vals \o r.vals, r.next)
                ELSE Internal(Append(l.keys, node.keys[j]) \o r.keys, l.children \o r.children)
           z == Internal(RemoveAt(node.keys, j), RemoveAt(node.children, idx + 2))
           g == SetNode(SetNode(h, a, x), id, z)
<1>1. node \in InnerNodes /\ h \in GoodHeaps
  BY ForestNodes
<1>2. m \in Nat /\ node.keys \in Vectors(Nat, m)
  BY <1>1, InnerParts
<1>3. j \in 1..m /\ j \in 0..m /\ idx \in 0..m /\ idx # j
  <2>1. idx \in 0..(m - 1)
    OBVIOUS
  <2> HIDE DEF m
  <2> QED
    BY <1>2, <2>1
<1>a. Merge(h, id, idx) = Freed(g, b)
  BY DEF Merge, SetNode
<1>b. z \in TreeNodes /\ KidsOf(z) = KidsOf(node) \ {b}
  <2>1. idx \in 0..(Len(node.keys) - 1)
    OBVIOUS
  <2> HIDE DEF node
  <2> QED
    BY <1>1, <2>1, ChildUnlinked
<1> HIDE DEF j, z
<1>4. a \in KidsOf(node) /\ b \in KidsOf(node) /\ a # b
  BY <1>1, <1>3, DistinctChildren
<1>5. node.keys[j] \in Nat
  <2> DEFINE ks == node.keys
  <2>1. ks \in Vectors(Nat, m)
    BY <1>2
  <2> HIDE DEF ks, m
  <2>2. ks[j] \in Nat
    BY <1>2, <1>3, <2>1, ElementOfVector
  <2> QED
    BY <2>2 DEF ks
<1> HIDE DEF a, b, m
<1>7. /\ l \in TreeNodes /\ r \in TreeNodes /\ l.leaf = r.leaf /\ KidsOf(l) \cap KidsOf(r) = {}
  <2>1. a \in KidsOf(h.nodes[id]) /\ b \in KidsOf(h.nodes[id]) /\ a # b
    BY <1>4
  <2>2. a \in LiveIds(h) /\ b \in LiveIds(h)
    BY <2>1, Siblings, SMTT(40)
  <2>3. h.nodes[a] \in TreeNodes /\ h.nodes[b] \in TreeNodes
    BY <1>1, <2>2, HeapParts
  <2>4. KidsOf(h.nodes[a]) \cap KidsOf(h.nodes[b]) = {}
    BY <2>1, Siblings, ZenonT(30)
  <2>5. h.nodes[a].leaf = h.nodes[b].leaf
    BY <2>1, Siblings, SMTT(40)
  <2> QED
    BY ONLY <2>3, <2>4, <2>5
<1>8. x \in TreeNodes /\ KidsOf(x) = KidsOf(l) \cup KidsOf(r)
  <2> DEFINE sep == node.keys[j]
  <2>0. sep \in Nat
    BY <1>5
  <2> HIDE DEF l, r, sep
  <2>1. CASE l.leaf
    <3>1. l \in LeafNodes /\ r \in LeafNodes
      BY <1>7, <2>1, NodeKind
    <3> QED
      BY <2>1, <3>1, LeavesMerge
  <2>2. CASE ~l.leaf
    <3>1. l \in InnerNodes /\ r \in InnerNodes
      BY <1>7, <2>2, NodeKind
    <3> DEFINE y == Internal(Append(l.keys, sep) \o r.keys, l.children \o r.children)
    <3>2. y \in TreeNodes /\ KidsOf(y) = KidsOf(l) \cup KidsOf(r)
      BY <1>7, <2>0, <3>1, InnersMerge
    <3>3. x = y
      BY <2>2 DEF sep
    <3> QED
      BY <3>2, <3>3
  <2> QED
    BY <2>1, <2>2
<1> HIDE DEF x
<1>9. Consolidated(h, id, a, b, x, z)
  BY <1>b, <1>8 DEF Consolidated
<1>10. Reworked(h, Freed(g, b), R, lvl, top, id)
  <2>1. a \in KidsOf(h.nodes[id]) /\ b \in KidsOf(h.nodes[id]) /\ a # b
    BY <1>4
  <2> QED
    BY <1>9, <2>1, MergedNodes
<1> QED
  BY <1>a, <1>10

\* A node has at most as many children in use as its list is long.
LEMMA ChildInUse ==
  ASSUME NEW h \in GoodHeaps, NEW x \in InnerNodes, NEW i \in Nat, Live(h, ChildAt(x, i))
  PROVE  i \in 0..Len(x.keys)
<1> DEFINE m == Len(x.keys)
<1>1. m \in Nat /\ Len(x.children) = m + 1
  BY InnerParts
<1>2. DOMAIN h.nodes = 1..Len(h.nodes)
  BY HeapParts
<1>3. ChildAt(x, i) # 0
  BY <1>2 DEF Live
<1>4. i < Len(x.children)
  BY <1>3 DEF ChildAt
<1> HIDE DEF m
<1> QED
  BY <1>1, <1>4 DEF m

\* Rebalanced keeps the forest: who lends has a key to spare.
LEMMA RebalanceReworks ==
  ASSUME NEW h, NEW R, NEW lvl, NEW top \in Nat, Forest(h, R, lvl, top), NEW id \in LiveIds(h),
         ~h.nodes[id].leaf, NEW idx \in 0..Len(h.nodes[id].keys), maxKeys \in Nat, maxKeys >= 3
  PROVE  Reworked(h, Rebalanced(h, id, idx), R, lvl, top, id)
<1> DEFINE node == h.nodes[id]
           m == Len(node.keys)
           CanSpare(i) == Live(h, ChildAt(node, i)) /\ Len(h.nodes[ChildAt(node, i)].keys) > MinKeys
           left == idx > 0 /\ CanSpare(idx - 1)
           right == CanSpare(idx + 1)
           new == Rebalanced(h, id, idx)
<1>1. node \in InnerNodes /\ h \in GoodHeaps
  BY ForestNodes
<1>2. m \in Nat
  BY <1>1, InnerParts
<1>3. MinKeys \in Nat /\ MinKeys >= 1
  BY DEF MinKeys
<1>4. idx \in 0..m
  OBVIOUS
<1>5. /\ left => new = BorrowFromLeft(h, id, idx)
      /\ ~left /\ right => new = BorrowFromRight(h, id, idx)
      /\ ~left /\ ~right /\ idx > 0 => new = Merge(h, id, idx - 1)
      /\ idx = 0 /\ ~right /\ Live(h, ChildAt(node, 1)) => new = Merge(h, id, idx)
      /\ idx = 0 /\ ~right /\ ~Live(h, ChildAt(node, 1)) => new = h
  <2>1. CASE left
    BY <2>1 DEF Rebalanced
  <2>2. CASE ~left /\ right
    BY <2>2 DEF Rebalanced
  <2>3. CASE ~left /\ ~right /\ idx > 0
    BY <2>3 DEF Rebalanced
  <2>4. CASE ~left /\ ~right /\ ~(idx > 0)
    BY <1>4, <2>4 DEF Rebalanced
  <2> QED
    BY <2>1, <2>2, <2>3, <2>4
<1>6. Reworked(h, h, R, lvl, top, id)
  BY DEF Reworked, Kept
<1>7. ASSUME left
      PROVE  Reworked(h, BorrowFromLeft(h, id, idx), R, lvl, top, id)
  <2> DEFINE n == Len(h.nodes[ChildAt(node, idx - 1)].keys)
  <2>1. n > MinKeys /\ Live(h, ChildAt(node, idx - 1))
    BY <1>7
  <2>2. n > 0
    <3>1. n \in Nat
      BY <1>1, <2>1, HeapParts, NodeKind DEF LiveIds
    <3> HIDE DEF n
    <3> QED
      BY <1>3, <2>1, <3>1
  <2>3. idx \in 1..m
    <3>1. idx > 0
      BY <1>7
    <3> HIDE DEF m
    <3> QED
      BY <1>2, <1>4, <3>1
  <2> QED
    BY <2>2, <2>3, BorrowsFromLeft
<1>8. ASSUME right
      PROVE  Reworked(h, BorrowFromRight(h, id, idx), R, lvl, top, id)
  <2> DEFINE n == Len(h.nodes[ChildAt(node, idx + 1)].keys)
             j == idx + 1
  <2>1. n > MinKeys /\ Live(h, ChildAt(node, j))
    BY <1>8
  <2>2. n > 1
    <3>1. n \in Nat
      BY <1>1, <2>1, HeapParts, NodeKind DEF LiveIds
    <3> HIDE DEF n
    <3> QED
      BY <1>3, <2>1, <3>1
  <2>3. idx \in 0..(m - 1)
    <3>1. j \in Nat
      BY <1>2, <1>4
    <3> HIDE DEF j
    <3>2. j \in 0..m
      BY <1>1, <2>1, <3>1, ChildInUse
    <3> HIDE DEF m
    <3> QED
      BY <1>2, <1>4, <3>2 DEF j
  <2> QED
    BY <2>2, <2>3, BorrowsFromRight
<1>9. ASSUME idx > 0
      PROVE  Reworked(h, Merge(h, id, idx - 1), R, lvl, top, id)
  <2> DEFINE j == idx - 1
  <2>1. j \in 0..(m - 1)
    <3> HIDE DEF m
    <3> QED
      BY <1>2, <1>4, <1>9
  <2> HIDE DEF j
  <2>2. Reworked(h, Merge(h, id, j), R, lvl, top, id)
    BY <2>1, MergeReworks
  <2> QED
    BY <2>2 DEF j
<1>10. ASSUME idx = 0, Live(h, ChildAt(node, 1))
       PROVE  Reworked(h, Merge(h, id, idx), R, lvl, top, id)
  <2>1. 1 \in 0..m
    BY <1>1, <1>10, ChildInUse
  <2>2. idx \in 0..(m - 1)
    <3> HIDE DEF m
    <3> QED
      BY <1>2, <1>10, <2>1
  <2> QED
    BY <2>2, MergeReworks
<1> HIDE DEF left, right, new
<1>11. idx > 0 \/ idx = 0
  BY <1>4
<1>12. Reworked(h, new, R, lvl, top, id)
  BY <1>5, <1>6, <1>7, <1>8, <1>9, <1>10, <1>11
<1> QED
  BY <1>12 DEF new

\* What a deletion under node id leaves.
ErasePost(h, R, lvl, top, id, r) ==
  /\ r.status \in {"OK", "NotFound"}
  /\ r.status = "OK" => r.first \in Nat /\ Reworked(h, r.heap, R, lvl, top, id)

\* The deletion in a leaf.
LEMMA ErasesFromLeaf ==
  ASSUME NEW h, NEW R, NEW lvl, NEW top \in Nat, Forest(h, R, lvl, top),
         NEW id \in LiveIds(h), h.nodes[id].leaf, NEW k \in Nat, NEW isRoot
  PROVE  ErasePost(h, R, lvl, top, id, EraseFromLeaf(h, id, isRoot, k))
<1> DEFINE leaf == h.nodes[id]
           m == Len(leaf.keys)
           n == m - 1
           lk == leaf.keys
           lv == leaf.vals
           pos == LowerBound(lk, k)
           p == pos + 1
           ks == RemoveAt(lk, p)
           vs == RemoveAt(lv, p)
           next == leaf.next
           fewer == Leaf(ks, vs, next)
           after == SetNode(h, id, fewer)
           r == EraseFromLeaf(h, id, isRoot, k)
<1>1. leaf \in LeafNodes /\ KidsOf(leaf) = {}
  BY ForestNodes, LeafParts
<1>2. m \in Nat /\ lk \in Vectors(Nat, m) /\ lv \in Vectors(Value, m) /\ next \in Nat
  BY <1>1, LeafParts
<1>3. pos \in 0..m
  <2> HIDE DEF lk, m
  <2> QED
    BY <1>2, LowerBoundRange
<1>4. /\ ~Holds(lk, pos, k) => r.status = "NotFound"
      /\ Holds(lk, pos, k) => r.status = "OK" /\ r.heap = after /\ r.first = FirstKey(after, id)
  BY DEF EraseFromLeaf, EraseFailed, Erased
<1>5. CASE ~Holds(lk, pos, k)
  <2> HIDE DEF r
  <2>1. r.status = "NotFound"
    BY <1>4, <1>5
  <2>2. ErasePost(h, R, lvl, top, id, r)
    BY <2>1 DEF ErasePost
  <2> QED
    BY <2>2 DEF r
<1>6. CASE Holds(lk, pos, k)
  <2>1. pos < m
    BY <1>6 DEF Holds
  <2> HIDE DEF m, pos, lk, lv, next
  <2>2. p \in 1..m /\ n \in Nat
    BY <1>2, <1>3, <2>1
  <2> HIDE DEF p
  <2>3. ks \in Vectors(Nat, n) /\ vs \in Vectors(Value, n)
    <3>1. \E e : e \in Value
      <4>1. lv[p] \in Value
        BY <1>2, <2>2, ElementOfVector
      <4> QED
        BY <4>1
    <3>2. 0 \in Nat
      OBVIOUS
    <3> QED
      BY <1>2, <2>2, <3>1, <3>2, EditVector
  <2> HIDE DEF n, ks, vs
  <2>4. fewer \in LeafNodes /\ KidsOf(fewer) = {}
    BY <1>2, <2>2, <2>3, LeafMade
  <2> HIDE DEF fewer
  <2>5. fewer \in TreeNodes /\ KidsOf(fewer) = KidsOf(h.nodes[id])
    BY <1>1, <2>4 DEF TreeNodes
  <2>6. Forest(after, R, lvl, top)
    BY <2>5, ForestSet
  <2>7. /\ LiveIds(after) = LiveIds(h)
        /\ \A i \in LiveIds(h) \ {id} : after.nodes[i] = h.nodes[i]
    BY <2>5, NodeSet DEF Forest
  <2> HIDE DEF after
  <2>8. Kept(h, after, lvl, id)
    BY <2>7 DEF Kept
  <2>9. FirstKey(after, id) \in Nat
    BY <2>6, <2>7, FirstKeys
  <2> HIDE DEF r
  <2>10. ErasePost(h, R, lvl, top, id, r)
    BY <1>4, <1>6, <2>6, <2>8, <2>9 DEF ErasePost, Reworked
  <2> QED
    BY <2>10 DEF r
<1> QED
  BY <1>5, <1>6

\* Work under a node, twice.
LEMMA ReworkedTwice ==
  ASSUME NEW f, NEW R, NEW lvl, NEW top, Forest(f, R, lvl, top), NEW g, NEW h, NEW id \in LiveIds(f),
         Reworked(f, g, R, lvl, top, id), Reworked(g, h, R, lvl, top, id)
  PROVE  Reworked(f, h, R, lvl, top, id)
<1>1. \A n \in LiveIds(f) : lvl[n] \in Nat
  BY ForestNodes
<1>2. lvl[id] \in Nat /\ lvl[id] >= lvl[id]
  BY <1>1
<1>3. Kept(f, g, lvl, id) /\ Kept(g, h, lvl, id) /\ Forest(h, R, lvl, top)
  BY DEF Reworked
<1>4. Kept(f, h, lvl, id)
  BY <1>1, <1>2, <1>3, KeptTwice
<1> QED
  BY <1>3, <1>4 DEF Reworked

\* Work under a child, then under the node.
LEMMA ReworkedBelow ==
  ASSUME NEW f, NEW R, NEW lvl, NEW top, Forest(f, R, lvl, top), NEW g, NEW h, NEW id \in LiveIds(f),
         NEW c \in KidsOf(f.nodes[id]),
         Reworked(f, g, R, lvl, top, c), Reworked(g, h, R, lvl, top, id)
  PROVE  Reworked(f, h, R, lvl, top, id)
<1>1. \A n \in LiveIds(f) : lvl[n] \in Nat
  BY ForestNodes
<1>2. c \in LiveIds(f) /\ lvl[id] = lvl[c] + 1
  BY ForestNodes
<1>3. lvl[id] \in Nat /\ lvl[c] \in Nat
  BY <1>1, <1>2
<1>4. lvl[id] >= lvl[c] /\ lvl[id] > lvl[c]
  BY <1>2, <1>3
<1>5. Kept(f, g, lvl, c) /\ Kept(g, h, lvl, id) /\ Forest(h, R, lvl, top)
  BY DEF Reworked
<1>6. Kept(f, h, lvl, id)
  BY <1>1, <1>3, <1>4, <1>5, KeptTwice
<1> QED
  BY <1>5, <1>6 DEF Reworked

\* The refreshing of the separators, and what it leaves.
LEMMA RefreshReworks ==
  ASSUME NEW h, NEW R, NEW lvl, NEW top \in Nat, Forest(h, R, lvl, top), NEW id \in LiveIds(h),
         ~h.nodes[id].leaf
  PROVE  Reworked(h, Refreshed(h, id), R, lvl, top, id)
<1>1. Reworked(h, h, R, lvl, top, id)
  BY DEF Reworked, Kept
<1>2. Tweaked(h, h, R, lvl, top, id, h.nodes[id].children)
  BY <1>1, ReworkedParts
<1>3. Tweaked(h, Refreshed(h, id), R, lvl, top, id, h.nodes[id].children)
  BY <1>2, RefreshTweaks
<1> QED
  BY <1>1, <1>3, TweakReworks

\* The deletion under an internal node, given the outcome below its child.
LEMMA ErasesUnder ==
  ASSUME NEW h, NEW R, NEW lvl, NEW top \in Nat, Forest(h, R, lvl, top), NEW id \in LiveIds(h),
         ~h.nodes[id].leaf, NEW c \in KidsOf(h.nodes[id]), NEW idx \in 0..Len(h.nodes[id].keys),
         NEW isRoot, NEW below, ErasePost(h, R, lvl, top, c, below), maxKeys \in Nat, maxKeys >= 3
  PROVE  ErasePost(h, R, lvl, top, id, EraseUnder(id, isRoot, idx, below))
<1> DEFINE node == h.nodes[id]
           m == Len(node.keys)
           g == below.heap
           first == below.first
           linked == SetSeparator(g, id, idx, first)
           balanced == IF below.underflow THEN Rebalanced(linked, id, idx) ELSE linked
           after == Refreshed(balanced, id)
           r == EraseUnder(id, isRoot, idx, below)
<1>1. /\ below.status # "OK" => r = below
      /\ below.status = "OK" => r.status = "OK" /\ r.heap = after /\ r.first = FirstKey(after, id)
  BY DEF EraseUnder, Erased
<1>2. CASE below.status # "OK"
  <2> HIDE DEF r
  <2>1. r = below /\ below.status \in {"OK", "NotFound"}
    BY <1>1, <1>2 DEF ErasePost
  <2>2. ErasePost(h, R, lvl, top, id, r)
    BY <1>2, <2>1 DEF ErasePost
  <2> QED
    BY <2>2 DEF r
<1>3. CASE below.status = "OK"
  <2>1. first \in Nat /\ Reworked(h, g, R, lvl, top, c)
    BY <1>3 DEF ErasePost
  <2> HIDE DEF first, g
  <2>2. c \in LiveIds(h) /\ lvl[id] = lvl[c] + 1 /\ lvl[c] \in Nat /\ lvl[id] \in Nat /\ c # id
    <3>1. c \in LiveIds(h) /\ lvl[id] = lvl[c] + 1 /\ c # id
      BY ForestNodes
    <3>2. lvl[c] \in Nat /\ lvl[id] \in Nat
      BY <3>1, ForestNodes
    <3> QED
      BY <3>1, <3>2
  <2>3. Forest(g, R, lvl, top) /\ id \in LiveIds(g) /\ g.nodes[id] = node
    <3>1. lvl[id] >= lvl[c]
      BY <2>2
    <3> QED
      BY <2>1, <2>2, <3>1 DEF Reworked, Kept
  <2>4. ~g.nodes[id].leaf
    BY <2>3
  <2>5. node \in InnerNodes
    BY ForestNodes
  <2>6. m \in Nat /\ Len(node.children) = m + 1 /\ idx \in 0..m
    BY <2>5, InnerParts
  <2>7. Reworked(g, g, R, lvl, top, id)
    BY <2>3 DEF Reworked, Kept
  <2>8. Tweaked(g, g, R, lvl, top, id, node.children)
    BY <2>3, <2>4, <2>7, ReworkedParts
  <2>9. Tweaked(g, linked, R, lvl, top, id, node.children)
    <3>1. idx \in 0..(Len(node.children) - 1)
      <4> HIDE DEF m
      <4> QED
        BY <2>6
    <3> QED
      BY <2>1, <2>3, <2>8, <3>1, SeparatorSet
  <2>10. Reworked(g, linked, R, lvl, top, id)
    BY <2>7, <2>9, TweakReworks
  <2> HIDE DEF linked
  <2>11. /\ Forest(linked, R, lvl, top) /\ id \in LiveIds(linked) /\ ~linked.nodes[id].leaf
         /\ linked.nodes[id].children = node.children /\ linked.nodes[id] \in InnerNodes
    BY <2>3, <2>4, <2>9, <2>10, ReworkedParts DEF Tweaked
  <2>12. idx \in 0..Len(linked.nodes[id].keys)
    <3> DEFINE x == linked.nodes[id]
               q == Len(x.keys)
    <3>1. q \in Nat /\ Len(x.children) = q + 1
      BY <2>11, InnerParts
    <3>2. q + 1 = m + 1
      BY <2>6, <2>11, <3>1
    <3> HIDE DEF q, m
    <3>3. idx \in 0..q
      BY <2>6, <3>1, <3>2
    <3> QED
      BY <3>3 DEF q
  <2>13. Reworked(linked, balanced, R, lvl, top, id)
    <3>1. Reworked(linked, linked, R, lvl, top, id)
      BY <2>11 DEF Reworked, Kept
    <3>2. Reworked(linked, Rebalanced(linked, id, idx), R, lvl, top, id)
      BY <2>11, <2>12, RebalanceReworks
    <3> QED
      BY <3>1, <3>2
  <2> HIDE DEF balanced
  <2>14. Forest(balanced, R, lvl, top) /\ id \in LiveIds(balanced) /\ ~balanced.nodes[id].leaf
    BY <2>11, <2>13, ReworkedParts
  <2>15. Reworked(balanced, after, R, lvl, top, id)
    BY <2>14, RefreshReworks
  <2> HIDE DEF after
  <2>16. Forest(after, R, lvl, top) /\ id \in LiveIds(after)
    BY <2>14, <2>15, ReworkedParts
  <2>17. FirstKey(after, id) \in Nat
    BY <2>16, FirstKeys
  <2>18. Reworked(g, balanced, R, lvl, top, id)
    BY <2>3, <2>10, <2>13, ReworkedTwice
  <2>19. Reworked(g, after, R, lvl, top, id)
    BY <2>3, <2>15, <2>18, ReworkedTwice
  <2>20. Reworked(h, after, R, lvl, top, id)
    BY <2>1, <2>19, ReworkedBelow
  <2> HIDE DEF r
  <2>21. ErasePost(h, R, lvl, top, id, r)
    BY <1>1, <1>3, <2>17, <2>20 DEF ErasePost
  <2> QED
    BY <2>21 DEF r
<1> QED
  BY <1>2, <1>3

EraseBody(h, root, k, f, n) ==
  IF ~Live(h, n) THEN EraseFailed(h, "InternalError")
  ELSE IF h.nodes[n].leaf THEN EraseFromLeaf(h, n, n = root, k)
  ELSE EraseUnder(n, n = root, Turn(h, n, k), f[ChildAt(h.nodes[n], Turn(h, n, k))])

ErasesBy(f, h, root, k) == f = [n \in Ids(h) |-> EraseBody(h, root, k, f, n)]

\* Erase at a node depends on its outcome on lower levels only.
LEMMA EraseDescends ==
  ASSUME NEW h, NEW R, NEW lvl, NEW top \in Nat, Forest(h, R, lvl, top), NEW k \in Nat, NEW root,
         NEW n \in Ids(h), NEW f, NEW g,
         \A c \in Ids(h) : Rank(h, lvl, c) < Rank(h, lvl, n) => f[c] = g[c]
  PROVE  EraseBody(h, root, k, f, n) = EraseBody(h, root, k, g, n)
<1>1. CASE ~Live(h, n) \/ h.nodes[n].leaf
  BY <1>1 DEF EraseBody
<1>2. CASE Live(h, n) /\ ~h.nodes[n].leaf
  <2> DEFINE i == Turn(h, n, k)
             c == ChildAt(h.nodes[n], i)
  <2>1. n \in LiveIds(h)
    BY <1>2, Ranks
  <2>2. i \in 0..Len(h.nodes[n].keys)
    BY <1>2, <2>1, TurnRange
  <2> HIDE DEF i
  <2>3. c \in Ids(h) /\ Rank(h, lvl, n) = Rank(h, lvl, c) + 1
    BY <1>2, <2>1, <2>2, WayDown
  <2>4. Rank(h, lvl, c) \in Nat
    BY <2>3, Ranks
  <2>5. Rank(h, lvl, c) < Rank(h, lvl, n)
    BY <2>3, <2>4
  <2>6. f[c] = g[c]
    BY <2>3, <2>5
  <2> QED
    BY <2>6 DEF EraseBody, i
<1> QED
  BY <1>1, <1>2

\* So the recursion of Erase defines a function.
LEMMA EraseExists ==
  ASSUME NEW h, NEW R, NEW lvl, NEW top \in Nat, Forest(h, R, lvl, top), NEW k \in Nat, NEW root
  PROVE  \E f : ErasesBy(f, h, root, k)
<1> DEFINE D == Ids(h)
           Rk(n) == Rank(h, lvl, n)
           Body(f, n) == EraseBody(h, root, k, f, n)
           Good(f, m) == \A n \in D : Rk(n) < m => f[n] = Body(f, n)
           S == {m \in Nat : \E f : f = [n \in D |-> f[n]] /\ Good(f, m)}
<1>1. \A n \in D : Rk(n) \in Nat /\ Rk(n) <= top
  BY Ranks
<1>2. ASSUME NEW n \in D, NEW f, NEW g, \A c \in D : Rk(c) < Rk(n) => f[c] = g[c]
      PROVE  Body(f, n) = Body(g, n)
  BY <1>2, EraseDescends
<1> HIDE DEF D, Rk, Body
<1>3. 0 \in S
  <2> DEFINE f == [n \in D |-> 0]
  <2>1. f = [n \in D |-> f[n]]
    OBVIOUS
  <2> HIDE DEF f
  <2>2. Good(f, 0)
    BY <1>1
  <2> QED
    BY <2>1, <2>2
<1>4. ASSUME NEW m \in Nat, m \in S PROVE m + 1 \in S
  <2>1. PICK g : g = [n \in D |-> g[n]] /\ Good(g, m)
    BY <1>4
  <2> DEFINE f == [n \in D |-> IF Rk(n) < m THEN g[n] ELSE Body(g, n)]
  <2>2. f = [n \in D |-> f[n]]
    OBVIOUS
  <2>3. \A n \in D : (Rk(n) < m => f[n] = g[n]) /\ f[n] = Body(g, n)
    BY <2>1
  <2> HIDE DEF f
  <2>4. ASSUME NEW n \in D, Rk(n) < m + 1 PROVE f[n] = Body(f, n)
    <3>1. \A c \in D : Rk(c) < Rk(n) => f[c] = g[c]
      BY <1>1, <2>3, <2>4
    <3>2. Body(f, n) = Body(g, n)
      BY <1>2, <3>1
    <3> QED
      BY <2>3, <3>2
  <2>5. Good(f, m + 1)
    BY <2>4
  <2> HIDE DEF Good
  <2> QED
    BY <2>2, <2>5
<1>5. top + 1 \in S
  <2> HIDE DEF S
  <2>1. Nat \subseteq S
    BY <1>3, <1>4, SetInduction
  <2> QED
    BY <2>1
<1>6. PICK f : f = [n \in D |-> f[n]] /\ Good(f, top + 1)
  BY <1>5
<1>7. \A n \in D : f[n] = Body(f, n)
  BY <1>1, <1>6
<1>8. f = [n \in D |-> Body(f, n)]
  BY <1>6, <1>7
<1> QED
  BY <1>8 DEF D, Body, ErasesBy

\* Erase is that function.
LEMMA EraseUnfolds ==
  ASSUME NEW h, NEW R, NEW lvl, NEW top \in Nat, Forest(h, R, lvl, top), NEW k \in Nat, NEW root
  PROVE  \E f : /\ Erase(h, root, k) = f[root]
                /\ \A n \in Ids(h) : f[n] = EraseBody(h, root, k, f, n)
<1> DEFINE Body(f) == [n \in Ids(h) |->
             IF ~Live(h, n) THEN EraseFailed(h, "InternalError")
             ELSE IF h.nodes[n].leaf THEN EraseFromLeaf(h, n, n = root, k)
             ELSE EraseUnder(n, n = root, UpperBound(h.nodes[n].keys, k),
                             f[ChildAt(h.nodes[n], UpperBound(h.nodes[n].keys, k))])]
           It == CHOOSE f : f = Body(f)
<1>1. Erase(h, root, k) = It[root]
  BY DEF Erase
<1>2. \A f : Body(f) = [n \in Ids(h) |-> EraseBody(h, root, k, f, n)]
  BY DEF EraseBody, Turn
<1> HIDE DEF Body
<1>3. \E f : f = Body(f)
  <2>1. PICK f : ErasesBy(f, h, root, k)
    BY EraseExists
  <2>2. f = Body(f)
    BY <1>2, <2>1 DEF ErasesBy
  <2> QED
    BY <2>2
<1>4. It = Body(It)
  BY <1>3
<1> HIDE DEF It
<1>5. \A n \in Ids(h) : It[n] = EraseBody(h, root, k, It, n)
  BY <1>2, <1>4
<1> QED
  BY <1>1, <1>5

\* The deletion in the whole tree.
LEMMA Erases ==
  ASSUME NEW h, NEW R, NEW lvl, NEW top \in Nat, Forest(h, R, lvl, top),
         NEW k \in Nat, NEW root \in LiveIds(h), maxKeys \in Nat, maxKeys >= 3
  PROVE  ErasePost(h, R, lvl, top, root, Erase(h, root, k))
<1> DEFINE L == LiveIds(h)
<1>1. PICK f : /\ Erase(h, root, k) = f[root]
               /\ \A n \in Ids(h) : f[n] = EraseBody(h, root, k, f, n)
  BY EraseUnfolds
<1>2. L \subseteq Ids(h) /\ \A n \in L : Live(h, n)
  BY Ranks
<1>3. \A n \in L : lvl[n] \in Nat
  BY ForestNodes
<1> DEFINE Post(n) == ErasePost(h, R, lvl, top, n, f[n])
           S == {m \in Nat : \A n \in L : lvl[n] < m => Post(n)}
<1>4. 0 \in S
  BY <1>3
<1>5. ASSUME NEW m \in Nat, m \in S PROVE m + 1 \in S
  <2> SUFFICES ASSUME NEW n \in L, lvl[n] < m + 1 PROVE Post(n)
    OBVIOUS
  <2>1. f[n] = EraseBody(h, root, k, f, n) /\ Live(h, n)
    BY <1>1, <1>2
  <2> DEFINE isRoot == n = root
  <2>2. CASE h.nodes[n].leaf
    <3>1. f[n] = EraseFromLeaf(h, n, isRoot, k)
      BY <2>1, <2>2 DEF EraseBody
    <3> HIDE DEF isRoot
    <3>2. ErasePost(h, R, lvl, top, n, EraseFromLeaf(h, n, isRoot, k))
      BY <2>2, ErasesFromLeaf
    <3> QED
      BY <3>1, <3>2
  <2>3. CASE ~h.nodes[n].leaf
    <3> DEFINE i == Turn(h, n, k)
               c == ChildAt(h.nodes[n], i)
    <3>1. i \in 0..Len(h.nodes[n].keys)
      BY <2>3, TurnRange
    <3>2. f[n] = EraseUnder(n, isRoot, i, f[c])
      BY <2>1, <2>3 DEF EraseBody
    <3> HIDE DEF i, isRoot
    <3>3. c \in KidsOf(h.nodes[n])
      BY <2>3, <3>1, WayDown
    <3> HIDE DEF c
    <3>4. c \in L /\ lvl[n] = lvl[c] + 1 /\ lvl[c] \in Nat
      BY <3>3, ForestNodes
    <3>5. lvl[c] < m
      BY <1>3, <3>4
    <3>6. Post(c)
      BY <1>5, <3>4, <3>5
    <3> DEFINE below == f[c]
    <3>a. ErasePost(h, R, lvl, top, c, below)
      BY <3>6
    <3> HIDE DEF below
    <3>7. ErasePost(h, R, lvl, top, n, EraseUnder(n, isRoot, i, below))
      BY <2>3, <3>1, <3>3, <3>a, ErasesUnder
    <3> QED
      BY <3>2, <3>7 DEF below
  <2> QED
    BY <2>2, <2>3
<1>6. lvl[root] + 1 \in S
  <2>1. lvl[root] + 1 \in Nat
    BY <1>3
  <2> HIDE DEF S
  <2>2. Nat \subseteq S
    BY <1>4, <1>5, SetInduction
  <2> QED
    BY <2>1, <2>2
<1>7. Post(root)
  BY <1>3, <1>6
<1> QED
  BY <1>1, <1>7

\* A node with one child has nothing else under it.
LEMMA OnlyChild ==
  ASSUME NEW x \in InnerNodes, Len(x.children) = 1
  PROVE  KidsOf(x) = {Head(x.children)}
<1> DEFINE m == Len(x.keys)
           n == m + 1
           A == KidsOf(x)
           s == x.children
<1>1. m \in Nat /\ s \in Lists(Nat, n, A) /\ Len(s) = n
  BY InnerParts
<1>2. n = 1 /\ 1 \in Nat
  BY <1>1
<1> HIDE DEF m, n, A, s
<1>3. s \in Lists(Nat, 1, A)
  BY <1>1, <1>2
<1>4. s \in Seq(Nat) /\ Len(s) = 1
  BY <1>3 DEF Lists, Vectors
<1>5. Head(s) = s[1]
  BY <1>4
<1>6. 1 \in 1..1 /\ \A i \in 1..1 : i = 1
  OBVIOUS
<1>7. s[1] \in A /\ \A e \in A : \E i \in 1..1 : s[i] = e
  <2>1. ToSet(s) = A /\ DOMAIN s = 1..1
    BY <1>3, <1>4, LenProperties DEF Lists
  <2> QED
    BY <1>6, <2>1 DEF ToSet
<1>8. A = {s[1]}
  BY <1>6, <1>7
<1> QED
  BY <1>5, <1>8 DEF A, s

\* The root gives way to its only child.
LEMMA RootShrinks ==
  ASSUME NEW h, NEW lvl, NEW top \in Nat, NEW root, Forest(h, {root}, lvl, top), lvl[root] = top,
         NEW heir, ~h.nodes[root].leaf, KidsOf(h.nodes[root]) = {heir}
  PROVE  /\ Freed(h, root) \in GoodHeaps /\ heir \in Nat /\ top > 0
         /\ h.nodes[heir].leaf \in BOOLEAN
         /\ Standing(Freed(h, root), heir, h.nodes[heir].leaf, top)
<1> DEFINE L == LiveIds(h)
           K == KidMap(h)
           g == Freed(h, root)
           K2 == KidMap(g)
           M == L \ {root}
<1>1. h \in GoodHeaps /\ lvl \in [Nat -> Nat] /\ Shape(L, K, lvl, {root}, top)
  BY DEF Forest
<1>2. root \in L
  BY <1>1 DEF Shape
<1>3. heir \in L /\ heir # root /\ lvl[root] = lvl[heir] + 1
  BY <1>2, ForestNodes
<1>4. heir \in Nat /\ lvl[heir] \in Nat /\ h.nodes[heir].leaf \in BOOLEAN
  BY <1>3, ForestNodes
<1>5. g \in GoodHeaps /\ LiveIds(g) = M /\ \A n \in M : g.nodes[n] = h.nodes[n]
  BY <1>1, <1>2, NodeFreed
<1> HIDE DEF g
<1>6. K[root] = {heir} /\ \A n \in M : K2[n] = K[n]
  BY <1>2, <1>5 DEF KidMap
<1> HIDE DEF K, K2
<1>7. Shape(M, K2, lvl, {heir}, top - 1)
  <2>1. Uprooted(L, K, root, heir, K2)
    BY <1>6 DEF Uprooted
  <2> QED
    BY <1>1, <2>1, Uproots
<1>8. Forest(g, {heir}, lvl, top - 1)
  BY <1>1, <1>5, <1>7 DEF Forest, K2
<1>9. top > 0 /\ lvl[heir] = top - 1
  BY <1>3, <1>4
<1>10. g.nodes[heir] = h.nodes[heir]
  BY <1>3, <1>5
<1>11. Standing(g, heir, h.nodes[heir].leaf, top)
  <2>1. h.nodes[heir].leaf = g.nodes[heir].leaf
    BY <1>10
  <2>2. \E l : Forest(g, {heir}, l, top - 1) /\ l[heir] = top - 1
    BY <1>8, <1>9
  <2> QED
    BY <2>1, <2>2 DEF Standing
<1> QED
  BY <1>4, <1>5, <1>9, <1>11 DEF g

\* The root is replaced by its only child, or stays.
LEMMA CollapseKeepsTree ==
  ASSUME NEW t, Tree(t)
  PROVE  Tree(Collapsed(t))
<1> DEFINE h == t.heap
           root == t.rootId
           node == h.nodes[root]
           heir == Head(node.children)
           top == t.height - 1
           lower == IF t.height > 1 THEN t.height - 1 ELSE t.height
           g == Freed(h, root)
           kind == h.nodes[heir].leaf
           u == [t EXCEPT !.rootId = heir, !.rootIsLeaf = kind, !.height = lower, !.heap = g]
<1>1. /\ h \in GoodHeaps /\ root \in Nat /\ t.rootIsLeaf \in BOOLEAN
      /\ t.size \in Nat /\ t.height \in Nat \ {0} /\ top \in Nat /\ t.status \in Outcomes
      /\ root \in LiveIds(h) /\ t \in TreeRecords
      /\ Standing(h, root, t.rootIsLeaf, t.height)
  BY TreeParts DEF Tree
<1>2. Collapsed(t) = IF t.rootIsLeaf \/ Len(node.children) > 1 THEN t
                     ELSE IF node.children = << >> THEN Emptied(t) ELSE u
  BY DEF Collapsed
<1>3. CASE t.rootIsLeaf \/ Len(node.children) > 1
  BY <1>1, <1>2, <1>3
<1>4. CASE ~(t.rootIsLeaf \/ Len(node.children) > 1)
  <2>1. PICK lvl : Forest(h, {root}, lvl, top) /\ lvl[root] = top
    BY <1>1 DEF Standing
  <2>2. ~node.leaf
    BY <1>1, <1>4 DEF Standing
  <2>3. node \in InnerNodes
    BY <1>1, <2>1, <2>2, ForestNodes
  <2>10. Len(node.children) = 1 /\ node.children # << >>
    <3> DEFINE m == Len(node.keys)
               s == node.children
    <3>1. m \in Nat /\ Len(s) = m + 1
      BY <2>3, InnerParts
    <3>2. ~(Len(s) > 1)
      BY <1>4
    <3> HIDE DEF m, s
    <3>3. Len(s) = 1
      BY <3>1, <3>2
    <3>4. s # << >>
      BY <3>3
    <3> QED
      BY <3>3, <3>4 DEF s
  <2>4. KidsOf(node) = {heir}
    BY <2>10, <2>3, OnlyChild
  <2>9. Collapsed(t) = u
    BY <1>2, <1>4, <2>10
  <2> HIDE DEF heir, top, h, root
  <2>5. g \in GoodHeaps /\ heir \in Nat /\ top > 0 /\ kind \in BOOLEAN /\ Standing(g, heir, kind, top)
    BY <1>1, <2>1, <2>2, <2>4, RootShrinks
  <2>6. lower = top /\ top \in Nat \ {0}
    BY <1>1, <2>5 DEF top
  <2> HIDE DEF g, kind, lower
  <2>7. /\ u \in TreeRecords /\ u.heap = g /\ u.rootId = heir
        /\ u.rootIsLeaf = kind /\ u.height = top
    BY <1>1, <2>5, <2>6 DEF TreeRecords
  <2> HIDE DEF u
  <2>8. Tree(u)
    BY <2>5, <2>7 DEF Tree
  <2> QED
    BY <2>8, <2>9
<1> QED
  BY <1>3, <1>4

\* Delete.
LEMMA DeleteKeepsTree ==
  ASSUME NEW t, Tree(t), NEW k \in Nat, maxKeys \in Nat, maxKeys >= 3
  PROVE  Tree(AfterDelete(t, k))
<1> DEFINE h == t.heap
           root == t.rootId
           top == t.height - 1
           done == Erase(h, root, k)
           g == done.heap
           missed == [t EXCEPT !.status = "NotFound"]
           failed == [t EXCEPT !.status = done.status]
           u == [t EXCEPT !.heap = g, !.size = @ - 1, !.status = "OK"]
<1>1. /\ h \in GoodHeaps /\ root \in Nat /\ t.rootIsLeaf \in BOOLEAN
      /\ t.size \in Nat /\ t.height \in Nat \ {0} /\ top \in Nat /\ t.status \in Outcomes
      /\ root \in LiveIds(h) /\ t \in TreeRecords
      /\ Standing(h, root, t.rootIsLeaf, t.height)
  BY TreeParts DEF Tree
<1>2. AfterDelete(t, k) = IF t.size = 0 THEN missed
                          ELSE IF done.status # "OK" THEN failed ELSE Collapsed(u)
  BY DEF AfterDelete
<1>3. PICK lvl : Forest(h, {root}, lvl, top) /\ lvl[root] = top
  BY <1>1 DEF Standing
<1> HIDE DEF top
<1>4. ErasePost(h, {root}, lvl, top, root, done)
  <2> HIDE DEF h, root
  <2> QED
    BY <1>1, <1>3, Erases
<1> HIDE DEF done
<1>5. ASSUME NEW s \in Outcomes PROVE Tree([t EXCEPT !.status = s])
  <2> DEFINE w == [t EXCEPT !.status = s]
  <2>1. /\ w \in TreeRecords /\ w.heap = t.heap /\ w.rootId = t.rootId
        /\ w.rootIsLeaf = t.rootIsLeaf /\ w.height = t.height
    BY <1>1 DEF TreeRecords
  <2> HIDE DEF w
  <2>2. Tree(w)
    BY <1>1, <2>1 DEF Tree, h, root
  <2> QED
    BY <2>2 DEF w
<1>6. CASE t.size = 0
  <2>1. "NotFound" \in Outcomes
    BY DEF Outcomes
  <2>2. Tree(missed)
    BY <1>5, <2>1
  <2> QED
    BY <1>2, <1>6, <2>2
<1>7. CASE t.size # 0 /\ done.status # "OK"
  <2>1. done.status \in Outcomes
    BY <1>4 DEF ErasePost, Outcomes
  <2>2. Tree(failed)
    BY <1>5, <2>1
  <2> QED
    BY <1>2, <1>7, <2>2
<1>8. CASE t.size # 0 /\ done.status = "OK"
  <2>1. Forest(g, {root}, lvl, top) /\ Kept(h, g, lvl, root)
    BY <1>4, <1>8 DEF ErasePost, Reworked
  <2>2. root \in LiveIds(g)
    <3>1. lvl[root] >= lvl[root]
      BY <1>1, <1>3
    <3> QED
      BY <1>1, <2>1, <3>1 DEF Kept
  <2>3. g \in GoodHeaps
    BY <2>1 DEF Forest
  <2> HIDE DEF g, h, root
  <2>4. g.nodes[root].leaf = h.nodes[root].leaf
    BY <1>1, <1>3, <2>1, <2>2, SameKind
  <2>5. t.rootIsLeaf = h.nodes[root].leaf
    BY <1>1 DEF Standing
  <2>6. Standing(g, root, t.rootIsLeaf, t.height)
    BY <1>3, <2>1, <2>4, <2>5 DEF Standing, top
  <2>7. t.size - 1 \in Nat
    BY <1>1, <1>8
  <2>8. /\ u \in TreeRecords /\ u.heap = g /\ u.rootId = t.rootId
        /\ u.rootIsLeaf = t.rootIsLeaf /\ u.height = t.height
    BY <1>1, <2>3, <2>7 DEF TreeRecords, Outcomes
  <2> HIDE DEF u
  <2>9. Tree(u)
    BY <2>6, <2>8 DEF Tree, root
  <2> QED
    BY <1>2, <1>8, <2>9, CollapseKeepsTree
<1> QED
  BY <1>6, <1>7, <1>8

\* The tree of the constructor: a root that is an empty leaf.
LEMMA NewTreeIsTree == Tree(NewTree)
<1> DEFINE e == EmptyHeap
           x == Leaf(<< >>, << >>, 0)
           h == Allocated(e, x)
           lvl == [n \in Nat |-> 0]
<1>1. e \in GoodHeaps /\ LiveIds(e) = {} /\ NewId(e) = 1
  <2>1. e.nodes = << >> /\ e.freeList = << >> /\ e.nodeCount = 0 /\ e = HeapOf(<< >>, << >>, 0)
    BY DEF EmptyHeap, HeapOf
  <2>2. DOMAIN << >> = {} /\ Len(<< >>) = 0
    OBVIOUS
  <2>3. LiveIds(e) = {}
    BY <2>1, <2>2 DEF LiveIds
  <2>4. NewId(e) = 1
    BY <2>1, <2>2 DEF NewId
  <2>5. << >> \in Lists(Nat, 0, {})
    <3>1. << >> \in Vectors(Nat, 0)
      BY DEF Vectors
    <3> QED
      BY <2>2, <3>1 DEF Lists, ToSet, IsInjective
  <2>6. Cardinality({}) = 0
    BY FS_EmptySet
  <2>7. e \in Heaps
    BY DEF EmptyHeap, Heaps
  <2>8. DOMAIN e.nodes \ LiveIds(e) = {} /\ Len(e.freeList) = 0
    BY <2>1, <2>2
  <2>9. e \in GoodHeaps
    <3> HIDE DEF e
    <3> QED
      BY <2>1, <2>3, <2>5, <2>6, <2>7, <2>8 DEF GoodHeaps
  <2> QED
    BY <2>3, <2>4, <2>9
<1>2. x \in LeafNodes /\ KidsOf(x) = {}
  <2> DEFINE ks == << >>
  <2>1. ks \in Vectors(Nat, 0) /\ ks \in Vectors(Value, 0) /\ 0 \in Nat
    BY DEF Vectors
  <2> HIDE DEF ks
  <2>2. Leaf(ks, ks, 0) \in LeafNodes /\ KidsOf(Leaf(ks, ks, 0)) = {}
    BY <2>1, LeafMade
  <2> QED
    BY <2>2 DEF ks
<1> HIDE DEF e, x
<1>3. x \in TreeNodes /\ x.leaf = TRUE
  BY <1>2, LeafParts DEF TreeNodes
<1>4. h \in GoodHeaps /\ LiveIds(h) = {1} /\ h.nodes[1] = x
  <2>1. /\ h \in GoodHeaps /\ LiveIds(h) = LiveIds(e) \cup {NewId(e)}
        /\ h.nodes[NewId(e)] = x
    BY <1>1, <1>3, NodeAllocated
  <2> QED
    BY <1>1, <2>1
<1>5. NewTree = [heap |-> h, rootId |-> 1, rootIsLeaf |-> TRUE, size |-> 0, height |-> 1, status |-> "OK"]
  BY DEF NewTree, e, x
<1> HIDE DEF h
<1>6. KidMap(h)[1] = {}
  BY <1>2, <1>4 DEF KidMap
<1>7. lvl \in [Nat -> Nat] /\ lvl[1] = 0
  OBVIOUS
<1> HIDE DEF lvl
<1> DEFINE K == KidMap(h)
<1>8. Shape({1}, K, lvl, {1}, 0)
  <2> HIDE DEF K
  <2> QED
    BY <1>6, <1>7 DEF Shape, K
<1>9. Forest(h, {1}, lvl, 0)
  BY <1>4, <1>7, <1>8 DEF Forest
<1>10. Standing(h, 1, TRUE, 1)
  BY <1>3, <1>4, <1>7, <1>9 DEF Standing
<1>11. /\ NewTree \in TreeRecords /\ NewTree.heap = h /\ NewTree.rootId = 1
       /\ NewTree.rootIsLeaf = TRUE /\ NewTree.height = 1
  BY <1>4, <1>5 DEF TreeRecords, Outcomes
<1> QED
  BY <1>10, <1>11 DEF Tree

\* Any call.
LEMMA CallKeepsTree ==
  ASSUME NEW t, Tree(t), NEW r \in Calls, maxKeys \in Nat, maxKeys >= 3
  PROVE  Tree(AfterCall(t, r))
<1>1. r.op = "put" \/ r.op = "delete"
  BY DEF Calls
<1>2. r.key \in Nat /\ (r.op = "put" => r.val \in Value)
  BY TreeAssumption DEF Calls
<1>3. CASE r.op = "put"
  <2>1. AfterCall(t, r) = AfterPut(t, r.key, r.val)
    BY <1>3 DEF AfterCall
  <2> QED
    BY <1>2, <1>3, <2>1, PutKeepsTree
<1>4. CASE r.op # "put"
  <2>1. AfterCall(t, r) = AfterDelete(t, r.key)
    BY <1>4 DEF AfterCall
  <2> QED
    BY <1>2, <2>1, DeleteKeepsTree
<1> QED
  BY <1>3, <1>4

\* One call of a preload.
CallStep(T, calling, n) ==
  [p \in T \X (Nat \ {0}) |-> IF p[2] \in 1..n THEN AfterCall(p[1], calling[p[2]]) ELSE p[1]]

\* The calls before a behaviour starts.
LEMMA PreloadKeepsTree ==
  ASSUME maxKeys \in Nat, maxKeys >= 3, NEW s \in Seq(Calls)
  PROVE  Tree(FoldLeft(AfterCall, NewTree, s))
<1> DEFINE T == {t \in TreeRecords : Tree(t)}
           n == Len(s)
           base == NewTree
           step == CallStep(T, s, n)
           Body(iter) == [u \in SUBSET (DOMAIN s) |->
                            IF u = {} THEN NewTree
                            ELSE AfterCall(iter[u \ {Max(u)}], s[Max(u)])]
           It == CHOOSE iter : iter = Body(iter)
<1>3. FoldLeft(AfterCall, NewTree, s) = It[DOMAIN s]
  BY DEF FoldLeft, MapThenFoldSet
<1>2. n \in Nat /\ DOMAIN s = 1..n /\ \A i \in 1..n : s[i] \in Calls
  <2>1. n \in Nat /\ DOMAIN s = 1..n
    BY LenProperties
  <2> QED
    BY <2>1, ElementOfSeq
<1> HIDE DEF n, base
<1>5. base \in T
  BY NewTreeIsTree DEF Tree, base
<1>6. ASSUME NEW g \in T, NEW i \in 1..n PROVE AfterCall(g, s[i]) \in T
  <2>1. Tree(g) /\ s[i] \in Calls
    BY <1>2
  <2>2. Tree(AfterCall(g, s[i]))
    BY <2>1, CallKeepsTree
  <2> QED
    BY <2>2 DEF Tree
<1> HIDE DEF T
<1>7. step \in [T \X (Nat \ {0}) -> T]
  <2>1. ASSUME NEW p \in T \X (Nat \ {0})
        PROVE  (IF p[2] \in 1..n THEN AfterCall(p[1], s[p[2]]) ELSE p[1]) \in T
    <3>1. p[1] \in T
      OBVIOUS
    <3> QED
      BY <1>6, <3>1
  <2> QED
    BY <2>1, Zenon DEF CallStep
<1>8. ASSUME NEW g \in T, NEW i \in 1..n PROVE step[<<g, i>>] = AfterCall(g, s[i])
  <2>1. <<g, i>> \in T \X (Nat \ {0})
    BY <1>2
  <2> QED
    BY <2>1 DEF CallStep
<1> HIDE DEF step
<1>9. ASSUME NEW u \in SUBSET (1..n), u # {}, NEW f, f[u \ {Max(u)}] \in T
      PROVE  step[<<f[u \ {Max(u)}], Max(u)>>] = Body(f)[u]
  <2>1. Max(u) \in 1..n
    BY <1>2, <1>9, MaxOfPositions
  <2> DEFINE g == f[u \ {Max(u)}]
             i == Max(u)
  <2>2. Body(f)[u] = AfterCall(g, s[i])
    BY <1>2, <1>9, <2>1
  <2> HIDE DEF g, i, Body
  <2>3. g \in T /\ i \in 1..n
    BY <1>9, <2>1 DEF g, i
  <2>4. step[<<g, i>>] = Body(f)[u]
    BY <1>8, <2>2, <2>3
  <2> QED
    BY <2>4 DEF g, i
<1>10. ASSUME NEW f, f = Body(f) PROVE FoldsFrom(T, f, base, step, n)
  <2>1. ASSUME NEW u \in SUBSET (1..n), u # {}, f[u \ {Max(u)}] \in T
        PROVE  f[u] = step[<<f[u \ {Max(u)}], Max(u)>>]
    <3>1. f[u] = Body(f)[u]
      BY <1>10
    <3> HIDE DEF Body
    <3> QED
      BY <1>9, <2>1, <3>1
  <2>2. f[{}] = base
    BY <1>2, <1>10 DEF base
  <2> HIDE DEF Body
  <2> QED
    BY <2>1, <2>2 DEF FoldsFrom
<1>11. PICK it \in [SUBSET (1..n) -> T] : Folds(it, base, step, n)
  BY <1>2, <1>5, <1>7, FoldsExist
<1>12. it = Body(it)
  <2>1. ASSUME NEW u \in SUBSET (1..n) PROVE it[u] = Body(it)[u]
    <3>1. CASE u = {}
      <4>1. it[u] = base
        BY <1>11, <3>1 DEF Folds
      <4> QED
        BY <1>2, <3>1, <4>1 DEF base
    <3>2. CASE u # {}
      <4>1. it[u \ {Max(u)}] \in T
        OBVIOUS
      <4>2. it[u] = step[<<it[u \ {Max(u)}], Max(u)>>]
        BY <1>11, <3>2 DEF Folds
      <4> HIDE DEF Body
      <4> QED
        BY <1>9, <3>2, <4>1, <4>2
    <3> QED
      BY <3>1, <3>2
  <2>2. Body(it) = [u \in SUBSET (1..n) |-> Body(it)[u]]
    BY <1>2
  <2> HIDE DEF Body
  <2> QED
    BY <2>1, <2>2
<1> HIDE DEF Body
<1>13. It = Body(It)
  BY <1>12
<1> HIDE DEF It
<1>14. FoldsFrom(T, It, base, step, n)
  BY <1>10, <1>13
<1>15. It[1..n] \in T
  BY <1>2, <1>5, <1>7, <1>14, FoldStays
<1> QED
  BY <1>2, <1>3, <1>15 DEF T

-----------------------------------------------------------------------------
(* The invariant.                                                          *)

\* max_keys_per_node is what the constructor makes of it, and the members
\* describe one tree.
TreeInv == maxKeys \in Nat /\ maxKeys >= 3 /\ Tree(Members)

\* TreeInv holds: whatever calls of Put and Delete have been made, the
\* heap holds one tree of the levels that height_ says, its nodes are whole,
\* and the ids out of use are on the free list once each.
THEOREM TreeInvariant == Spec => []TreeInv
<1>1. Init => TreeInv
  <2> SUFFICES ASSUME Init PROVE TreeInv
    OBVIOUS
  <2>1. maxKeys \in Nat /\ maxKeys >= 3
    <3>1. PICK n \in NodeSizes : maxKeys = IF n < 3 THEN 3 ELSE n
      BY DEF Init
    <3>2. n \in Nat
      BY TreeAssumption
    <3> QED
      BY <3>1, <3>2
  <2>2. PICK preload \in Preloads :
          \E t \in {FoldLeft(AfterCall, NewTree, preload)} :
            /\ heap = t.heap /\ rootId = t.rootId /\ rootIsLeaf = t.rootIsLeaf
            /\ size = t.size /\ height = t.height /\ status = t.status
    BY DEF Init
  <2> DEFINE t == FoldLeft(AfterCall, NewTree, preload)
  <2>3. Tree(t)
    BY <2>1, TreeAssumption, PreloadKeepsTree
  <2>4. /\ heap = t.heap /\ rootId = t.rootId /\ rootIsLeaf = t.rootIsLeaf
        /\ size = t.size /\ height = t.height /\ status = t.status
    BY <2>2
  <2> HIDE DEF t
  <2>5. t = Members
    BY <2>3, <2>4 DEF Tree, TreeRecords, Members
  <2> QED
    BY <2>1, <2>3, <2>5 DEF TreeInv
<1>2. TreeInv /\ [Next]_vars => TreeInv'
  <2> SUFFICES ASSUME TreeInv, [Next]_vars PROVE TreeInv'
    OBVIOUS
  <2>1. maxKeys \in Nat /\ maxKeys >= 3 /\ Tree(Members)
    BY DEF TreeInv
  <2>2. ASSUME NEW t, Tree(t), Become(t), maxKeys' = maxKeys PROVE TreeInv'
    <3>1. /\ heap' = t.heap /\ rootId' = t.rootId /\ rootIsLeaf' = t.rootIsLeaf
          /\ size' = t.size /\ height' = t.height /\ status' = t.status
      BY <2>2 DEF Become
    <3>2. t = Members'
      BY <2>2, <3>1 DEF Tree, TreeRecords, Members
    <3>3. Tree(Members)'
      BY <2>2, <3>2 DEF Tree, TreeRecords, Standing, Forest, GoodHeaps, Heaps, TreeNodes, LeafNodes, InnerNodes
    <3> QED
      BY <2>1, <2>2, <3>3 DEF TreeInv
  <2>3. ASSUME NEW k \in Key \cup {EmptyKey}, NEW v \in Value, Put(k, v) PROVE TreeInv'
    <3>1. k \in Nat
      BY TreeAssumption DEF EmptyKey
    <3>2. Tree(AfterPut(Members, k, v))
      BY <2>1, <3>1, PutKeepsTree
    <3> QED
      BY <2>2, <2>3, <3>2 DEF Put, Called
  <2>4. ASSUME NEW k \in Key \cup {EmptyKey}, Delete(k) PROVE TreeInv'
    <3>1. k \in Nat
      BY TreeAssumption DEF EmptyKey
    <3>2. Tree(AfterDelete(Members, k))
      BY <2>1, <3>1, DeleteKeepsTree
    <3> QED
      BY <2>2, <2>4, <3>2 DEF Delete, Called
  <2>5. CASE UNCHANGED vars
    <3>1. Members' = Members
      BY <2>5 DEF vars, Members
    <3> QED
      BY <2>1, <2>5, <3>1 DEF TreeInv, vars
  <2> QED
    BY <2>3, <2>4, <2>5 DEF Next
<1> QED
  BY <1>1, <1>2, PTL DEF Spec

DepthBody(h, f, n) ==
  IF ~Live(h, n) \/ h.nodes[n].leaf THEN 1 ELSE f[ChildAt(h.nodes[n], 0)] + 1

DepthBy(f, h) == f = [n \in Ids(h) |-> DepthBody(h, f, n)]

\* Depth at a node depends on its value on lower levels only.
LEMMA DepthDescends ==
  ASSUME NEW h, NEW R, NEW lvl, NEW top \in Nat, Forest(h, R, lvl, top),
         NEW n \in Ids(h), NEW f, NEW g,
         \A c \in Ids(h) : Rank(h, lvl, c) < Rank(h, lvl, n) => f[c] = g[c]
  PROVE  DepthBody(h, f, n) = DepthBody(h, g, n)
<1>1. CASE ~Live(h, n) \/ h.nodes[n].leaf
  BY <1>1 DEF DepthBody
<1>2. CASE Live(h, n) /\ ~h.nodes[n].leaf
  <2> DEFINE c == ChildAt(h.nodes[n], 0)
  <2>1. n \in LiveIds(h)
    BY <1>2, Ranks
  <2>2. 0 \in 0..Len(h.nodes[n].keys)
    <3>1. Len(h.nodes[n].keys) \in Nat
      BY <1>2, <2>1, ForestNodes, InnerParts
    <3> QED
      BY <3>1
  <2>3. c \in Ids(h) /\ Rank(h, lvl, n) = Rank(h, lvl, c) + 1
    BY <1>2, <2>1, <2>2, WayDown
  <2>4. Rank(h, lvl, c) \in Nat
    BY <2>3, Ranks
  <2>5. Rank(h, lvl, c) < Rank(h, lvl, n)
    BY <2>3, <2>4
  <2>6. f[c] = g[c]
    BY <2>3, <2>5
  <2> QED
    BY <2>6 DEF DepthBody
<1> QED
  BY <1>1, <1>2

\* So the recursion of Depth defines a function.
LEMMA DepthExists ==
  ASSUME NEW h, NEW R, NEW lvl, NEW top \in Nat, Forest(h, R, lvl, top)
  PROVE  \E f : DepthBy(f, h)
<1> DEFINE D == Ids(h)
           Rk(n) == Rank(h, lvl, n)
           Body(f, n) == DepthBody(h, f, n)
           Good(f, m) == \A n \in D : Rk(n) < m => f[n] = Body(f, n)
           S == {m \in Nat : \E f : f = [n \in D |-> f[n]] /\ Good(f, m)}
<1>1. \A n \in D : Rk(n) \in Nat /\ Rk(n) <= top
  BY Ranks
<1>2. ASSUME NEW n \in D, NEW f, NEW g, \A c \in D : Rk(c) < Rk(n) => f[c] = g[c]
      PROVE  Body(f, n) = Body(g, n)
  BY <1>2, DepthDescends
<1> HIDE DEF D, Rk, Body
<1>3. 0 \in S
  <2> DEFINE f == [n \in D |-> 0]
  <2>1. f = [n \in D |-> f[n]]
    OBVIOUS
  <2> HIDE DEF f
  <2>2. Good(f, 0)
    BY <1>1
  <2> QED
    BY <2>1, <2>2
<1>4. ASSUME NEW m \in Nat, m \in S PROVE m + 1 \in S
  <2>1. PICK g : g = [n \in D |-> g[n]] /\ Good(g, m)
    BY <1>4
  <2> DEFINE f == [n \in D |-> IF Rk(n) < m THEN g[n] ELSE Body(g, n)]
  <2>2. f = [n \in D |-> f[n]]
    OBVIOUS
  <2>3. \A n \in D : (Rk(n) < m => f[n] = g[n]) /\ f[n] = Body(g, n)
    BY <2>1
  <2> HIDE DEF f
  <2>4. ASSUME NEW n \in D, Rk(n) < m + 1 PROVE f[n] = Body(f, n)
    <3>1. \A c \in D : Rk(c) < Rk(n) => f[c] = g[c]
      BY <1>1, <2>3, <2>4
    <3>2. Body(f, n) = Body(g, n)
      BY <1>2, <3>1
    <3> QED
      BY <2>3, <3>2
  <2>5. Good(f, m + 1)
    BY <2>4
  <2> HIDE DEF Good
  <2> QED
    BY <2>2, <2>5
<1>5. top + 1 \in S
  <2> HIDE DEF S
  <2>1. Nat \subseteq S
    BY <1>3, <1>4, SetInduction
  <2> QED
    BY <2>1
<1>6. PICK f : f = [n \in D |-> f[n]] /\ Good(f, top + 1)
  BY <1>5
<1>7. \A n \in D : f[n] = Body(f, n)
  BY <1>1, <1>6
<1>8. f = [n \in D |-> Body(f, n)]
  BY <1>6, <1>7
<1> QED
  BY <1>8 DEF D, Body, DepthBy

UnderBody(h, f, n) ==
  IF ~Live(h, n) \/ h.nodes[n].leaf THEN {n}
  ELSE {n} \cup UNION {f[c] : c \in ToSet(h.nodes[n].children)}

UnderBy(f, h) == f = [n \in Ids(h) |-> UnderBody(h, f, n)]

\* Subtree at a node depends on its value on lower levels only.
LEMMA UnderDescends ==
  ASSUME NEW h, NEW R, NEW lvl, NEW top \in Nat, Forest(h, R, lvl, top),
         NEW n \in Ids(h), NEW f, NEW g,
         \A c \in Ids(h) : Rank(h, lvl, c) < Rank(h, lvl, n) => f[c] = g[c]
  PROVE  UnderBody(h, f, n) = UnderBody(h, g, n)
<1>1. CASE ~Live(h, n) \/ h.nodes[n].leaf
  BY <1>1 DEF UnderBody
<1>2. CASE Live(h, n) /\ ~h.nodes[n].leaf
  <2> DEFINE C == ToSet(h.nodes[n].children)
  <2>1. n \in LiveIds(h)
    BY <1>2, Ranks
  <2>2. ASSUME NEW c \in C PROVE f[c] = g[c]
    <3>1. c \in KidsOf(h.nodes[n])
      BY <1>2, <2>2 DEF KidsOf
    <3>2. c \in LiveIds(h) /\ lvl[n] = lvl[c] + 1
      BY <2>1, <3>1, ForestNodes
    <3>3. c \in Ids(h) /\ Rank(h, lvl, c) = lvl[c] /\ Rank(h, lvl, n) = lvl[n]
      BY <2>1, <3>2, Ranks
    <3>4. Rank(h, lvl, c) \in Nat
      BY <3>3, Ranks
    <3>5. Rank(h, lvl, c) < Rank(h, lvl, n)
      BY <3>2, <3>3, <3>4
    <3> QED
      BY <3>3, <3>5
  <2>3. {f[c] : c \in C} = {g[c] : c \in C}
    BY <2>2
  <2> QED
    BY <1>2, <2>3 DEF UnderBody
<1> QED
  BY <1>1, <1>2

\* So the recursion of Subtree defines a function.
LEMMA UnderExists ==
  ASSUME NEW h, NEW R, NEW lvl, NEW top \in Nat, Forest(h, R, lvl, top)
  PROVE  \E f : UnderBy(f, h)
<1> DEFINE D == Ids(h)
           Rk(n) == Rank(h, lvl, n)
           Body(f, n) == UnderBody(h, f, n)
           Good(f, m) == \A n \in D : Rk(n) < m => f[n] = Body(f, n)
           S == {m \in Nat : \E f : f = [n \in D |-> f[n]] /\ Good(f, m)}
<1>1. \A n \in D : Rk(n) \in Nat /\ Rk(n) <= top
  BY Ranks
<1>2. ASSUME NEW n \in D, NEW f, NEW g, \A c \in D : Rk(c) < Rk(n) => f[c] = g[c]
      PROVE  Body(f, n) = Body(g, n)
  BY <1>2, UnderDescends
<1> HIDE DEF D, Rk, Body
<1>3. 0 \in S
  <2> DEFINE f == [n \in D |-> 0]
  <2>1. f = [n \in D |-> f[n]]
    OBVIOUS
  <2> HIDE DEF f
  <2>2. Good(f, 0)
    BY <1>1
  <2> QED
    BY <2>1, <2>2
<1>4. ASSUME NEW m \in Nat, m \in S PROVE m + 1 \in S
  <2>1. PICK g : g = [n \in D |-> g[n]] /\ Good(g, m)
    BY <1>4
  <2> DEFINE f == [n \in D |-> IF Rk(n) < m THEN g[n] ELSE Body(g, n)]
  <2>2. f = [n \in D |-> f[n]]
    OBVIOUS
  <2>3. \A n \in D : (Rk(n) < m => f[n] = g[n]) /\ f[n] = Body(g, n)
    BY <2>1
  <2> HIDE DEF f
  <2>4. ASSUME NEW n \in D, Rk(n) < m + 1 PROVE f[n] = Body(f, n)
    <3>1. \A c \in D : Rk(c) < Rk(n) => f[c] = g[c]
      BY <1>1, <2>3, <2>4
    <3>2. Body(f, n) = Body(g, n)
      BY <1>2, <3>1
    <3> QED
      BY <2>3, <3>2
  <2>5. Good(f, m + 1)
    BY <2>4
  <2> HIDE DEF Good
  <2> QED
    BY <2>2, <2>5
<1>5. top + 1 \in S
  <2> HIDE DEF S
  <2>1. Nat \subseteq S
    BY <1>3, <1>4, SetInduction
  <2> QED
    BY <2>1
<1>6. PICK f : f = [n \in D |-> f[n]] /\ Good(f, top + 1)
  BY <1>5
<1>7. \A n \in D : f[n] = Body(f, n)
  BY <1>1, <1>6
<1>8. f = [n \in D |-> Body(f, n)]
  BY <1>6, <1>7
<1> QED
  BY <1>8 DEF D, Body, UnderBy

-----------------------------------------------------------------------------
(* What the invariant says of the members.                                 *)

\* The depth of a node in use is its level.
LEMMA Depths ==
  ASSUME NEW R, NEW lvl, NEW top \in Nat, Forest(heap, R, lvl, top), NEW id \in LiveIds(heap)
  PROVE  Depth(id) = lvl[id] + 1
<1> DEFINE Body(f) == [n \in Ids(heap) |->
             IF ~Live(heap, n) \/ heap.nodes[n].leaf THEN 1
             ELSE f[ChildAt(heap.nodes[n], 0)] + 1]
           It == CHOOSE f : f = Body(f)
           L == LiveIds(heap)
<1>1. Depth(id) = It[id]
  BY DEF Depth
<1>2. \A f : Body(f) = [n \in Ids(heap) |-> DepthBody(heap, f, n)]
  BY DEF DepthBody
<1> HIDE DEF Body
<1>3. \E f : f = Body(f)
  <2>1. PICK f : DepthBy(f, heap)
    BY DepthExists
  <2>2. f = Body(f)
    BY <1>2, <2>1 DEF DepthBy
  <2> QED
    BY <2>2
<1>4. It = Body(It)
  BY <1>3
<1> HIDE DEF It
<1>5. \A n \in Ids(heap) : It[n] = DepthBody(heap, It, n)
  BY <1>2, <1>4
<1>6. L \subseteq Ids(heap) /\ \A n \in L : Live(heap, n)
  BY Ranks
<1>7. \A n \in L : lvl[n] \in Nat
  BY ForestNodes
<1> DEFINE S == {m \in Nat : \A n \in L : lvl[n] < m => It[n] = lvl[n] + 1}
<1>8. 0 \in S
  BY <1>7
<1>9. ASSUME NEW m \in Nat, m \in S PROVE m + 1 \in S
  <2> SUFFICES ASSUME NEW n \in L, lvl[n] < m + 1 PROVE It[n] = lvl[n] + 1
    OBVIOUS
  <2>1. It[n] = DepthBody(heap, It, n) /\ Live(heap, n)
    BY <1>5, <1>6
  <2>2. CASE heap.nodes[n].leaf
    <3>1. It[n] = 1
      BY <2>1, <2>2 DEF DepthBody
    <3>2. lvl[n] = 0
      BY <2>2, ForestNodes
    <3> QED
      BY <3>1, <3>2
  <2>3. CASE ~heap.nodes[n].leaf
    <3> DEFINE c == ChildAt(heap.nodes[n], 0)
    <3>1. 0 \in 0..Len(heap.nodes[n].keys)
      <4>1. Len(heap.nodes[n].keys) \in Nat
        BY <2>3, ForestNodes, InnerParts
      <4> QED
        BY <4>1
    <3>2. It[n] = It[c] + 1
      BY <2>1, <2>3 DEF DepthBody
    <3>3. c \in KidsOf(heap.nodes[n])
      BY <2>3, <3>1, WayDown
    <3> HIDE DEF c
    <3>4. c \in L /\ lvl[n] = lvl[c] + 1
      BY <3>3, ForestNodes
    <3>5. lvl[c] \in Nat
      BY <1>7, <3>4
    <3>6. lvl[c] < m
      BY <3>4, <3>5
    <3>7. It[c] = lvl[c] + 1
      BY <1>9, <3>4, <3>6
    <3> QED
      BY <3>2, <3>4, <3>7
  <2> QED
    BY <2>2, <2>3
<1>10. lvl[id] + 1 \in S
  <2>1. lvl[id] + 1 \in Nat
    BY <1>7
  <2> HIDE DEF S
  <2>2. Nat \subseteq S
    BY <1>8, <1>9, SetInduction
  <2> QED
    BY <2>1, <2>2
<1>11. It[id] = lvl[id] + 1
  BY <1>7, <1>10
<1> QED
  BY <1>1, <1>11

\* What lies under a node, as the sets that under yields.
LEMMA SetsUnder ==
  ASSUME NEW h, NEW R, NEW lvl, NEW top \in Nat, Forest(h, R, lvl, top),
         NEW it, \A n \in Ids(h) : it[n] = UnderBody(h, it, n)
  PROVE  \A n \in LiveIds(h) :
           /\ n \in it[n] /\ it[n] \subseteq LiveIds(h)
           /\ \A x \in it[n] : \A c \in KidsOf(h.nodes[x]) : c \in it[n]
<1> DEFINE L == LiveIds(h)
           Closed(u) == \A x \in u : \A c \in KidsOf(h.nodes[x]) : c \in u
           Right(n) == n \in it[n] /\ it[n] \subseteq L /\ Closed(it[n])
           S == {m \in Nat : \A n \in L : lvl[n] < m => Right(n)}
<1>1. L \subseteq Ids(h) /\ \A n \in L : Live(h, n)
  BY Ranks
<1>2. \A n \in L : lvl[n] \in Nat
  BY ForestNodes
<1>3. 0 \in S
  BY <1>2
<1>4. ASSUME NEW m \in Nat, m \in S PROVE m + 1 \in S
  <2> SUFFICES ASSUME NEW n \in L, lvl[n] < m + 1 PROVE Right(n)
    OBVIOUS
  <2>1. it[n] = UnderBody(h, it, n) /\ Live(h, n)
    BY <1>1
  <2>2. CASE h.nodes[n].leaf
    <3>1. it[n] = {n}
      BY <2>1, <2>2 DEF UnderBody
    <3>2. KidsOf(h.nodes[n]) = {}
      BY <2>2 DEF KidsOf
    <3> QED
      BY <3>1, <3>2
  <2>3. CASE ~h.nodes[n].leaf
    <3> DEFINE C == KidsOf(h.nodes[n])
    <3>1. it[n] = {n} \cup UNION {it[c] : c \in C}
      <4>1. C = ToSet(h.nodes[n].children)
        BY <2>3 DEF KidsOf
      <4> HIDE DEF C
      <4> QED
        BY <2>1, <2>3, <4>1 DEF UnderBody
    <3>2. ASSUME NEW c \in C PROVE c \in L /\ Right(c)
      <4>1. c \in L /\ lvl[n] = lvl[c] + 1
        BY ForestNodes
      <4>2. lvl[c] \in Nat
        BY <1>2, <4>1
      <4>3. lvl[c] < m
        BY <4>1, <4>2
      <4> QED
        BY <1>4, <4>1, <4>3
    <3> HIDE DEF C
    <3>3. n \in it[n] /\ it[n] \subseteq L
      BY <3>1, <3>2
    <3>4. ASSUME NEW x \in it[n], NEW d \in KidsOf(h.nodes[x]) PROVE d \in it[n]
      <4>1. CASE x = n
        <5>1. d \in C
          BY <4>1 DEF C
        <5>2. d \in it[d]
          BY <3>2, <5>1
        <5> QED
          BY <3>1, <5>1, <5>2
      <4>2. CASE x # n
        <5>1. PICK c \in C : x \in it[c]
          BY <3>1, <4>2
        <5>2. d \in it[c]
          BY <3>2, <5>1
        <5> QED
          BY <3>1, <5>1, <5>2
      <4> QED
        BY <4>1, <4>2
    <3> QED
      BY <3>3, <3>4
  <2> QED
    BY <2>2, <2>3
<1>5. ASSUME NEW n \in L PROVE Right(n)
  <2>1. lvl[n] \in Nat /\ lvl[n] + 1 \in Nat /\ lvl[n] < lvl[n] + 1
    BY <1>2
  <2>2. lvl[n] + 1 \in S
    <3> HIDE DEF S
    <3>1. Nat \subseteq S
      BY <1>3, <1>4, SetInduction
    <3> QED
      BY <2>1, <3>1
  <2> QED
    BY <2>1, <2>2
<1> QED
  BY <1>5

\* Every node in use can be reached from the only root.
LEMMA Reached ==
  ASSUME NEW h, NEW root, NEW lvl, NEW top \in Nat, Forest(h, {root}, lvl, top),
         NEW u, root \in u, \A x \in u : \A c \in KidsOf(h.nodes[x]) : c \in u
  PROVE  LiveIds(h) \subseteq u
<1> DEFINE L == LiveIds(h)
           K == KidMap(h)
           S == {m \in Nat : \A n \in L : top - lvl[n] <= m => n \in u}
<1>1. Shape(L, K, lvl, {root}, top)
  BY DEF Forest
<1>2. \A n \in L : K[n] = KidsOf(h.nodes[n])
  BY DEF KidMap
<1> HIDE DEF K
<1>3. \A n \in L : lvl[n] \in Nat /\ lvl[n] <= top
  BY <1>1 DEF Shape
<1>4. ASSUME NEW n \in L, n # root
      PROVE  \E p \in L : n \in KidsOf(h.nodes[p]) /\ lvl[p] = lvl[n] + 1
  <2>1. PICK p \in L : n \in K[p]
    BY <1>1, <1>4 DEF Shape
  <2>2. lvl[p] = lvl[n] + 1
    BY <1>1, <2>1 DEF Shape
  <2> QED
    BY <1>2, <2>1, <2>2
<1>5. 0 \in S
  <2> SUFFICES ASSUME NEW n \in L, top - lvl[n] <= 0 PROVE n \in u
    OBVIOUS
  <2>1. CASE n # root
    <3>1. PICK p \in L : lvl[p] = lvl[n] + 1
      BY <1>4, <2>1
    <3>2. lvl[p] \in Nat /\ lvl[p] <= top /\ lvl[n] \in Nat
      BY <1>3
    <3> QED
      BY <3>1, <3>2
  <2> QED
    BY <2>1
<1>6. ASSUME NEW m \in Nat, m \in S PROVE m + 1 \in S
  <2> SUFFICES ASSUME NEW n \in L, top - lvl[n] <= m + 1 PROVE n \in u
    OBVIOUS
  <2>1. CASE n # root
    <3>1. PICK p \in L : n \in KidsOf(h.nodes[p]) /\ lvl[p] = lvl[n] + 1
      BY <1>4, <2>1
    <3>2. lvl[p] \in Nat /\ lvl[n] \in Nat
      BY <1>3
    <3>3. top - lvl[p] <= m
      BY <3>1, <3>2
    <3>4. p \in u
      BY <1>6, <3>3
    <3> QED
      BY <3>1, <3>4
  <2> QED
    BY <2>1
<1>7. ASSUME NEW n \in L PROVE n \in u
  <2>1. top - lvl[n] \in Nat /\ top - lvl[n] <= top - lvl[n]
    BY <1>3
  <2>2. top - lvl[n] \in S
    <3> HIDE DEF S
    <3>1. Nat \subseteq S
      BY <1>5, <1>6, SetInduction
    <3> QED
      BY <2>1, <3>1
  <2> QED
    BY <2>1, <2>2
<1> QED
  BY <1>7

\* The subtree of the root is what is in use.
LEMMA WholeTree ==
  ASSUME NEW root, NEW lvl, NEW top \in Nat, Forest(heap, {root}, lvl, top)
  PROVE  Subtree(root) = LiveIds(heap)
<1> DEFINE Body(f) == [n \in Ids(heap) |->
             IF ~Live(heap, n) \/ heap.nodes[n].leaf THEN {n}
             ELSE {n} \cup UNION {f[c] : c \in ToSet(heap.nodes[n].children)}]
           It == CHOOSE f : f = Body(f)
<1>1. Subtree(root) = It[root]
  BY DEF Subtree
<1>2. \A f : Body(f) = [n \in Ids(heap) |-> UnderBody(heap, f, n)]
  BY DEF UnderBody
<1> HIDE DEF Body
<1>3. \E f : f = Body(f)
  <2>1. PICK f : UnderBy(f, heap)
    BY UnderExists
  <2>2. f = Body(f)
    BY <1>2, <2>1 DEF UnderBy
  <2> QED
    BY <2>2
<1>4. It = Body(It)
  BY <1>3
<1> HIDE DEF It
<1>5. \A n \in Ids(heap) : It[n] = UnderBody(heap, It, n)
  BY <1>2, <1>4
<1>6. root \in LiveIds(heap)
  BY DEF Forest, Shape
<1> DEFINE u == It[root]
<1>7. root \in u /\ u \subseteq LiveIds(heap) /\ \A x \in u : \A c \in KidsOf(heap.nodes[x]) : c \in u
  BY <1>5, <1>6, SetsUnder
<1> HIDE DEF u
<1>8. LiveIds(heap) \subseteq u
  BY <1>7, Reached
<1> QED
  BY <1>1, <1>7, <1>8 DEF u

\* The members, from the invariant.
LEMMA MembersHold ==
  ASSUME TreeInv
  PROVE  /\ heap \in GoodHeaps /\ rootId \in LiveIds(heap) /\ rootIsLeaf \in BOOLEAN
         /\ size \in Nat /\ height \in Nat \ {0} /\ height - 1 \in Nat /\ status \in Outcomes
         /\ Standing(heap, rootId, rootIsLeaf, height)
<1>1. Tree(Members)
  BY DEF TreeInv
<1>2. /\ Members.heap = heap /\ Members.rootId = rootId /\ Members.rootIsLeaf = rootIsLeaf
      /\ Members.size = size /\ Members.height = height /\ Members.status = status
  BY DEF Members
<1> QED
  BY <1>1, <1>2, TreeParts

\* The free list, as a set and as a list.
LEMMA FreeIds ==
  ASSUME NEW h \in GoodHeaps
  PROVE  /\ ToSet(h.freeList) = DOMAIN h.nodes \ LiveIds(h) /\ IsInjective(h.freeList)
         /\ h.nodeCount = Cardinality(LiveIds(h))
BY DEF GoodHeaps, Lists

\* TreeTypeOK holds: the root is a node, leaves pair keys with values, and the
\* free list, counters and status are what btree.h declares.
THEOREM TreeTypeCorrect == Spec => []TreeTypeOK
<1>1. TreeInv => TreeTypeOK
  <2> SUFFICES ASSUME TreeInv PROVE TreeTypeOK
    OBVIOUS
  <2>1. /\ heap \in GoodHeaps /\ rootId \in LiveIds(heap) /\ rootIsLeaf \in BOOLEAN
        /\ size \in Nat /\ height \in Nat \ {0} /\ status \in Outcomes
    BY MembersHold
  <2>2. maxKeys \in Nat /\ maxKeys >= 3
    BY DEF TreeInv
  <2>3. rootId \in DOMAIN heap.nodes
    BY <2>1 DEF LiveIds
  <2>4. ASSUME NEW id \in DOMAIN heap.nodes, Live(heap, id), heap.nodes[id].leaf
        PROVE  Len(heap.nodes[id].vals) = Len(heap.nodes[id].keys)
    <3>1. id \in LiveIds(heap)
      BY <2>4 DEF Live, LiveIds
    <3> DEFINE x == heap.nodes[id]
    <3>2. x \in TreeNodes
      BY <2>1, <3>1, HeapParts
    <3>3. x \in LeafNodes
      BY <2>4, <3>2, NodeKind
    <3> QED
      BY <3>3 DEF LeafNodes
  <2>5. ToSet(heap.freeList) \subseteq DOMAIN heap.nodes
    BY <2>1, FreeIds
  <2> QED
    BY <2>1, <2>2, <2>3, <2>4, <2>5 DEF TreeTypeOK, Outcomes
<1> QED
  BY <1>1, TreeInvariant, PTL

\* BookkeepingExact holds: what the heap counts is the tree under the root.
THEOREM TreeBookkeeping == Spec => []BookkeepingExact
<1>1. TreeInv => BookkeepingExact
  <2> SUFFICES ASSUME TreeInv PROVE BookkeepingExact
    OBVIOUS
  <2>1. /\ heap \in GoodHeaps /\ rootId \in LiveIds(heap) /\ height \in Nat \ {0} /\ height - 1 \in Nat
        /\ Standing(heap, rootId, rootIsLeaf, height)
    BY MembersHold
  <2>2. rootIsLeaf = heap.nodes[rootId].leaf
    BY <2>1 DEF Standing
  <2> DEFINE top == height - 1
  <2>3. PICK lvl : Forest(heap, {rootId}, lvl, top) /\ lvl[rootId] = top
    BY <2>1 DEF Standing
  <2>4. top \in Nat /\ top + 1 = height
    BY <2>1
  <2> HIDE DEF top
  <2>5. Subtree(rootId) = LiveIds(heap)
    BY <2>3, <2>4, WholeTree
  <2>6. height = Depth(rootId)
    BY <2>1, <2>3, <2>4, Depths
  <2>7. {id \in DOMAIN heap.nodes : Live(heap, id)} = LiveIds(heap)
    BY DEF LiveIds, Live
  <2> QED
    BY <2>1, <2>2, <2>5, <2>6, <2>7, FreeIds DEF BookkeepingExact
<1> QED
  BY <1>1, TreeInvariant, PTL
==============================================================================
