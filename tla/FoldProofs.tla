----------------------------- MODULE FoldProofs -----------------------------
(***************************************************************************)
(* What the folds of the community modules compute.                        *)
(***************************************************************************)
EXTENDS Integers, SequencesExt, WellFoundedInduction, TLAPS

\* Induction over the natural numbers, for sets instead of predicates.
LEMMA SetInduction ==
  ASSUME NEW S, 0 \in S, \A n \in Nat : n \in S => n + 1 \in S
  PROVE  Nat \subseteq S
<1> SUFFICES ASSUME Nat \ S # {} PROVE FALSE
  OBVIOUS
<1>1. IsWellFoundedOn(OpToRel(<, Nat), Nat)
  BY NatLessThanWellFounded
<1>2. PICK n \in Nat \ S : \A m \in Nat \ S : ~(<<m, n>> \in OpToRel(<, Nat))
  BY <1>1, WFMin
<1>3. \A m \in Nat \ S : ~(m < n)
  BY <1>2 DEF OpToRel
<1>4. n # 0 /\ n - 1 \in Nat /\ n - 1 \in S
  BY <1>3
<1> QED
  BY <1>4

\* A function that computes, for every set of positions up to n, the result of
\* taking a step at each of them in increasing order.
Folds(it, base, step, n) ==
  \A s \in SUBSET (1..n) :
    it[s] = IF s = {} THEN base ELSE step[<<it[s \ {Max(s)}], Max(s)>>]

\* The largest element of a nonempty set of positions.
LEMMA MaxOfPositions ==
  ASSUME NEW n \in Nat, NEW s \in SUBSET (1..n), s # {}
  PROVE  Max(s) \in s /\ \A i \in s : i <= Max(s)
<1>1. \E x \in s : \A y \in s : x >= y
  <2> DEFINE S == {m \in Nat : \E i \in s : i >= m}
  <2>1. SUFFICES ASSUME \A x \in s : \E y \in s : y > x PROVE FALSE
    OBVIOUS
  <2>2. 0 \in S
    <3>1. PICK i \in s : TRUE
      OBVIOUS
    <3> QED
      BY <3>1
  <2>3. \A m \in Nat : m \in S => m + 1 \in S
    BY <2>1
  <2>4. Nat \subseteq S
    <3> HIDE DEF S
    <3> QED
      BY <2>2, <2>3, SetInduction
  <2>5. n + 1 \in S
    BY <2>4
  <2> QED
    BY <2>5
<1> QED
  BY <1>1 DEF Max

\* The positions up to n without the last, and the last of them.
LEMMA LastPosition ==
  ASSUME NEW n \in Nat \ {0}
  PROVE  Max(1..n) = n /\ (1..n) \ {n} = 1..(n - 1) /\ 1..n # {}
<1>1. 1..n # {} /\ 1..n \in SUBSET (1..n)
  OBVIOUS
<1>2. Max(1..n) \in 1..n /\ \A i \in 1..n : i <= Max(1..n)
  BY <1>1, MaxOfPositions
<1> QED
  BY <1>1, <1>2

\* There is such a function.
LEMMA FoldsExist ==
  ASSUME NEW T, NEW base \in T, NEW step \in [T \X (Nat \ {0}) -> T], NEW n \in Nat
  PROVE  \E it \in [SUBSET (1..n) -> T] : Folds(it, base, step, n)
<1> DEFINE S == {m \in Nat : \E it \in [SUBSET (1..m) -> T] : Folds(it, base, step, m)}
<1>1. 0 \in S
  <2> DEFINE it == [s \in SUBSET (1..0) |-> base]
  <2>1. it \in [SUBSET (1..0) -> T]
    OBVIOUS
  <2>2. \A s \in SUBSET (1..0) : s = {} /\ it[s] = base
    OBVIOUS
  <2>3. Folds(it, base, step, 0)
    BY <2>2 DEF Folds
  <2> QED
    BY <2>1, <2>3
<1>2. ASSUME NEW m \in Nat, m \in S PROVE m + 1 \in S
  <2>1. PICK g \in [SUBSET (1..m) -> T] : Folds(g, base, step, m)
    BY <1>2
  <2> DEFINE it == [s \in SUBSET (1..(m + 1)) |->
                      IF m + 1 \in s THEN step[<<g[s \ {m + 1}], m + 1>>] ELSE g[s]]
  <2>2. ASSUME NEW s \in SUBSET (1..(m + 1))
        PROVE  s \ {m + 1} \in SUBSET (1..m) /\ (m + 1 \notin s => s \in SUBSET (1..m))
    OBVIOUS
  <2>3. it \in [SUBSET (1..(m + 1)) -> T]
    <3>1. ASSUME NEW s \in SUBSET (1..(m + 1))
          PROVE  (IF m + 1 \in s THEN step[<<g[s \ {m + 1}], m + 1>>] ELSE g[s]) \in T
      <4>1. g[s \ {m + 1}] \in T /\ m + 1 \in Nat \ {0}
        BY <2>2
      <4>2. step[<<g[s \ {m + 1}], m + 1>>] \in T
        BY <4>1
      <4> QED
        BY <2>2, <4>2
    <3> QED
      BY <3>1
  <2>4. ASSUME NEW s \in SUBSET (1..(m + 1))
        PROVE  it[s] = IF s = {} THEN base ELSE step[<<it[s \ {Max(s)}], Max(s)>>]
    <3>1. CASE m + 1 \in s
      <4>1. Max(s) = m + 1
        <5>1. m + 1 \in Nat /\ s # {}
          BY <3>1
        <5>2. Max(s) \in s /\ \A i \in s : i <= Max(s)
          BY <5>1, MaxOfPositions
        <5>3. Max(s) \in 1..(m + 1)
          BY <5>2
        <5>4. m + 1 <= Max(s)
          BY <3>1, <5>2
        <5> QED
          BY <5>3, <5>4
      <4>2. it[s \ {m + 1}] = g[s \ {m + 1}]
        BY <2>2
      <4> QED
        BY <3>1, <4>1, <4>2
    <3>2. CASE m + 1 \notin s /\ s # {}
      <4>1. s \in SUBSET (1..m)
        BY <2>2, <3>2
      <4>2. g[s] = step[<<g[s \ {Max(s)}], Max(s)>>]
        BY <2>1, <3>2, <4>1 DEF Folds
      <4>3. it[s] = g[s] /\ it[s \ {Max(s)}] = g[s \ {Max(s)}]
        BY <3>2, <4>1
      <4> QED
        BY <3>2, <4>2, <4>3
    <3>3. CASE s = {}
      <4>1. g[{}] = base
        BY <2>1 DEF Folds
      <4> QED
        BY <3>3, <4>1
    <3> QED
      BY <3>1, <3>2, <3>3
  <2>5. Folds(it, base, step, m + 1)
    BY <2>4 DEF Folds
  <2> HIDE DEF it
  <2> QED
    BY <2>3, <2>5
<1>3. Nat \subseteq S
  <2> HIDE DEF S
  <2> QED
    BY <1>1, <1>2, SetInduction
<1> QED
  BY <1>3

-----------------------------------------------------------------------------
(* The result of a fold, step by step.                                     *)

\* acc holds the results after 0, 1, ..., n steps.
Accumulates(acc, base, step, n) ==
  /\ acc[0] = base
  /\ \A m \in 1..n : acc[m] = step[<<acc[m - 1], m>>]

\* The same steps up to position n.
SameSteps(T, f, g, n) == \A t \in T, m \in 1..n : f[<<t, m>>] = g[<<t, m>>]

\* Two such functions agree as far as their steps do.
LEMMA AccumulationUnique ==
  ASSUME NEW T, NEW base \in T, NEW n \in Nat,
         NEW f \in [T \X (Nat \ {0}) -> T], NEW g \in [T \X (Nat \ {0}) -> T],
         SameSteps(T, f, g, n),
         NEW a, NEW b, Accumulates(a, base, f, n), Accumulates(b, base, g, n)
  PROVE  \A m \in 0..n : a[m] = b[m] /\ a[m] \in T
<1> DEFINE S == {m \in Nat : m <= n => a[m] = b[m] /\ a[m] \in T}
<1>1. 0 \in S
  BY DEF Accumulates
<1>2. ASSUME NEW m \in Nat, m \in S PROVE m + 1 \in S
  <2> SUFFICES ASSUME m + 1 <= n PROVE a[m + 1] = b[m + 1] /\ a[m + 1] \in T
    OBVIOUS
  <2>1. a[m] = b[m] /\ a[m] \in T /\ m + 1 \in 1..n /\ (m + 1) - 1 = m
    BY <1>2
  <2>2. a[m + 1] = f[<<a[m], m + 1>>] /\ b[m + 1] = g[<<b[m], m + 1>>]
    BY <2>1 DEF Accumulates
  <2>3. f[<<a[m], m + 1>>] \in T /\ f[<<a[m], m + 1>>] = g[<<a[m], m + 1>>]
    BY <2>1 DEF SameSteps
  <2> QED
    BY <2>1, <2>2, <2>3
<1>3. Nat \subseteq S
  <2> HIDE DEF S
  <2> QED
    BY <1>1, <1>2, SetInduction
<1> QED
  BY <1>3

\* It is enough to know the steps from results in T.
FoldsFrom(T, it, base, step, n) ==
  \A s \in SUBSET (1..n) :
    /\ s = {} => it[s] = base
    /\ s # {} /\ it[s \ {Max(s)}] \in T => it[s] = step[<<it[s \ {Max(s)}], Max(s)>>]

\* The results of a fold over the first positions accumulate.
LEMMA FoldsAccumulate ==
  ASSUME NEW T, NEW base \in T, NEW step \in [T \X (Nat \ {0}) -> T], NEW n \in Nat,
         NEW it, FoldsFrom(T, it, base, step, n),
         NEW acc, acc = [m \in 0..n |-> it[1..m]]
  PROVE  Accumulates(acc, base, step, n)
<1>1. acc[0] = base
  <2>1. 1..0 = {} /\ {} \in SUBSET (1..n)
    OBVIOUS
  <2>2. it[{}] = base
    BY <2>1 DEF FoldsFrom
  <2> QED
    BY <2>1, <2>2
<1>2. ASSUME NEW m \in 1..n, acc[m - 1] \in T
      PROVE  acc[m] = step[<<acc[m - 1], m>>]
  <2>1. m \in Nat \ {0} /\ m - 1 \in 0..n /\ m \in 0..n /\ 1..m \in SUBSET (1..n)
    OBVIOUS
  <2>2. Max(1..m) = m /\ (1..m) \ {m} = 1..(m - 1) /\ 1..m # {}
    BY <2>1, LastPosition
  <2>3. it[1..(m - 1)] \in T
    BY <1>2, <2>1
  <2>4. it[1..m] = step[<<it[1..(m - 1)], m>>]
    BY <2>1, <2>2, <2>3 DEF FoldsFrom
  <2> QED
    BY <2>1, <2>4
<1> DEFINE S == {m \in Nat : m <= n => acc[m] \in T}
<1>3. 0 \in S
  BY <1>1
<1>4. ASSUME NEW m \in Nat, m \in S PROVE m + 1 \in S
  <2> SUFFICES ASSUME m + 1 <= n PROVE acc[m + 1] \in T
    OBVIOUS
  <2>1. acc[m] \in T /\ m + 1 \in 1..n /\ (m + 1) - 1 = m
    BY <1>4
  <2>2. acc[m + 1] = step[<<acc[m], m + 1>>]
    BY <1>2, <2>1
  <2> QED
    BY <2>1, <2>2
<1>5. Nat \subseteq S
  <2> HIDE DEF S
  <2> QED
    BY <1>3, <1>4, SetInduction
<1>6. \A m \in 1..n : acc[m - 1] \in T
  <2>1. ASSUME NEW m \in 1..n PROVE acc[m - 1] \in T
    <3>1. m - 1 \in Nat /\ m - 1 <= n
      OBVIOUS
    <3> QED
      BY <1>5, <3>1
  <2> QED
    BY <2>1
<1> QED
  BY <1>1, <1>2, <1>6 DEF Accumulates
=============================================================================
