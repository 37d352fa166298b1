----------------------------- MODULE OrderedMap -----------------------------
(***************************************************************************)
(* Maps from keys to values with the keys in order: the contents of a      *)
(* tree, and what a range scan of them returns.                            *)
(***************************************************************************)
EXTENDS Integers, SequencesExt

CONSTANTS
  Key,              \* integers, for their order
  Value,
  NoValue           \* what a key without a value maps to

EmptyMap == [k \in Key |-> NoValue]

Stored(m) == {k \in Key : m[k] # NoValue}

\* The keys of m in [first, limit), and the one of them that i others precede.
KeysIn(m, first, limit) == {k \in Stored(m) : k >= first /\ k < limit}

OneOf(S) == CHOOSE x \in S : TRUE

KeyAfter(ks, i) == OneOf({k \in ks : Cardinality({j \in ks : j < k}) = i})

\* The pairs of m with keys in [first, limit), in key order.
Items(m, first, limit) ==
  LET ks == KeysIn(m, first, limit)
  IN  [i \in 1..Cardinality(ks) |-> <<KeyAfter(ks, i - 1), m[KeyAfter(ks, i - 1)]>>]

With(m, k, v) == [m EXCEPT ![k] = v]
Without(m, k) == [m EXCEPT ![k] = NoValue]

\* What a call does to the map, and what it returns.
Effect(m, r) ==
  CASE r.op = "put"    -> With(m, r.key, r.val)
    [] r.op = "delete" -> Without(m, r.key)
    [] OTHER           -> m

Answer(m, r) ==
  CASE r.op = "get"    -> m[r.key]
    [] r.op = "delete" -> IF m[r.key] = NoValue THEN "NotFound" ELSE "OK"
    [] r.op = "scan"   -> Items(m, r.first, r.limit)
    [] OTHER           -> "OK"
=============================================================================
