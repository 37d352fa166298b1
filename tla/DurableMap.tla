----------------------------- MODULE DurableMap -----------------------------
(***************************************************************************)
(* What the engine promises its clients: a map from keys to values changed *)
(* one mutation at a time, which may stop at any moment and come back as   *)
(* the result of some prefix of the mutations accepted before, one that    *)
(* keeps everything a successful Sync covered.                             *)
(***************************************************************************)
EXTENDS Naturals, Sequences, SequencesExt

CONSTANTS
  Key, Value, Tombstone,
  NoValue,          \* what a key without a value maps to
  EmptyKeys,        \* keys the map refuses to store
  MaxSequence,      \* bound: mutations carry numbers 1..MaxSequence
  Down              \* the store of an engine that is not serving

VARIABLES
  log,              \* the accepted mutations
  applied,          \* how many of them the served map reflects
  stable,           \* how many of them no stop may undo
  store             \* the map being served

dmVars == <<log, applied, stable, store>>

Mutation ==
  [seq : 1..MaxSequence, key : Key, val : Value \cup {Tombstone}]

EmptyMap == [k \in Key |-> NoValue]

\* One mutation: a delete removes the key, a put of an empty key is refused.
Mutated(map, r) ==
  IF r.val = Tombstone THEN [map EXCEPT ![r.key] = NoValue]
  ELSE IF r.key \in EmptyKeys THEN map
  ELSE [map EXCEPT ![r.key] = r.val]

Replay(s) == FoldLeft(Mutated, EmptyMap, s)

-----------------------------------------------------------------------------
DMInit == log = << >> /\ applied = 0 /\ stable = 0 /\ store = EmptyMap

\* A mutation is accepted only once the one before it is visible.
Accept ==
  /\ store # Down
  /\ applied = Len(log)
  /\ \E r \in Mutation : log' = Append(log, r)
  /\ UNCHANGED <<applied, stable, store>>

Apply ==
  /\ store # Down
  /\ applied + 1 = Len(log)
  /\ applied' = Len(log)
  /\ store' = Replay(log)
  /\ UNCHANGED <<log, stable>>

Stabilise ==
  /\ store # Down
  /\ stable' = Len(log)
  /\ UNCHANGED <<log, applied, store>>

Stop ==
  /\ store' = Down
  /\ applied' = Len(log)
  /\ UNCHANGED <<log, stable>>

\* A prefix of the accepted mutations survives, the stable ones among them.
Return ==
  /\ store = Down
  /\ \E n \in stable..Len(log) :
       /\ log' = SubSeq(log, 1, n)
       /\ applied' = n
       /\ store' = Replay(SubSeq(log, 1, n))
  /\ UNCHANGED stable

DMNext == Accept \/ Apply \/ Stabilise \/ Stop \/ Return

DMSpec == DMInit /\ [][DMNext]_dmVars
=============================================================================
