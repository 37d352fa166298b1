--------------------------- MODULE SequentialMap ---------------------------
(***************************************************************************)
(* What the tree promises one caller at a time: each call does to an       *)
(* ordered map what its arguments say, refuses the empty key, and reports  *)
(* what it did.                                                            *)
(***************************************************************************)
EXTENDS OrderedMap

CONSTANT EmptyKey

VARIABLES
  map,
  request,          \* the last call, NoValue before the first
  status,           \* what it returned
  calls             \* calls made so far

smVars == <<map, request, status, calls>>

SMInit == map \in [Key -> Value \cup {NoValue}] /\ request = NoValue /\ calls = 0

Called(r) == request' = r /\ calls' = calls + 1

Put(k, v) ==
  /\ Called([op |-> "put", key |-> k, val |-> v])
  /\ IF k = EmptyKey
     THEN status' = "InvalidArgument" /\ UNCHANGED map
     ELSE status' = "OK" /\ map' = With(map, k, v)

Delete(k) ==
  /\ Called([op |-> "delete", key |-> k])
  /\ IF k \in Stored(map)
     THEN status' = "OK" /\ map' = Without(map, k)
     ELSE status' = "NotFound" /\ UNCHANGED map

SMNext ==
  \E k \in Key \cup {EmptyKey} : Delete(k) \/ \E v \in Value : Put(k, v)

SMSpec == SMInit /\ [][SMNext]_smVars
=============================================================================
