------------------------ MODULE MCEngineConcurrency ------------------------
(* Instances of EngineConcurrency for TLC: a few calls on two keys.         *)
EXTENDS EngineConcurrency

CONSTANTS a, b, t1, t2, t3

MCKey == 1..2

\* A put and a delete of one key, so that their order shows; a scan that
\* starts before and ends after both keys, and one limited to a single key.
MCRequests ==
  {[op |-> "put", key |-> 1, val |-> a],
   [op |-> "put", key |-> 2, val |-> b], [op |-> "delete", key |-> 1],
   [op |-> "get", key |-> 1], [op |-> "scan", first |-> 0, limit |-> 3],
   [op |-> "scan", first |-> 2, limit |-> 3], [op |-> "sync"], [op |-> "stats"]}

\* The calls that meet at both mutexes.
MCMeetingRequests ==
  {[op |-> "put", key |-> 1, val |-> a], [op |-> "get", key |-> 1],
   [op |-> "scan", first |-> 0, limit |-> 3], [op |-> "stats"]}
=============================================================================
