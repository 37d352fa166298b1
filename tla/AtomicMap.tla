----------------------------- MODULE AtomicMap -----------------------------
(***************************************************************************)
(* What concurrent callers of the engine are promised: every call on the   *)
(* map, a whole range scan included, takes effect at one instant between   *)
(* its invocation and its return, or, if it returns an I/O error, never.   *)
(***************************************************************************)
EXTENDS OrderedMap

CONSTANTS
  Thread,
  Requests          \* the calls threads make: records with a field op

VARIABLES
  map,
  phase,            \* each thread: "idle", "pending" or "done"
  request,          \* the call each thread is in
  answer            \* what each call that is done will return

amVars == <<map, phase, request, answer>>

AMInit ==
  /\ map = EmptyMap
  /\ phase = [t \in Thread |-> "idle"]
  /\ request = [t \in Thread |-> NoValue]
  /\ answer = [t \in Thread |-> NoValue]

Call(t) ==
  /\ phase[t] = "idle"
  /\ phase' = [phase EXCEPT ![t] = "pending"]
  /\ \E r \in Requests : request' = [request EXCEPT ![t] = r]
  /\ UNCHANGED <<map, answer>>

TakeEffect(t) ==
  /\ phase[t] = "pending"
  /\ phase' = [phase EXCEPT ![t] = "done"]
  /\ map' = Effect(map, request[t])
  /\ answer' = [answer EXCEPT ![t] = Answer(map, request[t])]
  /\ UNCHANGED request

\* Put, Delete, Flush and Sync may fail, and then leave the map alone.
Fail(t) ==
  /\ phase[t] = "pending"
  /\ request[t].op \in {"put", "delete", "sync"}
  /\ phase' = [phase EXCEPT ![t] = "done"]
  /\ answer' = [answer EXCEPT ![t] = "IOError"]
  /\ UNCHANGED <<map, request>>

Reply(t) ==
  /\ phase[t] = "done"
  /\ phase' = [phase EXCEPT ![t] = "idle"]
  /\ request' = [request EXCEPT ![t] = NoValue]
  /\ answer' = [answer EXCEPT ![t] = NoValue]
  /\ UNCHANGED map

AMNext == \E t \in Thread : Call(t) \/ TakeEffect(t) \/ Fail(t) \/ Reply(t)

AMSpec == AMInit /\ [][AMNext]_amVars
=============================================================================
