CONSTANTS
  a = a
  b = b
  t1 = t1
  t2 = t2
  t3 = t3
  Thread = {t1, t2, t3}
  NoThread = NoThread
  Key <- MCKey
  Value = {a, b}
  NoValue = NoValue
  Requests <- MCRequests
  MaxCalls = 3

SPECIFICATION FairSpec
CHECK_DEADLOCK FALSE
INVARIANTS
  ConcTypeOK
  NodesReadAtRest
  TreeFollowsLog
PROPERTIES
  ImplementsAtomicMap
  CallsReturn
