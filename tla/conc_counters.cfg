CONSTANTS
  a = a
  b = b
  t1 = t1
  t2 = t2
  t3 = t3
  Thread = {t1, t2}
  NoThread = NoThread
  Key <- MCKey
  Value = {a, b}
  NoValue = NoValue
  Requests <- MCMeetingRequests
  MaxCalls = 2

SPECIFICATION Spec
CHECK_DEADLOCK FALSE
INVARIANTS
  CountersReadAtRest
