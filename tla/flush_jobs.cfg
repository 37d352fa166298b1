CONSTANTS
  w1 = w1
  w2 = w2
  c1 = c1
  s1 = s1
  s2 = s2
  Worker = {w1, w2}
  Scheduler = {s1, s2}
  Waiter = {c1}
  MaxJobs = 2
  MaxStarts = 2

SPECIFICATION FairSpec
CHECK_DEADLOCK FALSE
INVARIANTS
  FlushTypeOK
  JobsHandledOnce
PROPERTIES
  WaitLeavesOnlyTaken
  JobsFinish
  CallsEnd
