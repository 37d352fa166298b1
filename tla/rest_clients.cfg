CONSTANTS
  a = a
  c1 = c1
  c2 = c2
  Conn = {c1, c2}
  Key <- MCKey
  Value = {a}
  NoValue = NoValue
  Partial = Partial
  Exchanges <- MCOne
  MaxHeader = 1
  MaxBody = 1
  Chunk = 2
  MaxDescriptor = 2

SPECIFICATION FairSpec
CHECK_DEADLOCK FALSE
INVARIANTS
  OwnAnswers
  OneLateClient
PROPERTIES
  Answered
  StopReturns
