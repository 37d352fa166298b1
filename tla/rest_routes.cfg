CONSTANTS
  a = a
  c1 = c1
  c2 = c2
  Conn = {c1}
  Key <- MCKey
  Value = {a}
  NoValue = NoValue
  Partial = Partial
  Exchanges <- MCRoutes
  MaxHeader = 1
  MaxBody = 1
  Chunk = 2
  MaxDescriptor = 2

SPECIFICATION Spec
CHECK_DEADLOCK FALSE
INVARIANTS
  RestTypeOK
  AnswersAreTrue
  WholeRequestsOnly
