CONSTANTS
  a = a
  b = b
  Key <- MCKey
  Value = {a, b}
  NoValue = NoValue
  NodeSizes = {2, 4}
  Preloads <- MCPreloads
  Ranges <- MCRanges
  MaxCalls = 4

SPECIFICATION Spec
VIEW CurrentTree
CHECK_DEADLOCK FALSE
INVARIANTS
  TreeTypeOK
  AlwaysVerified
  BookkeepingExact
  ScansAreExact
PROPERTIES
  ImplementsSequentialMap
