CONSTANTS
  Key <- MCKey
  Value <- MCValue
  Sequence = {1, 2}
  MaxLevel = 2
  NodeSize = 3
  PointerSize = 1
  SizeModulus = 4
  BlockSize = 6
  RestartInterval = 2
  EntryHeader = 2
  WordSize = 1
  MetaSize = 1
  SeqModulus = 2
  MaxAdds = 3
  MaxOffset = 24

SPECIFICATION Spec
CHECK_DEADLOCK FALSE
INVARIANTS
  TableTypeOK
  LookupsFindEntries
  CountersExact
  FlushTakesTable
  BlocksHoldEntries
PROPERTIES
  ImplementsTombstoneMap
