CONSTANTS
  k1 = k1
  empty = empty
  v1 = v1
  v2 = v2
  big = big
  Key = {k1, empty}
  Value = {v1, v2}
  KeySize <- MCKeySize
  ValueSize <- MCValueSize
  Tombstone = Tombstone
  NoValue = NoValue
  Down = Down
  HeaderSize = 2
  BufferSize = 3
  MaxFileSize = 9
  SyncOnWrite = FALSE
  EngineSyncOnWrite = FALSE
  MaxSequence = 4
  CrashKinds = {"process"}
  TornWrites = FALSE
  Faults = FALSE
  MaxRestarts = 3

SPECIFICATION Spec
CHECK_DEADLOCK FALSE
INVARIANTS
  KVTypeOK
  LogHoldsHistory
PROPERTIES
  ImplementsDurableMap
