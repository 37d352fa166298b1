CONSTANTS
  k1 = k1
  empty = empty
  v1 = v1
  v2 = v2
  big = big
  Key = {k1}
  Value = {v1}
  KeySize <- MCKeySize
  ValueSize <- MCValueSize
  Tombstone = Tombstone
  NoValue = NoValue
  Down = Down
  HeaderSize = 2
  BufferSize = 3
  MaxFileSize = 9
  SyncOnWrite = FALSE
  EngineSyncOnWrite = FALSE
  MaxSequence = 3
  CrashKinds = {"process"}
  TornWrites = TRUE
  Faults = FALSE
  MaxRestarts = 2

SPECIFICATION Spec
CHECK_DEADLOCK FALSE
INVARIANTS
  TornTailIgnored
