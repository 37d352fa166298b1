CONSTANTS
  k1 = k1
  empty = empty
  v1 = v1
  v2 = v2
  big = big
  Key = {k1, empty}
  Value = {v1, v2}
  KeySize <- MCKeySize
  ValueSize <- MCValueSize
  Tombstone = Tombstone
  NoValue = NoValue
  Down = Down
  HeaderSize = 2
  BufferSize = 3
  MaxFileSize = 9
  SyncOnWrite = TRUE
  EngineSyncOnWrite = FALSE
  MaxSequence = 4
  CrashKinds = {"power"}
  TornWrites = TRUE
  Faults = FALSE
  MaxRestarts = 1

SPECIFICATION Spec
CHECK_DEADLOCK FALSE
PROPERTIES
  ImplementsDurableMap
  StableSurvives
