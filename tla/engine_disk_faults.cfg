CONSTANTS
  k1 = k1
  empty = empty
  v1 = v1
  v2 = v2
  big = big
  Key = {k1}
  Value = {v1, big}
  KeySize <- MCKeySize
  ValueSize <- MCValueSize
  Tombstone = Tombstone
  NoValue = NoValue
  Down = Down
  HeaderSize = 2
  BufferSize = 2
  MaxFileSize = 8
  SyncOnWrite = FALSE
  EngineSyncOnWrite = TRUE
  MaxSequence = 2
  CrashKinds = {"process", "power"}
  TornWrites = TRUE
  Faults = TRUE
  MaxRestarts = 2

SPECIFICATION FairSpec
CHECK_DEADLOCK FALSE
INVARIANTS
  TreeIsReplay
  SequenceFresh
  FilesWithinLimit
  BufferFits
PROPERTIES
  ReturnsDurable
  RecoveryTerminates
