SPECIFICATION CrashSpec
CONSTANTS
  Value <- MCValue
  RecordLen <- MCRecordLen
  MaxOffset = 3
  BufSize = 16
  MaxIndexBytes = 36
  MaxStoreBytes = 32
  InitialOffset = 0
  TrailingLogs = 1
  MaxBytes = 40
PROPERTIES
  ReopensAtLastEntry
