SPECIFICATION Spec
CONSTANTS
  Value <- MCValue
  RecordLen <- MCRecordLen
  MaxOffset = 5
  BufSize = 16
  MaxIndexBytes = 36
  MaxStoreBytes = 32
  InitialOffset = 0
  TrailingLogs = 0
  MaxBytes = 40
INVARIANTS
  TypeOK
  OneOwner
  NoHole
  ReadsOwnOffset
  
  Inv
PROPERTIES
  ImplementsCommitLog
