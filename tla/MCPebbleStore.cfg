SPECIFICATION Spec
CONSTANTS
  Base = 2
  Width = 3
  MaxIndex = 4
  MaxBatch = 2
  MaxOlder = 2
  MaxWorkers = 1
  Entry = {e1, e2}
  Key <- MCKey
  Val = {v1}
INVARIANTS
  TypeOK
  NoGap
PROPERTIES
  ImplementsRaftStore
  OpenIsTold
