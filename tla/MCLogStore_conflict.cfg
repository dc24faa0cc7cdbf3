SPECIFICATION SpecConflict
CHECK_DEADLOCK FALSE
CONSTANTS
  Term = {1, 2}
  MaxIndex = 5
  MaxBatch = 2
INVARIANTS
  StoredAtIndex
