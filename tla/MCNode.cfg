SPECIFICATION NodeSpec
CHECK_DEADLOCK FALSE
CONSTANTS
  Term = {1, 2}
  MaxIndex = 4
  MaxBatch = 2
  Leader = Leader
  Follower = Follower
  NotCommand = {1}
  Fills = {Follower}
  MaxStores = 2
INVARIANTS
  NodeTypeOK
  StoredAtIndex
  
  NodesAgree

  
