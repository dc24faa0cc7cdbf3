SPECIFICATION Spec
CHECK_DEADLOCK FALSE
CONSTANTS
  n1 = n1
  n2 = n2
  n3 = n3
  n4 = n4
  a1 = a1
  a2 = a2
  a3 = a3
  b2 = b2
  Node = {n1, n2, n3}
  Addresses <- MCAddresses
  Bootstrap = n1
  LocalAddr = a0
  NoAddr = NoAddr
  NoNode = NoNode
  MaxChanges = 3
  MaxElections = 1
INVARIANTS
  TypeOK
  LeaderIsServer
PROPERTIES
  JoinSucceeds
  Converges
