SPECIFICATION Spec
CONSTANTS
  Producer = {p1, p2}
  Consumer = {c1}
  MaxMsgs = 2
  MaxLog = 3
INVARIANTS
  TypeOK
  AnsweredIsStored
  FirstInOrder
  ConsumedInOrder
PROPERTIES
  AllDelivered
