SPECIFICATION Spec
CHECK_DEADLOCK FALSE
CONSTANTS
  Server = {s1, s2}
  NoLoop = NoLoop
  BufferCap = 1
  MaxLoops = 2
  MaxRecords = 2
INVARIANTS
  TypeOK
  CopiesPrefix
  OneLoopPerName
PROPERTIES
  LoopsEnd
