SPECIFICATION Spec
CHECK_DEADLOCK FALSE
CONSTANTS
  User = {u1, u2}
  Client = {x1, x2}
  ServerRun = ServerRun
  MuxRun = MuxRun
  NoCaller = NoCaller
  Bootstrap = TRUE
INVARIANTS
  TypeOK
  NilMeansDown
  LogOutlivesUsers
PROPERTIES
  ShutdownEnds
  BrokenMuxEnds
