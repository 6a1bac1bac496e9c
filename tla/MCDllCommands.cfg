SPECIFICATION Spec
CONSTANTS
  GameThreads = {g1}
  Capacity = 1
  Setups <- CommandSetups
  Commands = {"SEND"}
  MaxPending = 2
  MaxChunk = 2
  GraceHolds = FALSE
  MaxBacklog = 1
  MaxPackets = 2
  MaxSessions = 2
  MaxPieces = 3
INVARIANTS
  TypeOK
  CommandStream
CHECK_DEADLOCK FALSE
