SPECIFICATION Spec
CONSTANTS
  GameThreads = {g1}
  Capacity = 2
  Setups <- CommandSetups
  Commands = {"SEND"}
  MaxPending = 2
  MaxChunk = 2
  GraceHolds = FALSE
  MaxBacklog = 1
  MaxPackets = 2
  MaxSessions = 1
  MaxPieces = 1
INVARIANTS
  SendStreamFifo
CHECK_DEADLOCK FALSE
