SPECIFICATION FairSpec
CONSTANTS
  GameThreads = {g1}
  Capacity = 1
  Setups <- EverySetup
  Commands = {"QUIT", "SEND"}
  MaxPending = 2
  MaxChunk = 2
  GraceHolds = TRUE
  MaxBacklog = 1
  MaxPackets = 1
  MaxSessions = 2
  MaxPieces = 1
PROPERTIES
  EventuallyLogged
  QuitStops
  WaitingHostIsServed
CHECK_DEADLOCK FALSE
