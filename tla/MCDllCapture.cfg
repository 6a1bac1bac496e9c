SPECIFICATION Spec
CONSTANTS
  GameThreads = {g1}
  Capacity = 1
  Setups <- AllHooks
  Commands = {"QUIT", "REPLY"}
  MaxPending = 2
  MaxChunk = 2
  GraceHolds = TRUE
  MaxBacklog = 1
  MaxPackets = 3
  MaxSessions = 2
  MaxPieces = 1
INVARIANTS
  LogComplete
  HostWindow
  DrainedIsDurable
  NothingLeftBehind
CHECK_DEADLOCK FALSE
