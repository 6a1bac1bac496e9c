SPECIFICATION FairSpec
CONSTANTS
  short = short
  long = long
  Producers = {recvHook, sendHook}
  Consumer = worker
  Bodies = {short, long}
  NoBody = zeroed
  Capacity = 2
  SlotSize = 3
  IndexMod = 4
  Texts <- MCTexts
INVARIANTS
  TypeOK
  MutualExclusion
  SlotsDisjoint
PROPERTIES
  RefinesFifo
  LockIsReleased
