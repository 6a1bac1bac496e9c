SPECIFICATION FairSpec
CONSTANTS
  c1 = c1
  c2 = c2
  t1 = t1
  t2 = t2
  None = None
  Clients = {c1, c2}
  Targets = {t1, t2}
  Cells = {0, 2, 3}
  Alive = {t1}
  MaxUp = 1
  MaxDown = 1
  MaxBuf = 1
  MaxEvents = 4
  Setups <- All
INVARIANTS
  TypeOK
  ClientWindow
  StatusCurrent
  SelectTrue
PROPERTIES
  CallsReturn
  Reconnects
CHECK_DEADLOCK FALSE
