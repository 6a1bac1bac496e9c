SPECIFICATION HostSpec
CONSTANTS
  MaxSessions = 4
  MaxLines = 2
  MaxFaults = 1
  MaxOther = 2
  Width = 4
  Height = 3
  Ends <- MCEnds
  Places <- MCPlaces
  Targets = {a, b}
  MaxLearned = 2
  MaxSaved = 3
  MaxBusy = 2
  Windows = {w1, w2}
  MaxSaves = 6
INVARIANTS
  StreamWhole
  ExitTruth
  PathShortest
  PortalsSettle
  FilesWhole
PROPERTIES
  WorkerSettles
CHECK_DEADLOCK FALSE
