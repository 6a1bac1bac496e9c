SPECIFICATION FairSpec
CONSTANTS
  town = town
  wood = wood
  cave = cave
  None = None
  Last = 5
  Walls = {5}
  Maps = {town, wood, cave}
  Gridded = {town, wood}
  Foe = 4
  Entry = 0
  Clicked = {4, 5}
  BasicRange = 1
  Setups <- All
  Options <- Calm
  Flipped = {"loop", "attack", "recover"}
  MaxCmds = 2
  MaxInbox = 1
  MaxLater = 1
  MaxEvents = 2
INVARIANTS
  StopIsFinal
  MapStops
  TogglesOnce
PROPERTIES
  StopsForAReason
  TravelEnds
  RecoveryEnds
  CorpseForgotten
CHECK_DEADLOCK FALSE
