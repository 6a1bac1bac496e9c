SPECIFICATION FairSpec
CONSTANTS
  town = town
  wood = wood
  cave = cave
  None = None
  Last = 5
  Walls = {5}
  Maps = {town, wood, cave}
  Gridded = {town, wood}
  Foe = 4
  Entry = 0
  Clicked = {4, 5}
  BasicRange = 1
  Setups <- Hunts
  Options <- Calm
  Flipped = {}
  MaxCmds = 2
  MaxInbox = 1
  MaxLater = 1
  MaxEvents = 2
PROPERTIES
  StationaryGoesOn
CHECK_DEADLOCK FALSE
