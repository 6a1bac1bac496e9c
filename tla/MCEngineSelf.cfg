SPECIFICATION LateSpec
CONSTANTS
  me = me
  other = other
  rat = rat
  town = town
  wood = wood
  west = west
  east = east
  bolt = bolt
  claw = claw
  None = None
  Players = {me, other}
  Monsters = {rat}
  Maps = {town, wood}
  Cells = {west, east}
  Drops = {d1}
  Slots = {0, 1}
  Vnums = {bolt, claw}
  Me = me
  One = other
  Exit <- TwoPortals
  Stones <- OneStone
  Skill <- TwoSkills
  Starts <- InTown
  Arrivals <- Change
  MaxAsked = 2
  MaxEvents = 2
  MaxLate = 2
INVARIANTS
  SelfIsMe
CHECK_DEADLOCK FALSE
