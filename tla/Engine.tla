------------------------------- MODULE Engine -------------------------------
(***************************************************************************)
(* engine.py: the world a host builds from the packets it reads, as a      *)
(* function of one world and one packet.                                   *)
(*                                                                         *)
(* A cell stands for a pair of coordinates, an entity for its id and kind. *)
(* Of an entity only its place is kept, of the list of ski its first       *)
(* skill.  Facing, chat, stat, the combat log, the last attacker, the      *)
(* selected target and the count of cancels are left out: no other field   *)
(* depends on them.                                                        *)
(***************************************************************************)
EXTENDS Integers, Sequences

CONSTANTS
  Players,    \* entities of kind 1, the own character among them
  Monsters,   \* entities of kinds 2 and 3
  Maps,
  Cells,
  Drops,      \* items on the ground
  Slots,      \* slots of the client's skill list; 0 is the basic attack
  Vnums,      \* skills
  None        \* a field that is not known

ASSUME NoneAssumption ==
  None \notin Players \cup Monsters \cup Maps \cup Cells \cup Slots \cup Vnums

Ids    == Players \cup Monsters
Places == Maps \X Cells

Unseen == [id \in Ids |-> None]

NewWorld ==
  [map |-> None, pos |-> None, entities |-> Unseen, drops |-> {},
   gates |-> [p \in Places |-> None], portals |-> [p \in Places |-> None],
   spaces |-> {}, departure |-> None, self |-> None, resting |-> "unknown",
   pending |-> None, learned |-> [s \in Slots |-> None], basic |-> None]

\* What the handlers read of a packet.
Packets ==
  [op : {"walk"}, cell : Cells \cup {None}] \cup [op : {"c_map"}, map : Maps, entering : BOOLEAN]
  \cup [op : {"mapout", "cancel"}] \cup [op : {"at"}, id : Players, map : Maps, cell : Cells]
  \cup [op : {"mv", "tp", "in"}, id : Ids, cell : Cells] \cup [op : {"out"}, id : Ids]
  \cup [op : {"st"}, id : Monsters, dead : BOOLEAN] \cup [op : {"drop", "get"}, drop : Drops]
  \cup [op : {"rest"}, id : Players, sitting : BOOLEAN] \cup [op : {"cond"}, id : Players]
  \cup [op : {"gp"}, cell : Cells, to : Maps] \cup [op : {"wp"}, cell : Cells]
  \cup [op : {"ski"}, first : Vnums] \cup [op : {"u_s"}, slot : Slots]
  \cup [op : {"su"}, by : Ids, vnum : Vnums]

Postures == {"unknown", "sitting", "standing"}

Worlds ==
  [map : Maps \cup {None}, pos : Cells \cup {None}, entities : [Ids -> Cells \cup {None}],
   drops : SUBSET Drops, gates : [Places -> Maps \cup {None}], portals : [Places -> Maps \cup {None}],
   spaces : SUBSET Places, departure : Places \cup {None}, self : Players \cup {None},
   resting : Postures, pending : Slots \cup {None}, learned : [Slots -> Vnums \cup {None}],
   basic : Vnums \cup {None}]

-----------------------------------------------------------------------------
(* The handlers. *)

\* A probe walks to no cell.
OnWalk(world, packet) ==
  IF packet.cell = None THEN world ELSE [world EXCEPT !.pos = packet.cell]

RememberDeparture(world) ==
  IF world.map = None \/ world.pos = None THEN world
  ELSE [world EXCEPT !.departure = <<world.map, world.pos>>]

ForgetMap(world) == [world EXCEPT !.entities = Unseen, !.drops = {}]

OnMap(world, packet) ==
  LET left == IF packet.entering THEN world ELSE RememberDeparture(world)
  IN [ForgetMap(left) EXCEPT !.map = packet.map]

OnMapout(world, packet) == ForgetMap(RememberDeparture(world))

CrossedFromArrival(world, packet) ==
  LET from == world.departure
  IN IF from = None \/ from[1] = packet.map THEN world.portals
     ELSE [world.portals EXCEPT ![<<from[1], packet.cell>>] = packet.map]

\* The cell the character left from and the one it arrived at become portals to each other's map.
Crossed(world, packet) ==
  LET from == world.departure
  IN IF from = None \/ from[1] = packet.map THEN world.portals
     ELSE [world.portals EXCEPT ![from] = packet.map, ![<<packet.map, packet.cell>>] = from[1]]

OnPosition(world, packet) ==
  LET seen == IF world.map \in {None, packet.map} THEN world ELSE ForgetMap(world)
  IN [seen EXCEPT !.portals = Crossed(world, packet), !.departure = None,
                  !.self = packet.id, !.map = packet.map, !.pos = packet.cell]

OnMove(world, packet) ==
  [world EXCEPT !.entities[packet.id] = packet.cell,
                !.pos = IF packet.id = world.self THEN packet.cell ELSE @]

OnTeleportOfOthers(world, packet) == [world EXCEPT !.entities[packet.id] = packet.cell]

OnTeleport(world, packet) == OnMove(world, packet)

OnSpawn(world, packet) == [world EXCEPT !.entities[packet.id] = packet.cell]

OnDespawn(world, packet) == [world EXCEPT !.entities[packet.id] = None]

OnStatusIgnored(world, packet) == world

\* A monster without hit points is gone; there is no out for it.
OnStatus(world, packet) ==
  IF packet.dead /\ packet.id \in Monsters THEN [world EXCEPT !.entities[packet.id] = None]
  ELSE world

OnDrop(world, packet) == [world EXCEPT !.drops = @ \cup {packet.drop}]

OnGet(world, packet) == [world EXCEPT !.drops = @ \ {packet.drop}]

OnRestOfAnyone(world, packet) ==
  [world EXCEPT !.self = packet.id, !.resting = IF packet.sitting THEN "sitting" ELSE "standing"]

\* Once the own id is known, the rest of others is ignored.
OnRest(world, packet) ==
  IF world.self \notin {None, packet.id} THEN world
  ELSE [world EXCEPT !.self = packet.id,
                     !.resting = IF packet.sitting THEN "sitting" ELSE "standing"]

OnCondition(world, packet) ==
  IF packet.id \in Players /\ world.self = None THEN [world EXCEPT !.self = packet.id] ELSE world

OnGateSwapped(world, packet) ==
  IF world.map = None THEN world
  ELSE [world EXCEPT !.gates[<<packet.to, packet.cell>>] = world.map]

\* gp carries no map: it is of the map the host believes in.
OnGate(world, packet) ==
  IF world.map = None THEN world
  ELSE [world EXCEPT !.gates[<<world.map, packet.cell>>] = packet.to]

OnWaypoint(world, packet) ==
  IF world.map = None THEN world
  ELSE [world EXCEPT !.spaces = @ \cup {<<world.map, packet.cell>>}]

\* Slot 0 of the list is the basic attack, unless a hit has named it.
OnSkillList(world, packet) == [world EXCEPT !.basic = IF @ = None THEN packet.first ELSE @]

OnSkillSend(world, packet) == [world EXCEPT !.pending = packet.slot]

\* A slot sent more than five seconds ago is not paired any more: it is as good as none.
Aged(world) == [world EXCEPT !.pending = None]

OwnHitOfAnyone(world, packet) == packet.by \in Players

OwnHit(world, packet) == world.self # None /\ packet.by = world.self

\* The hit that answers an own u_s names the skill of its slot.
OnSkillUsed(world, packet) ==
  IF ~OwnHit(world, packet) \/ world.pending = None THEN world
  ELSE [world EXCEPT !.learned[world.pending] = packet.vnum,
                     !.basic = IF world.pending = 0 THEN packet.vnum ELSE @,
                     !.pending = None]

-----------------------------------------------------------------------------

\* feed: every opcode whose handler changes a field that is kept.
Feed(world, packet) ==
  CASE packet.op = "walk"   -> OnWalk(world, packet)
    [] packet.op = "c_map"  -> OnMap(world, packet)
    [] packet.op = "mapout" -> OnMapout(world, packet)
    [] packet.op = "at"     -> OnPosition(world, packet)
    [] packet.op = "mv"     -> OnMove(world, packet)
    [] packet.op = "tp"     -> OnTeleport(world, packet)
    [] packet.op = "in"     -> OnSpawn(world, packet)
    [] packet.op = "out"    -> OnDespawn(world, packet)
    [] packet.op = "st"     -> OnStatus(world, packet)
    [] packet.op = "drop"   -> OnDrop(world, packet)
    [] packet.op = "get"    -> OnGet(world, packet)
    [] packet.op = "rest"   -> OnRest(world, packet)
    [] packet.op = "cond"   -> OnCondition(world, packet)
    [] packet.op = "gp"     -> OnGate(world, packet)
    [] packet.op = "wp"     -> OnWaypoint(world, packet)
    [] packet.op = "ski"    -> OnSkillList(world, packet)
    [] packet.op = "u_s"    -> OnSkillSend(world, packet)
    [] packet.op = "su"     -> OnSkillUsed(world, packet)
    [] OTHER                -> world

=============================================================================
