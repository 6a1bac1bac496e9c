------------------------------ MODULE LogReplay ------------------------------
(***************************************************************************)
(* spawnlog.py: what a host that attaches late takes from the file log of  *)
(* the DLL.  Each loader goes through the log once, from its first line;   *)
(* here they do it together, as a fold of the packets that are logged.     *)
(*                                                                         *)
(* The log holds every packet the DLL drained since it was injected, also  *)
(* those a host lost.  A host seeds its world from it once.                *)
(***************************************************************************)
EXTENDS EngineSession

CONSTANT MaxLate   \* bound: of MaxEvents, those of a run with a host that attached late

ASSUME LateAssumption == MaxLate \in Nat

VARIABLES
  log,     \* what the loaders return for the log as it is, until it is read
  seeded   \* spawns_loaded of a host that attached late: "no" or "yes"; "early" for another host

allVars == <<vars, log, seeded>>

NoLog ==
  [map |-> None, pos |-> None, self |-> None, here |-> None, gates |-> NewWorld.gates, spaces |-> {},
   last |-> None, left |-> None, portals |-> NewWorld.portals,
   used |-> None, me |-> None, slots |-> NewWorld.learned, first |-> None, known |-> {},
   own |-> TRUE,   \* the last cell is not another player's
   sure |-> TRUE]  \* nor was it when the character left a map

-----------------------------------------------------------------------------
(* The loaders. *)

\* The packets that name the map the character is on.
Enters(packet) == packet.op = "at" \/ (packet.op = "c_map" /\ packet.entering)

\* load_last_position and load_portals take the mv and tp of any player for an own one.
MovesPlayer(packet) ==
  \/ (packet.op = "walk" /\ packet.cell # None)
  \/ (packet.op \in {"mv", "tp"} /\ packet.id \in Players)

LastPosition(l, packet) ==
  CASE packet.op = "at" -> [l EXCEPT !.self = packet.id, !.map = packet.map, !.pos = packet.cell]
    [] MovesPlayer(packet) -> [l EXCEPT !.pos = packet.cell]
    [] packet.op = "c_map" /\ packet.entering -> [l EXCEPT !.map = packet.map]
    [] OTHER -> l

\* load_gates and load_timespaces.
Gates(l, packet) ==
  CASE Enters(packet) -> [l EXCEPT !.here = packet.map]
    [] packet.op = "gp" /\ l.here # None -> [l EXCEPT !.gates[<<l.here, packet.cell>>] = packet.to]
    [] packet.op = "wp" /\ l.here # None -> [l EXCEPT !.spaces = @ \cup {<<l.here, packet.cell>>}]
    [] OTHER -> l

\* A leaving c_map remembers the last cell; the next map, by at or by c_map, is where it led to.
Portals(l, packet) ==
  CASE MovesPlayer(packet) -> [l EXCEPT !.last = packet.cell]
    [] packet.op = "c_map" /\ ~packet.entering ->
         IF l.last = None THEN l ELSE [l EXCEPT !.left = <<packet.map, l.last>>]
    [] packet.op = "c_map" /\ packet.entering /\ l.left # None /\ l.left[1] # packet.map ->
         [l EXCEPT !.portals[l.left] = packet.map, !.left = None]
    [] packet.op = "at" ->
         LET crossed == l.left # None /\ l.left[1] # packet.map
         IN [l EXCEPT !.last = packet.cell,
                      !.left = IF crossed THEN None ELSE @,
                      !.portals = IF crossed THEN [@ EXCEPT ![l.left] = packet.map,
                                                            ![<<packet.map, packet.cell>>] = l.left[1]]
                                  ELSE @]
    [] OTHER -> l

\* A mutant: the su of any player answers the u_s.
SkillSlotsOfAnyone(l, packet) ==
  CASE packet.op = "u_s" -> [l EXCEPT !.used = packet.slot]
    [] packet.op = "su" /\ l.used # None -> [l EXCEPT !.slots[l.used] = packet.vnum, !.used = None]
    [] OTHER -> l

\* The own id is that of the first at.
SkillSlots(l, packet) ==
  CASE packet.op = "at"  -> [l EXCEPT !.me = IF @ = None THEN packet.id ELSE @]
    [] packet.op = "u_s" -> [l EXCEPT !.used = packet.slot]
    [] packet.op = "su" /\ l.used # None /\ l.me # None /\ packet.by = l.me ->
         [l EXCEPT !.slots[l.used] = packet.vnum, !.used = None]
    [] OTHER -> l

\* load_spawns and load_skill_list.
Tables(l, packet) ==
  CASE packet.op = "in"  -> [l EXCEPT !.known = @ \cup {packet.id}]
    [] packet.op = "ski" -> [l EXCEPT !.first = packet.first]
    [] OTHER -> l

Mine(l, packet) ==
  CASE packet.op \in {"mv", "tp"} /\ packet.id \in Players -> [l EXCEPT !.own = packet.id = Me]
    [] packet.op = "at" \/ (packet.op = "walk" /\ packet.cell # None) -> [l EXCEPT !.own = TRUE]
    [] packet.op = "c_map" /\ ~packet.entering -> [l EXCEPT !.sure = @ /\ l.own]
    [] OTHER -> l

Logged(l, packet) ==
  Mine(Tables(SkillSlots(Portals(Gates(LastPosition(l, packet), packet), packet), packet), packet), packet)

\* What they return after each of the packets that follow.
Behind(l, packets) ==
  LET after[i \in 0 .. Len(packets)] == IF i = 0 THEN l ELSE Logged(after[i - 1], packets[i])
  IN after

\* The worker empties the RECV ring before the SEND ring.
Drained(l, recv, send) == Behind(l, recv \o send)[Len(recv \o send)]

-----------------------------------------------------------------------------

\* The DLL was injected just now, or before the character came to the map.
LateInit ==
  /\ Init
  /\ seeded = IF world = NewWorld THEN "no" ELSE "early"
  /\ log \in {NoLog} \cup IF seeded = "early" THEN {} ELSE
       {Drained(NoLog, Arrival(game.map, game.map, game.cell, game.near, <<>>), <<>>)}

Lost(way) == SubSeq(wire[way], 1, Len(wire[way]) - Len(wire'[way]))

\* _ensure_spawns_loaded and _seed_from_log.  The log may be ahead of what the host has read.
Seed ==
  /\ seeded = "no"
  /\ seeded' = "yes"
  /\ \E j \in 0 .. Len(wire.SEND), k \in 0 .. Len(wire.RECV) :
       LET l == Drained(log, SubSeq(wire.RECV, 1, k), SubSeq(wire.SEND, 1, j))
           takes == world.map = None /\ l.map # None
       IN /\ world' = IF ~takes THEN world
                      ELSE [world EXCEPT !.map = l.map, !.pos = IF l.pos = None THEN @ ELSE l.pos,
                                         !.self = IF l.self = None THEN @ ELSE l.self]
          /\ mishaps' = mishaps \cup (IF takes /\ j + k > 0 THEN {"ahead"} ELSE {})
                                \cup (IF takes /\ ~l.own THEN {"misplaced"} ELSE {})
  /\ UNCHANGED <<game, asked, wire, told, count, log>>

LateNext ==
  /\ \/ (Game \/ Age) /\ UNCHANGED <<log, seeded>>
     \/ /\ Gap \/ \E way \in {"SEND", "RECV"} : Deliver(way)
        /\ log' = IF seeded = "no" THEN Drained(log, Lost("RECV"), Lost("SEND")) ELSE log
        /\ UNCHANGED seeded
     \/ Seed
  /\ seeded # "early" => count' <= MaxLate

LateSpec == LateInit /\ [][LateNext]_allVars

\* What a late host reads in the log of a whole session is true, whatever other hosts lost: the
\* own id, the map, the gates and Time-Spaces, who is near; the place unless another player's
\* step came last; the portals when, at each crossing, no other player's step came last; portals
\* and skills when no packet overtook what it answers, no request the answer to the last.
LogTrue ==
  seeded = "no" =>
    /\ log.self \in {None, Me}
    /\ \A p \in Places : log.gates[p] \in {None, Exit[p[1]][p[2]]} /\ (p \in log.spaces => p[2] \in Stones[p[1]])
    /\ wire.RECV = <<>> /\ log.self # None =>
         /\ log.map = game.map
         /\ \A c \in Cells : Exit[game.map][c] # None => log.gates[<<game.map, c>>] = Exit[game.map][c]
         /\ {id \in Others : game.near[id] # None} \subseteq log.known
    /\ mishaps \subseteq {"gap", "ahead", "misplaced", "mistaken"} /\ log.own /\ log.self # None
       /\ asked = <<>> /\ wire.SEND = <<>> /\ wire.RECV = <<>> => log.pos = game.cell
    /\ mishaps \cap {"overtaken", "overlapped"} = {} => \A s \in Slots : log.slots[s] \in {None, Skill[s]}
    /\ mishaps \cap {"overtaken", "overlapped", "warped"} = {} /\ log.sure =>
         \A p \in Places : log.portals[p] \in {None, Exit[p[1]][p[2]]}

=============================================================================
