---------------------------- MODULE EngineSession ----------------------------
(***************************************************************************)
(* The world of engine.py while a game is played: the client and its       *)
(* server put packets on two wires, the host reads each wire in order, and *)
(* a lost connection loses the first packets of both.                      *)
(*                                                                         *)
(* The game is external.  What it sends, and in which order, is what the   *)
(* captures in docs/protocol and the comments of the handlers say of it.   *)
(* The worker of the DLL empties the RECV queue before it looks at the     *)
(* SEND queue, so an answer may overtake the packet it answers.            *)
(***************************************************************************)
EXTENDS Engine, FiniteSets, SequencesExt

CONSTANTS
  Me,        \* the own character
  One,       \* the player whose id is 1
  Exit,      \* Exit[m][c]: the map a walk to c on m leads to, or None
  Stones,    \* Stones[m]: the cells of m with the entrance of a Time-Space
  Skill,     \* Skill[s]: the skill in slot s
  Starts,    \* the games a host may attach to
  Arrivals,  \* what may be near on a map the character comes to
  MaxAsked,  \* requests the client sends ahead of the answers
  MaxEvents  \* requests of the client, events of the game and lost connections

VARIABLES
  game,     \* the truth: map, cell, sitting, near and drops
  asked,    \* requests the server has not answered
  wire,     \* captured packets the host has not read, by direction
  world,    \* WorldState
  told,     \* what the host was told since it last lost packets
  mishaps,  \* what has happened that the host cannot see: "gap", "overtaken", "overlapped", "ignored", "warped",
            \* "mistaken"; and by seeding the world from the log "ahead", "misplaced"
  count     \* events so far

vars == <<game, asked, wire, world, told, mishaps, count>>

Others  == Ids \ {Me}
Views   == [Others -> Cells \cup {None}]
Games   == [map : Maps, cell : Cells, sitting : BOOLEAN, near : Views, drops : SUBSET Drops]

ASSUME SessionAssumption ==
  /\ IsFiniteSet(Cells) /\ IsFiniteSet(Ids)
  /\ Players \cap Monsters = {} /\ Me \in Players /\ One \in Players \ {Me}
  /\ Exit \in [Maps -> [Cells -> Maps \cup {None}]]
  /\ \A m \in Maps, c \in Cells : Exit[m][c] # m
  /\ Stones \in [Maps -> SUBSET Cells] /\ Skill \in [Slots -> Vnums] /\ 0 \in Slots
  /\ Starts \subseteq Games /\ Arrivals \subseteq Views
  /\ MaxAsked \in Nat \ {0} /\ MaxEvents \in Nat

-----------------------------------------------------------------------------

\* The world of a host that saw the character enter the map.
Following(g) ==
  [NewWorld EXCEPT !.map = g.map, !.pos = g.cell, !.self = Me, !.drops = g.drops,
     !.entities = [id \in Ids |-> IF id = Me THEN None ELSE g.near[id]],
     !.gates = [p \in Places |-> IF p[1] = g.map THEN Exit[g.map][p[2]] ELSE None],
     !.spaces = {g.map} \X Stones[g.map]]

Init ==
  /\ game \in Starts
  /\ asked = <<>>
  /\ wire = [SEND |-> <<>>, RECV |-> <<>>]
  /\ \/ world = NewWorld /\ told = {}
     \/ world = Following(game) /\ told = {"place", "map"}
  /\ mishaps = {}
  /\ count = 0

-----------------------------------------------------------------------------
(* The client and its server. *)

\* The rest of the client is a toggle: a 1 stands where the rest of the server has the id.
Requests ==
  [op : {"walk"}, cell : Cells \cup {None}] \cup [op : {"u_s"}, slot : Slots] \cup
  {[op |-> "rest", id |-> One, sitting |-> FALSE]}

Counted == count < MaxEvents /\ count' = count + 1

Ask(request) ==
  /\ Counted
  /\ Len(asked) < MaxAsked
  /\ asked' = Append(asked, request)
  /\ wire' = [wire EXCEPT !.SEND = Append(@, request)]
  /\ mishaps' = IF asked = <<>> THEN mishaps ELSE mishaps \cup {"overlapped"}
  /\ UNCHANGED <<game, world, told>>

Sends(packets) == wire' = [wire EXCEPT !.RECV = @ \o packets]

InPacket(view, id) == [op |-> "in", id |-> id, cell |-> view[id]]

\* What the server sends when the character comes from map `from` to cell c of map m.
Arrival(from, m, c, view, out) ==
  <<[op |-> "c_map", map |-> from, entering |-> FALSE]>> \o out \o
  <<[op |-> "at", id |-> Me, map |-> m, cell |-> c],
    [op |-> "c_map", map |-> m, entering |-> TRUE]>> \o
  SetToSeq({[op |-> "gp", cell |-> e, to |-> Exit[m][e]] : e \in {e \in Cells : Exit[m][e] # None}})
  \o SetToSeq({[op |-> "wp", cell |-> e] : e \in Stones[m]})
  \o SetToSeq({InPacket(view, id) : id \in {id \in Others : view[id] # None}})

ChangeMap(m, c) ==
  \E view \in Arrivals, out \in {<<>>, <<[op |-> "mapout"]>>} :
    /\ game' = [map |-> m, cell |-> c, sitting |-> game.sitting, near |-> view, drops |-> {}]
    /\ Sends(Arrival(game.map, m, c, view, out))

Answered == asked' = Tail(asked) /\ UNCHANGED <<world, told, count>>

ServeWalk(c) ==
  /\ ~game.sitting
  /\ IF Exit[game.map][c] = None
       THEN game' = [game EXCEPT !.cell = c] /\ UNCHANGED wire
       ELSE \E back \in {e \in Cells : Exit[Exit[game.map][c]][e] = game.map} :
              ChangeMap(Exit[game.map][c], back)
  /\ UNCHANGED mishaps

ServeReject == Sends(<<[op |-> "tp", id |-> Me, cell |-> game.cell]>>) /\ UNCHANGED <<game, mishaps>>

ServeIgnore == mishaps' = mishaps \cup {"ignored"} /\ UNCHANGED <<game, wire>>

ServeHit(s) == Sends(<<[op |-> "su", by |-> Me, vnum |-> Skill[s]]>>) /\ UNCHANGED <<game, mishaps>>

ServeCancel == Sends(<<[op |-> "cancel"]>>) /\ UNCHANGED <<game, mishaps>>

ServeRest ==
  /\ game' = [game EXCEPT !.sitting = ~@]
  /\ Sends(<<[op |-> "rest", id |-> Me, sitting |-> ~game.sitting]>>)
  /\ UNCHANGED mishaps

Serve ==
  /\ asked # <<>>
  /\ LET request == Head(asked)
     IN \/ request.op = "walk" /\ request.cell # None /\ (ServeWalk(request.cell) \/ ServeIgnore)
        \/ request.op = "walk" /\ ServeReject
        \/ request.op = "u_s" /\ (ServeHit(request.slot) \/ ServeCancel)
        \/ request.op = "rest" /\ ServeRest
  /\ Answered

Happened == Counted /\ UNCHANGED <<asked, world, told>>

Warp(m, c) ==
  /\ m # game.map
  /\ ChangeMap(m, c)
  /\ mishaps' = mishaps \cup {"warped"}
  /\ Happened

\* An event of the game that the server announces in one packet.
Announce(truth, packet) ==
  /\ game' = truth
  /\ Sends(<<packet>>)
  /\ UNCHANGED mishaps
  /\ Happened

OtherRests(id, sitting) ==
  id # Me /\ Announce(game, [op |-> "rest", id |-> id, sitting |-> sitting])

Condition == Announce(game, [op |-> "cond", id |-> Me])

ListSkills == Announce(game, [op |-> "ski", first |-> Skill[0]])

Appear(id, c) ==
  /\ game.near[id] = None
  /\ Announce([game EXCEPT !.near[id] = c], [op |-> "in", id |-> id, cell |-> c])

Move(id, c) ==
  /\ game.near[id] \notin {None, c}
  /\ Announce([game EXCEPT !.near[id] = c], [op |-> "mv", id |-> id, cell |-> c])

Leave(id) ==
  /\ game.near[id] # None
  /\ Announce([game EXCEPT !.near[id] = None], [op |-> "out", id |-> id])

Hurt(id, dead) ==
  /\ game.near[id] # None
  /\ Announce(IF dead THEN [game EXCEPT !.near[id] = None] ELSE game,
              [op |-> "st", id |-> id, dead |-> dead])

HitBy(id, vnum) ==
  game.near[id] # None /\ Announce(game, [op |-> "su", by |-> id, vnum |-> vnum])

Fall(d) ==
  d \notin game.drops /\ Announce([game EXCEPT !.drops = @ \cup {d}], [op |-> "drop", drop |-> d])

Take(d) ==
  d \in game.drops /\ Announce([game EXCEPT !.drops = @ \ {d}], [op |-> "get", drop |-> d])

Game ==
  \/ \E request \in Requests : Ask(request)
  \/ Serve
  \/ \E m \in Maps, c \in Cells : Warp(m, c)
  \/ \E id \in Players, sitting \in BOOLEAN : OtherRests(id, sitting)
  \/ Condition
  \/ ListSkills
  \/ \E id \in Others, c \in Cells : Appear(id, c) \/ Move(id, c)
  \/ \E id \in Others : Leave(id)
  \/ \E id \in Monsters, dead \in BOOLEAN : Hurt(id, dead)
  \/ \E id \in Players \ {Me}, vnum \in Vnums : HitBy(id, vnum)
  \/ \E d \in Drops : Fall(d) \/ Take(d)

-----------------------------------------------------------------------------
(* The host. *)

OtherWay == [SEND |-> "RECV", RECV |-> "SEND"]

\* "place" since an at, "map" since the c_map that follows it, "rest" since an own rest after it.
ToldBy(packet) ==
  CASE packet.op = "at" -> told \cup {"place"}
    [] packet.op = "c_map" /\ packet.entering /\ "place" \in told -> told \cup {"map"}
    [] packet.op = "rest" /\ packet.id = Me /\ "place" \in told -> told \cup {"rest"}
    [] OTHER -> told

Deliver(way) ==
  /\ wire[way] # <<>>
  /\ world' = Feed(world, Head(wire[way]))
  /\ told' = ToldBy(Head(wire[way]))
  /\ wire' = [wire EXCEPT ![way] = Tail(@)]
  /\ mishaps' = mishaps \cup (IF wire[OtherWay[way]] = <<>> THEN {} ELSE {"overtaken"})
                        \cup (IF world'.self \in {None, Me} THEN {} ELSE {"mistaken"})
  /\ UNCHANGED <<game, asked, count>>

\* A host that connects again keeps its world and has missed what the wires held.
Gap ==
  /\ \E j \in 0 .. Len(wire.SEND), k \in 0 .. Len(wire.RECV) :
       /\ j + k > 0
       /\ wire' = [SEND |-> SubSeq(wire.SEND, j + 1, Len(wire.SEND)),
                   RECV |-> SubSeq(wire.RECV, k + 1, Len(wire.RECV))]
       /\ mishaps' = mishaps \cup {"gap"} \cup (IF (k > 0 /\ wire.SEND # <<>>) \/ (j > 0 /\ wire'.RECV # <<>>) THEN {"overtaken"} ELSE {})
  /\ Counted
  /\ told' = {}
  /\ UNCHANGED <<game, asked, world>>

Age ==
  /\ world.pending # None
  /\ world' = Aged(world)
  /\ UNCHANGED <<game, asked, wire, told, mishaps, count>>

Next == Game \/ (\E way \in {"SEND", "RECV"} : Deliver(way)) \/ Gap \/ Age

Spec == Init /\ [][Next]_vars

-----------------------------------------------------------------------------
(* Correctness. *)

Entities == [id \in Others |-> world.entities[id]]

\* Since it saw the character enter a map, a host that has read everything has the
\* entities and the drops of the game, whatever it lost before: nothing of the old map is
\* left, no monster that died, moved or went is still there, none that came is missing
\* (_on_map, _on_mapout, _on_spawn, _on_move, _on_despawn, _on_status, _on_drop, _on_get).
ViewIsCurrent ==
  "map" \in told /\ wire.RECV = <<>> => Entities = game.near /\ world.drops = game.drops

\* The gates and Time-Spaces a host stored are of the map they are stored for, unless it
\* lost packets; and once it has read all of a map's list, all of them are there (_on_gate,
\* _on_waypoint: gp and wp do not say which map they are of).
GatesExact ==
  /\ "gap" \notin mishaps =>
       \A p \in Places : /\ world.gates[p] \in {None, Exit[p[1]][p[2]]}
                         /\ p \in world.spaces => p[2] \in Stones[p[1]]
  /\ "map" \in told /\ wire.RECV = <<>> =>
       \A c \in Cells : /\ Exit[game.map][c] # None => world.gates[<<game.map, c>>] = Exit[game.map][c]
                        /\ c \in Stones[game.map] => <<game.map, c>> \in world.spaces

\* The portals learned from crossings are portals, both ways, if the host reads the walk on
\* to the portal before its consequences, every change of map is a crossing and it never took
\* another's steps for its own (_remember_departure, _on_position, _on_move).
PortalsTrue ==
  mishaps \subseteq {"ignored"} =>
    \A p \in Places : world.portals[p] \in {None, Exit[p[1]][p[2]]}

\* A host that has read everything, and lost, overtook or overlapped nothing, has the cell
\* of the character: of a walk that was rejected it learns by the tp (_on_walk, _on_teleport).
PositionTrue ==
  /\ mishaps \subseteq {"mistaken"} /\ "place" \in told
  /\ asked = <<>> /\ wire.SEND = <<>> /\ wire.RECV = <<>>
  => world.pos = game.cell

\* Once an own rest came after an at, a host that has read everything knows whether the
\* character sits, whoever else sat down meanwhile (_on_rest).
RestTrue ==
  "rest" \in told /\ wire.RECV = <<>> =>
    world.self = Me /\ world.resting = IF game.sitting THEN "sitting" ELSE "standing"

\* A slot is paired with its own skill and with no other, if the host reads each u_s before
\* its su, lost none, and no u_s is sent before the last one was answered (_on_skill_used).
SkillsTrue ==
  mishaps \cap {"gap", "overtaken", "overlapped", "mistaken"} = {} =>
    /\ \A s \in Slots : world.learned[s] \in {None, Skill[s]}
    /\ world.basic \in {None, Skill[0]}

\* The own id is the id of the own character (docs/engine.md: self_id is the "own char id").
\* _on_rest takes it from the first rest it sees, and so from the rest of another player, or
\* from the toggle the client sends, which carries a 1 where the server's rest has an id.
SelfIsMe == world.self \in {None, Me}

=============================================================================
