-------------------------------- MODULE MCBot --------------------------------
(***************************************************************************)
(* Instances of Bot: a character that walks, on foot or from its seat,     *)
(* with a route drawn from a start or none, and one that stands and fights *)
(* with the monster out of range, an item on the ground and low health,    *)
(* with Loop and without.                                                  *)
(***************************************************************************)
EXTENDS Bot

CONSTANTS town, wood, cave

Play(cell, sitting, hp, fight) ==
  [map |-> town, cell |-> cell, dest |-> None, sitting |-> sitting, hp |-> hp,
   foe |-> fight, item |-> fight]

Does(kinds, loops) ==
  [loop |-> loops, attack |-> "attack" \in kinds, recover |-> "recover" \in kinds,
   pickup |-> "pickup" \in kinds]

Setup(play, kinds, loops, drawn, spent) ==
  [game |-> play, opt |-> Does(kinds, loops), ui |-> drawn, located |-> TRUE, running |-> FALSE,
   count |-> spent]

Running(setup) == [setup EXCEPT !.running = TRUE]

Drawn(start, way, path) == [way |-> way, start |-> start, path |-> path, draw |-> FALSE]

Lost   == {[Setup(Play(1, FALSE, "full", TRUE), {"attack"}, TRUE, Blank, 0) EXCEPT !.located = FALSE]}
Clicks == {Setup(Play(0, sits, "full", FALSE), {}, TRUE, Blank, 0) : sits \in BOOLEAN}
Starts == {Setup(Play(1, TRUE, "full", FALSE), {}, FALSE, Drawn(0, <<1>>, <<1>>), 0)}
Routes == {Running(Setup(Play(0, FALSE, "full", FALSE), {}, FALSE, Drawn(None, <<4>>, <<1, 2, 3, 4>>), 2)),
           Running(Setup(Play(3, FALSE, "full", TRUE), {"attack", "recover"}, TRUE, Drawn(None, <<4>>, <<4>>), 1))}
Hunts  == {Running(Setup(Play(2, FALSE, "full", TRUE), {"attack"}, loops, Blank, 1)) : loops \in BOOLEAN}
Rests  == {Running(Setup(Play(3, FALSE, hp, TRUE), {"attack", "recover"}, TRUE, Blank, 1)) :
             hp \in {"low", "full"}}
Picks  == {Running(Setup(Play(3, FALSE, "full", TRUE), {"attack", "pickup"}, TRUE, Blank, 1))}

All == Lost \cup Clicks \cup Starts \cup Routes \cup Hunts \cup Rests \cup Picks
Calm == {Does({}, FALSE)}

=============================================================================
