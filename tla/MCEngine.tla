------------------------------ MODULE MCEngine ------------------------------
(***************************************************************************)
(* An instance of EngineSession: two maps with one portal to each other    *)
(* and a player and a monster.  On arrival the monster is not there, so    *)
(* that an entity kept from the other map shows.                           *)
(***************************************************************************)
EXTENDS LogReplay, TLC

CONSTANTS me, other, rat, town, wood, west, east, bolt, claw

TwoPortals ==
  (town :> (west :> None @@ east :> wood)) @@ (wood :> (west :> town @@ east :> None))
OneStone  == (town :> {}) @@ (wood :> {east})
TwoSkills == (0 :> bolt) @@ (1 :> claw)

Crowd  == [id \in Others |-> west]
Change == {[id \in Others |-> IF id = rat THEN None ELSE east]}

InTown == {[map |-> town, cell |-> west, sitting |-> FALSE, near |-> Crowd, drops |-> {}]}

=============================================================================
