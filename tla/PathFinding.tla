----------------------------- MODULE PathFinding -----------------------------
(***************************************************************************)
(* mapdata.py: astar over the walkable cells of a map, one step per cell   *)
(* taken from the frontier.                                                *)
(*                                                                         *)
(* A cost is a pair: <<a, b>> is a + b * sqrt(2).  The code adds floats    *)
(* and compares them with a tolerance of 1e-9: two different pairs of a    *)
(* map's size differ by more, equal ones by rounding only.  So the costs   *)
(* are exact here, and of cells with equal estimates any may be the next.  *)
(***************************************************************************)
EXTENDS Integers, FiniteSets, Sequences

CONSTANTS
  Width, Height,   \* of the map
  Ends             \* the pairs of start and goal

Cells == (0 .. Width - 1) \X (0 .. Height - 1)
Nowhere == <<Width, Height>>

ASSUME PathAssumption == Width \in Nat \ {0} /\ Height \in Nat \ {0} /\ Ends \subseteq Cells \X Cells

VARIABLE search   \* ground, start, goal, frontier, score, from and path

-----------------------------------------------------------------------------
(* Costs and neighbours. *)

Plus(v, w) == <<v[1] + w[1], v[2] + w[2]>>

\* a + b * sqrt(2) > 0
Positive(a, b) ==
  \/ a >= 0 /\ b >= 0 /\ a + b > 0
  \/ a > 0 /\ b < 0 /\ a * a > 2 * b * b
  \/ a < 0 /\ b > 0 /\ 2 * b * b > a * a

Less(v, w) == Positive(w[1] - v[1], w[2] - v[2])

Abs(n) == IF n < 0 THEN -n ELSE n

\* A mutant: twice the distance is no lower bound.
OctileTwice(c, d) == <<2 * (Abs(c[1] - d[1]) + Abs(c[2] - d[2])), 0>>

\* max(dx, dy) + (sqrt(2) - 1) * min(dx, dy)
Octile(c, d) ==
  LET dx == Abs(c[1] - d[1])
      dy == Abs(c[2] - d[2])
      least == IF dx < dy THEN dx ELSE dy
  IN <<dx + dy - 2 * least, least>>

\* No diagonal step cuts a corner.
Neighbours(ground, c) ==
  {d \in ground : /\ d # c /\ Abs(d[1] - c[1]) <= 1 /\ Abs(d[2] - c[2]) <= 1
                  /\ <<d[1], c[2]>> \in ground /\ <<c[1], d[2]>> \in ground}

StepCost(c, d) == IF c[1] # d[1] /\ c[2] # d[2] THEN <<0, 1>> ELSE <<1, 0>>

-----------------------------------------------------------------------------
(* The search. *)

Searching(ground, start, goal) ==
  [ground |-> ground, start |-> start, goal |-> goal,
   frontier |-> {[estimate |-> Octile(start, goal), cost |-> <<0, 0>>, cell |-> start]},
   score |-> [c \in {start} |-> <<0, 0>>], from |-> [c \in {start} |-> Nowhere], done |-> start = goal]

PathInit ==
  \E ground \in SUBSET Cells, ends \in Ends :
    {ends[1], ends[2]} \subseteq ground /\ search = Searching(ground, ends[1], ends[2])

Better(s, entry, d) ==
  d \notin DOMAIN s.score \/ Less(Plus(entry.cost, StepCost(entry.cell, d)), s.score[d])

\* The neighbours are looked at in turn, but none changes what is found for another.
Expanded(s, entry) ==
  LET better == {d \in Neighbours(s.ground, entry.cell) : Better(s, entry, d)}
      cost(d) == Plus(entry.cost, StepCost(entry.cell, d))
  IN [s EXCEPT
       !.score = [d \in DOMAIN s.score \cup better |-> IF d \in better THEN cost(d) ELSE s.score[d]],
       !.from  = [d \in DOMAIN s.from \cup better |-> IF d \in better THEN entry.cell ELSE s.from[d]],
       !.frontier = (@ \ {entry}) \cup
         {[estimate |-> Plus(cost(d), Octile(d, s.goal)), cost |-> cost(d), cell |-> d] : d \in better}]

Pop ==
  /\ ~search.done
  /\ \E entry \in search.frontier :
       /\ \A other \in search.frontier : ~Less(other.estimate, entry.estimate)
       /\ search' = IF Less(search.score[entry.cell], entry.cost)
                      THEN [search EXCEPT !.frontier = @ \ {entry}]
                      ELSE IF entry.cell = search.goal
                        THEN [search EXCEPT !.done = TRUE]
                        ELSE Expanded(search, entry)

Exhausted == ~search.done /\ search.frontier = {} /\ search' = [search EXCEPT !.done = TRUE]

PathNext == Pop \/ Exhausted

PathSpec == PathInit /\ [][PathNext]_search

\* The cell before one on the way back, which ends at the start.
Before(s, cell) == IF cell = s.start THEN cell ELSE s.from[cell]

\* The path from the start, which is left out, to the cell.
Path(s, cell) ==
  LET back[n \in Nat] == IF n = 0 THEN cell ELSE Before(s, back[n - 1])
      length == CHOOSE n \in 0 .. Cardinality(s.ground) :
                  back[n] = s.start /\ \A m \in 0 .. n - 1 : back[m] # s.start
  IN [i \in 1 .. length |-> back[length - i]]

-----------------------------------------------------------------------------
(* Correctness. *)

Least(costs) == CHOOSE v \in costs : \A w \in costs : ~Less(w, v)

\* The costs of the walks to a cell that take one step more than those of r, or are of r.
Ways(ground, r, c) ==
  {Plus(r[d], StepCost(d, c)) : d \in Neighbours(ground, c) \cap DOMAIN r}
  \cup (IF c \in DOMAIN r THEN {r[c]} ELSE {})

Farther(ground, r) == [c \in {e \in ground : Ways(ground, r, e) # {}} |-> Least(Ways(ground, r, c))]

\* The least costs of the cells that walks of up to so many steps from the start reach.
Reached(ground, start) ==
  LET reach[n \in Nat] == IF n = 0 THEN [c \in {start} |-> <<0, 0>>] ELSE Farther(ground, reach[n - 1])
  IN reach

\* No least walk is longer than this.
Reference(ground, start) == Reached(ground, start)[Cardinality(ground) - 1]

\* A path is found when there is one; its steps are steps of the client, none cuts a corner, and no
\* walk to the goal is shorter (astar: "Shortest 8-direction path", and None when there is none).
PathShortest ==
  search.done =>
    LET best == Reference(search.ground, search.start)
        path == <<search.start>> \o Path(search, search.goal)
    IN IF search.goal \notin DOMAIN best
         THEN search.goal \notin DOMAIN search.from
         ELSE /\ search.goal \in DOMAIN search.from
              /\ search.score[search.goal] = best[search.goal]
              /\ path[Len(path)] = search.goal
              /\ \A i \in 2 .. Len(path) : path[i] \in Neighbours(search.ground, path[i - 1])
              /\ search.score[search.goal] =
                   <<Cardinality({i \in 2 .. Len(path) : StepCost(path[i - 1], path[i]) = <<1, 0>>}),
                     Cardinality({i \in 2 .. Len(path) : StepCost(path[i - 1], path[i]) = <<0, 1>>})>>

=============================================================================
